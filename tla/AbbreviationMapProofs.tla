----------------------- MODULE AbbreviationMapProofs -----------------------
(***************************************************************************)
(* Markers are unique for every set of CIDs and every alphabet.  The       *)
(* argument: order strings by length and then by their first difference;   *)
(* Increment goes up in that order, so every marker handed out stays below *)
(* the next one, which is therefore new.                                   *)
(* Increment also adds one to the place of a marker in the list, so the    *)
(* map gives out the list from its beginning and in its order.             *)
(***************************************************************************)
EXTENDS AbbreviationMap, Recursion, SequenceTheorems, FiniteSetTheorems

\* s comes before t: it is shorter, or as long and smaller where they first
\* differ.
Less(s, t) ==
    \/ Len(s) < Len(t)
    \/ /\ Len(s) = Len(t)
       /\ \E i \in 1 .. Len(s) :
             /\ s[i] < t[i]
             /\ \A j \in 1 .. i - 1 : s[j] = t[j]

\* The inductive invariant: what is handed out is below what is next.
IndInv ==
    /\ TypeOK
    /\ \A c \in DOMAIN abbreviations : Less(abbreviations[c], nextAbbreviation)
    /\ \A c, d \in DOMAIN abbreviations :
          c # d => abbreviations[c] # abbreviations[d]

-----------------------------------------------------------------------------

LEMMA LessIrreflexive == \A s \in Abbreviation : ~Less(s, s)
<1> SUFFICES ASSUME NEW s \in Abbreviation, Less(s, s) PROVE FALSE
  OBVIOUS
<1>1. Len(s) \in Nat /\ \A i \in 1 .. Len(s) : s[i] \in Int
  BY LettersAssumption DEF Abbreviation, Letter, A, Z
<1>2. QED
  BY <1>1 DEF Less

LEMMA LessTransitive ==
    ASSUME NEW s \in Abbreviation, NEW t \in Abbreviation,
           NEW u \in Abbreviation, Less(s, t), Less(t, u)
    PROVE  Less(s, u)
<1>1. /\ Len(s) \in Nat /\ Len(t) \in Nat /\ Len(u) \in Nat
      /\ \A i \in 1 .. Len(s) : s[i] \in Int
      /\ \A i \in 1 .. Len(t) : t[i] \in Int
      /\ \A i \in 1 .. Len(u) : u[i] \in Int
  BY LettersAssumption DEF Abbreviation, Letter, A, Z
<1>2. CASE Len(s) < Len(t) \/ Len(t) < Len(u)
  BY <1>1, <1>2 DEF Less
<1>3. CASE Len(s) = Len(t) /\ Len(t) = Len(u)
  <2>1. PICK i \in 1 .. Len(s) :
           s[i] < t[i] /\ \A j \in 1 .. i - 1 : s[j] = t[j]
    BY <1>1, <1>3 DEF Less
  <2>2. PICK k \in 1 .. Len(s) :
           t[k] < u[k] /\ \A j \in 1 .. k - 1 : t[j] = u[j]
    BY <1>1, <1>3 DEF Less
  <2>3. CASE i < k
    <3>1. s[i] < u[i] /\ \A j \in 1 .. i - 1 : s[j] = u[j]
      BY <1>1, <1>3, <2>1, <2>2, <2>3
    <3>2. QED
      BY <1>3, <3>1 DEF Less
  <2>4. CASE k <= i
    <3>1. s[k] < u[k]
      BY <1>1, <1>3, <2>1, <2>2, <2>4
    <3>2. \A j \in 1 .. k - 1 : s[j] = u[j]
      BY <1>1, <1>3, <2>1, <2>2, <2>4
    <3>3. QED
      BY <1>3, <3>1, <3>2 DEF Less
  <2>5. QED
    BY <1>1, <2>3, <2>4
<1>4. QED
  BY <1>1, <1>2, <1>3 DEF Less

LEMMA IncrementType ==
    ASSUME NEW s \in Abbreviation
    PROVE  Increment(s) \in Abbreviation
<1>1. s \in Seq(Letter) /\ Len(s) \in Nat \ {0}
  BY DEF Abbreviation
<1>2. A \in Letter /\ Z \in Nat
  BY LettersAssumption DEF Letter, A, Z
<1>3. \A i \in 1 .. Len(s) :
         s[i] \in Letter /\ (s[i] # Z => s[i] + 1 \in Letter)
  BY <1>1, <1>2 DEF Letter, A
<1>4. CASE Carried(s, 0)
  <2>1. /\ Increment(s) \in [1 .. Len(s) + 1 -> Letter]
        /\ Len(s) + 1 \in Nat
    BY <1>1, <1>2, <1>4 DEF Increment
  <2>2. Increment(s) \in Seq(Letter) /\ Len(Increment(s)) = Len(s) + 1
    BY <2>1, <1>1
  <2>3. QED
    BY <2>2, <1>1 DEF Abbreviation
<1>5. CASE ~Carried(s, 0)
  <2>1. Increment(s) \in [1 .. Len(s) -> Letter]
    BY <1>1, <1>2, <1>3, <1>5 DEF Increment
  <2>2. Increment(s) \in Seq(Letter) /\ Len(Increment(s)) = Len(s)
    BY <2>1, <1>1
  <2>3. QED
    BY <2>2, <1>1 DEF Abbreviation
<1>6. QED
  BY <1>4, <1>5

\* Somewhere the carry stops: the rightmost letter that is not Z.
LEMMA CarryStops ==
    ASSUME NEW s \in Abbreviation, ~Carried(s, 0)
    PROVE  \E m \in 1 .. Len(s) : s[m] # Z /\ Carried(s, m)
<1>1. Len(s) \in Nat
  BY DEF Abbreviation
<1> DEFINE Left(n) == n \in 0 .. Len(s) - 1 /\ s[Len(s) - n] # Z
           Lefts == {n \in Nat : Left(n)}
<1>2. \E n \in Nat : n \in Lefts
  <2>1. PICK j \in 1 .. Len(s) : s[j] # Z
    BY <1>1 DEF Carried
  <2>2. Len(s) - j \in Nat /\ Left(Len(s) - j)
    BY <2>1, <1>1
  <2>3. QED
    BY <2>2
<1>3. Lefts \in SUBSET Nat /\ Lefts # {}
  BY <1>2
<1>4. PICK n \in Lefts : \A k \in Lefts : n <= k
  <2> HIDE DEF Lefts
  <2>1. QED
    BY <1>3, LeastNumber
<1>5. n \in Nat /\ Left(n)
  BY <1>4
<1>6. Carried(s, Len(s) - n)
  <2>1. SUFFICES ASSUME NEW j \in (Len(s) - n + 1) .. Len(s), s[j] # Z
                 PROVE  FALSE
    BY DEF Carried
  <2>2. Len(s) - j \in Nat /\ Len(s) - j < n /\ Left(Len(s) - j)
    BY <1>1, <1>5, <2>1
  <2>3. Len(s) - j \in Lefts
    BY <2>2
  <2>4. QED
    BY <1>4, <2>2, <2>3
<1>7. Len(s) - n \in 1 .. Len(s)
  BY <1>1, <1>5
<1>8. QED
  BY <1>5, <1>6, <1>7

LEMMA IncrementGreater ==
    ASSUME NEW s \in Abbreviation
    PROVE  Less(s, Increment(s))
<1>1. Len(s) \in Nat /\ \A i \in 1 .. Len(s) : s[i] \in Int
  BY LettersAssumption DEF Abbreviation, Letter, A, Z
<1>2. CASE Carried(s, 0)
  <2>1. Len(Increment(s)) = Len(s) + 1
    BY <1>1, <1>2 DEF Increment
  <2>2. QED
    BY <1>1, <2>1 DEF Less
<1>3. CASE ~Carried(s, 0)
  <2>1. PICK m \in 1 .. Len(s) : s[m] # Z /\ Carried(s, m)
    BY <1>3, CarryStops
  <2>2. /\ Len(Increment(s)) = Len(s)
        /\ Increment(s)[m] = s[m] + 1
    BY <1>1, <1>3, <2>1 DEF Increment
  <2>3. ASSUME NEW j \in 1 .. m - 1
        PROVE  Increment(s)[j] = s[j]
    <3>1. j \in 1 .. Len(s) /\ ~Carried(s, j)
      BY <1>1, <2>1, <2>3 DEF Carried
    <3>2. QED
      BY <1>3, <3>1 DEF Increment
  <2>4. QED
    BY <1>1, <2>1, <2>2, <2>3 DEF Less
<1>4. QED
  BY <1>2, <1>3

-----------------------------------------------------------------------------
(***************************************************************************)
(* Ordinals: Increment adds one.                                           *)
(***************************************************************************)

\* The values of the prefixes of a marker.
IsValue(v, s) ==
    /\ v \in [0 .. Len(s) -> Nat]
    /\ v[0] = 0
    /\ \A n \in 1 .. Len(s) : v[n] = v[n - 1] * Letters + s[n] + 1

\* Ordinal goes through the values of the prefixes.
LEMMA OrdinalHasValue ==
    ASSUME NEW s \in Abbreviation
    PROVE  \E v : IsValue(v, s) /\ Ordinal(s) = v[Len(s)]
<1> DEFINE N == Len(s)
           Longer(x, n) == x * Letters + s[n] + 1
           Solves(v) == v = [n \in 0 .. N |->
                                IF n = 0 THEN 0
                                ELSE v[n - 1] * Letters + s[n] + 1]
           step == [p \in Nat \X (1 .. N) |-> Longer(p[1], p[2])]
           value == CHOOSE v : Solves(v)
<1>1. N \in Nat /\ \A n \in 1 .. N : s[n] \in Nat
  BY LettersAssumption DEF Abbreviation, Letter, A, Z
<1>2. \A x \in Nat, n \in 1 .. N : Longer(x, n) \in Nat
  BY <1>1, LettersAssumption
<1>3. IsStep(step, N, Nat)
  BY <1>2 DEF IsStep
<1>4. \A x \in Nat, n \in 1 .. N : step[<<x, n>>] = Longer(x, n)
  OBVIOUS
<1> HIDE DEF step, Longer
<1>5. PICK v : Follows(v, N, Nat, 0, step)
  BY <1>1, <1>3, IntervalRecursion
<1>6. /\ v \in [0 .. N -> Nat] /\ v[0] = 0
      /\ \A n \in 1 .. N : v[n] = step[<<v[n - 1], n>>]
  BY <1>5 DEF Follows
<1>7. \A n \in 1 .. N : v[n] = Longer(v[n - 1], n)
  <2>1. \A n \in 1 .. N : v[n - 1] \in Nat
    BY <1>1, <1>6
  <2>2. QED
    BY <1>4, <1>6, <2>1
<1>8. Solves(v)
  BY <1>1, <1>6, <1>7 DEF Longer
<1>9. Solves(value)
  <2> HIDE DEF Solves
  <2>1. QED
    BY <1>8
<1>10. Ordinal(s) = value[N]
  BY DEF Ordinal
<1> HIDE DEF value, N
<1>11. value[0] = 0 /\ \A n \in 1 .. N : value[n] = Longer(value[n - 1], n)
  BY <1>1, <1>9 DEF Longer
<1> DEFINE T == {n \in 0 .. N : value[n] = v[n]}
<1>12. 0 \in T
  BY <1>1, <1>6, <1>11
<1>13. ASSUME NEW n \in 0 .. N - 1, n \in T PROVE n + 1 \in T
  <2>1. n + 1 \in 1 .. N /\ n + 1 - 1 = n
    BY <1>1
  <2>2. /\ value[n + 1] = Longer(value[n], n + 1)
        /\ v[n + 1] = Longer(v[n], n + 1)
    BY <1>7, <1>11, <2>1
  <2>3. QED
    BY <1>13, <2>1, <2>2
<1>14. 0 .. N \subseteq T
  <2> HIDE DEF T
  <2>1. QED
    BY <1>1, <1>12, <1>13, IntervalInduction
<1>15. value[N] = v[N]
  BY <1>1, <1>14
<1>16. QED
  BY <1>6, <1>7, <1>10, <1>15 DEF IsValue, Longer, N

LEMMA FirstOrdinal == <<A>> \in Abbreviation /\ Ordinal(<<A>>) = 1
<1>1. <<A>> \in Abbreviation
  BY LettersAssumption DEF Abbreviation, Letter, A, Z
<1>2. Len(<<A>>) = 1 /\ <<A>>[1] = 0
  BY DEF A
<1>3. PICK v : IsValue(v, <<A>>) /\ Ordinal(<<A>>) = v[1]
  BY <1>1, <1>2, OrdinalHasValue
<1>4. v[0] = 0 /\ v[1] = v[0] * Letters + 0 + 1
  BY <1>2, <1>3 DEF IsValue
<1>5. QED
  BY <1>1, <1>3, <1>4, LettersAssumption

LEMMA OrdinalType == \A s \in Abbreviation : Ordinal(s) \in Nat
<1>1. ASSUME NEW s \in Abbreviation PROVE Ordinal(s) \in Nat
  <2>1. PICK v : IsValue(v, s) /\ Ordinal(s) = v[Len(s)]
    BY OrdinalHasValue
  <2>2. Len(s) \in 0 .. Len(s)
    BY DEF Abbreviation
  <2>3. QED
    BY <2>1, <2>2 DEF IsValue
<1>2. QED
  BY <1>1

\* Wrapping a letter and carrying one is adding one: a letter that wraps was
\* worth Letters and is worth 1, and the prefix before it counts Letters more.
LEMMA Wrap ==
    ASSUME NEW x \in Nat
    PROVE  (x + 1) * Letters + A + 1 = (x * Letters + Z + 1) + 1
  BY LettersAssumption DEF A, Z

\* Every letter wraps: a letter more, and each prefix stands one to the right.
LEMMA AllWrap ==
    ASSUME NEW s \in Abbreviation, Carried(s, 0)
    PROVE  Ordinal(Increment(s)) = Ordinal(s) + 1
<1> DEFINE N == Len(s)
           t == Increment(s)
<1>1. N \in Nat /\ t \in Abbreviation
  BY IncrementType DEF Abbreviation
<1>2. Len(t) = N + 1 /\ \A n \in 1 .. N + 1 : t[n] = A
  BY <1>1 DEF Increment
<1>3. \A n \in 1 .. N : s[n] = Z
  BY DEF Carried
<1> HIDE DEF t
<1>4. PICK v : IsValue(v, s) /\ Ordinal(s) = v[N]
  BY OrdinalHasValue
<1>5. PICK w : IsValue(w, t) /\ Ordinal(t) = w[N + 1]
  BY <1>1, <1>2, OrdinalHasValue
<1>6. /\ v[0] = 0 /\ \A n \in 0 .. N : v[n] \in Nat
      /\ \A n \in 1 .. N : v[n] = v[n - 1] * Letters + Z + 1
  BY <1>3, <1>4 DEF IsValue
<1>7. w[0] = 0 /\ \A n \in 1 .. N + 1 : w[n] = w[n - 1] * Letters + A + 1
  BY <1>2, <1>5 DEF IsValue
<1> DEFINE T == {n \in 0 .. N : w[n + 1] = v[n] + 1}
<1>8. 0 \in T
  <2>1. w[1] = w[0] * Letters + A + 1
    BY <1>1, <1>7
  <2>2. QED
    BY <1>1, <1>6, <1>7, <2>1, LettersAssumption DEF A
<1>9. ASSUME NEW n \in 0 .. N - 1, n \in T PROVE n + 1 \in T
  <2>1. /\ n + 1 \in 1 .. N /\ n + 2 \in 1 .. N + 1
        /\ (n + 1) - 1 = n /\ (n + 2) - 1 = n + 1 /\ (n + 1) + 1 = n + 2
    BY <1>1
  <2>2. v[n + 1] = v[n] * Letters + Z + 1 /\ v[n] \in Nat
    BY <1>6, <2>1
  <2>3. w[n + 2] = (v[n] + 1) * Letters + A + 1
    BY <1>7, <1>9, <2>1
  <2>4. w[n + 2] = v[n + 1] + 1
    BY <2>2, <2>3, Wrap
  <2>5. QED
    BY <2>1, <2>4
<1>10. 0 .. N \subseteq T
  <2> HIDE DEF T
  <2>1. QED
    BY <1>1, <1>8, <1>9, IntervalInduction
<1>11. QED
  BY <1>1, <1>4, <1>5, <1>10 DEF t

\* The carry stops at m: the prefixes are what they were up to there, and one
\* more from there on.
LEMMA SomeWrap ==
    ASSUME NEW s \in Abbreviation, ~Carried(s, 0)
    PROVE  Ordinal(Increment(s)) = Ordinal(s) + 1
<1> DEFINE N == Len(s)
           t == Increment(s)
<1>1. N \in Nat /\ t \in Abbreviation /\ \A n \in 1 .. N : s[n] \in Nat
  BY IncrementType, LettersAssumption DEF Abbreviation, Letter, A, Z
<1>2. PICK m \in 1 .. N : s[m] # Z /\ Carried(s, m)
  BY CarryStops
<1>3. /\ Len(t) = N
      /\ \A n \in 1 .. N : t[n] = IF Carried(s, n)
                                  THEN IF s[n] = Z THEN A ELSE s[n] + 1
                                  ELSE s[n]
  BY <1>1 DEF Increment
<1> HIDE DEF t
<1>4. /\ \A n \in 1 .. m - 1 : t[n] = s[n]
      /\ t[m] = s[m] + 1
      /\ \A n \in m + 1 .. N : t[n] = A /\ s[n] = Z
  <2>1. \A n \in 1 .. m - 1 : ~Carried(s, n)
    BY <1>1, <1>2 DEF Carried
  <2>2. \A n \in m + 1 .. N : Carried(s, n) /\ s[n] = Z
    BY <1>1, <1>2 DEF Carried
  <2>3. QED
    BY <1>1, <1>2, <1>3, <2>1, <2>2
<1>5. PICK v : IsValue(v, s) /\ Ordinal(s) = v[N]
  BY OrdinalHasValue
<1>6. PICK w : IsValue(w, t) /\ Ordinal(t) = w[N]
  BY <1>1, <1>3, OrdinalHasValue
<1>7. /\ v[0] = 0 /\ \A n \in 0 .. N : v[n] \in Nat
      /\ \A n \in 1 .. N : v[n] = v[n - 1] * Letters + s[n] + 1
  BY <1>5 DEF IsValue
<1>8. w[0] = 0 /\ \A n \in 1 .. N : w[n] = w[n - 1] * Letters + t[n] + 1
  BY <1>3, <1>6 DEF IsValue
<1> DEFINE More(n) == IF n < m THEN 0 ELSE 1
           T == {n \in 0 .. N : w[n] = v[n] + More(n)}
<1>9. 0 \in T
  BY <1>1, <1>7, <1>8
<1>10. ASSUME NEW n \in 0 .. N - 1, n \in T PROVE n + 1 \in T
  <2>1. /\ n + 1 \in 1 .. N /\ (n + 1) - 1 = n /\ n \in 0 .. N
        /\ n \in Nat /\ m \in Nat
    BY <1>1
  <2>2. v[n] \in Nat /\ v[n + 1] \in Nat /\ s[n + 1] \in Nat
    BY <1>1, <1>7, <2>1
  <2>3. /\ v[n + 1] = v[n] * Letters + s[n + 1] + 1
        /\ w[n + 1] = w[n] * Letters + t[n + 1] + 1
    BY <1>7, <1>8, <2>1
  <2>4. v[n] * Letters \in Nat
    BY <2>2, LettersAssumption
  <2>5. CASE n + 1 < m
    <3>1. w[n] = v[n] /\ t[n + 1] = s[n + 1] /\ More(n + 1) = 0
      BY <1>4, <1>10, <2>1, <2>2, <2>5
    <3>2. QED
      BY <2>1, <2>2, <2>3, <3>1
  <2>6. CASE n + 1 = m
    <3>1. w[n] = v[n] /\ t[n + 1] = s[n + 1] + 1 /\ More(n + 1) = 1
      BY <1>4, <1>10, <2>1, <2>2, <2>6
    <3>2. w[n + 1] = v[n] * Letters + (s[n + 1] + 1) + 1
      BY <2>3, <3>1
    <3>3. w[n + 1] = v[n + 1] + 1
      <4>1. ASSUME NEW x \in Nat, NEW y \in Nat, NEW z, z = x + (y + 1) + 1
            PROVE  z = (x + y + 1) + 1
        BY <4>1
      <4>2. QED
        BY <2>2, <2>3, <2>4, <3>2, <4>1
    <3>4. QED
      BY <2>1, <3>1, <3>3
  <2>7. CASE m < n + 1
    <3>1. w[n] = v[n] + 1 /\ t[n + 1] = A /\ s[n + 1] = Z /\ More(n + 1) = 1
      BY <1>1, <1>4, <1>10, <2>1, <2>7
    <3>2. w[n + 1] = (v[n] + 1) * Letters + A + 1
      BY <2>3, <3>1
    <3>3. w[n + 1] = v[n + 1] + 1
      BY <2>2, <2>3, <3>1, <3>2, Wrap
    <3>4. QED
      BY <2>1, <3>1, <3>3
  <2>8. QED
    BY <2>1, <2>5, <2>6, <2>7
<1>11. 0 .. N \subseteq T
  <2> HIDE DEF T
  <2>1. QED
    BY <1>1, <1>9, <1>10, IntervalInduction
<1>12. w[N] = v[N] + 1
  BY <1>1, <1>11
<1>13. QED
  BY <1>5, <1>6, <1>12 DEF t

LEMMA IncrementIsSuccessor ==
    ASSUME NEW s \in Abbreviation
    PROVE  Ordinal(Increment(s)) = Ordinal(s) + 1
  BY AllWrap, SomeWrap

-----------------------------------------------------------------------------

LEMMA InitInv == Init => IndInv
<1> SUFFICES ASSUME Init PROVE IndInv
  OBVIOUS
<1>1. nextAbbreviation \in Abbreviation
  BY LettersAssumption DEF Init, Abbreviation, Letter, A, Z
<1>2. QED
  BY <1>1 DEF Init, IndInv, TypeOK

LEMMA NextInv == IndInv /\ [Next]_vars => IndInv'
<1> SUFFICES ASSUME IndInv, [Next]_vars PROVE IndInv'
  OBVIOUS
<1> USE DEF IndInv, TypeOK
<1>1. ASSUME NEW cid \in Cids, NewUuid(cid) PROVE IndInv'
  <2>1. /\ DOMAIN abbreviations' = DOMAIN abbreviations \cup {cid}
        /\ abbreviations'[cid] = nextAbbreviation
        /\ \A c \in DOMAIN abbreviations : abbreviations'[c] = abbreviations[c]
        /\ nextAbbreviation' = Increment(nextAbbreviation)
    BY <1>1 DEF NewUuid
  <2>2. /\ nextAbbreviation' \in Abbreviation
        /\ Less(nextAbbreviation, nextAbbreviation')
    BY <2>1, IncrementType, IncrementGreater
  <2>3. TypeOK'
    BY <2>1, <2>2
  <2>4. ASSUME NEW c \in DOMAIN abbreviations'
        PROVE  Less(abbreviations'[c], nextAbbreviation')
    BY <2>1, <2>2, LessTransitive
  <2>5. ASSUME NEW c \in DOMAIN abbreviations', NEW d \in DOMAIN abbreviations',
               c # d
        PROVE  abbreviations'[c] # abbreviations'[d]
    BY <2>1, <2>5, LessIrreflexive
  <2>6. QED
    BY <2>3, <2>4, <2>5
<1>2. ASSUME NEW cid \in Cids, KnownUuid(cid) PROVE IndInv'
  BY <1>2 DEF KnownUuid, vars
<1>3. CASE UNCHANGED vars
  BY <1>3 DEF vars
<1>4. QED
  BY <1>1, <1>2, <1>3 DEF Next, AbbreviationForUuid

LEMMA Invariance == Spec => []IndInv
  BY InitInv, NextInv, PTL DEF Spec

\* Every marker is a non-empty string of letters, for any set of CIDs.
THEOREM TypeCorrect == Spec => []TypeOK
<1>1. IndInv => TypeOK
  BY DEF IndInv
<1>2. QED
  BY <1>1, Invariance, PTL

\* No two sources of a universe ever share a marker, however many of them are
\* seen and whatever the alphabet: the property a reader of the log relies on
\* to tell which source a row is about.
THEOREM MarkersAreUnique == Spec => []DistinctAbbreviations
<1>1. IndInv => DistinctAbbreviations
  BY LessIrreflexive DEF IndInv, TypeOK, DistinctAbbreviations
<1>2. QED
  BY <1>1, Invariance, PTL

-----------------------------------------------------------------------------
(***************************************************************************)
(* The order of the markers.                                               *)
(***************************************************************************)

\* The next marker is the one after as many as there are known CIDs.
OrdinalInv ==
    /\ IsFiniteSet(DOMAIN abbreviations)
    /\ Ordinal(nextAbbreviation) = Cardinality(DOMAIN abbreviations) + 1

LEMMA OrdinalInvInit == Init => OrdinalInv
<1> SUFFICES ASSUME Init PROVE OrdinalInv
  OBVIOUS
<1>1. DOMAIN abbreviations = {} /\ nextAbbreviation = <<A>>
  BY DEF Init
<1>2. QED
  BY <1>1, FirstOrdinal, FS_EmptySet DEF OrdinalInv

LEMMA OrdinalInvNext ==
    TypeOK /\ OrdinalInv /\ [Next]_vars => OrdinalInv'
<1> SUFFICES ASSUME TypeOK, OrdinalInv, [Next]_vars PROVE OrdinalInv'
  OBVIOUS
<1>1. ASSUME NEW cid \in Cids, NewUuid(cid) PROVE OrdinalInv'
  <2>1. /\ DOMAIN abbreviations' = DOMAIN abbreviations \cup {cid}
        /\ cid \notin DOMAIN abbreviations
        /\ nextAbbreviation' = Increment(nextAbbreviation)
    BY <1>1 DEF NewUuid
  <2>2. /\ IsFiniteSet(DOMAIN abbreviations')
        /\ Cardinality(DOMAIN abbreviations')
              = Cardinality(DOMAIN abbreviations) + 1
    BY <2>1, FS_AddElement DEF OrdinalInv
  <2>3. Ordinal(nextAbbreviation') = Ordinal(nextAbbreviation) + 1
    BY <2>1, IncrementIsSuccessor DEF TypeOK
  <2>4. QED
    BY <2>2, <2>3 DEF OrdinalInv
<1>2. ASSUME NEW cid \in Cids, KnownUuid(cid) PROVE OrdinalInv'
  BY <1>2 DEF KnownUuid, vars, OrdinalInv
<1>3. CASE UNCHANGED vars
  BY <1>3 DEF vars, OrdinalInv
<1>4. QED
  BY <1>1, <1>2, <1>3 DEF Next, AbbreviationForUuid

\* A marker that is handed out is the name of its ordinal.
LEMMA NewUuidAsks ==
    ASSUME OrdinalInv, NEW cid \in Cids, NewUuid(cid)
    PROVE  Abstract!Ask(cid)
<1> DEFINE known == [c \in DOMAIN abbreviations |-> Ordinal(abbreviations[c])]
           after == [c \in DOMAIN abbreviations' |-> Ordinal(abbreviations'[c])]
<1>1. /\ DOMAIN abbreviations' = DOMAIN abbreviations \cup {cid}
      /\ cid \notin DOMAIN abbreviations
      /\ abbreviations'[cid] = nextAbbreviation
      /\ \A c \in DOMAIN abbreviations : abbreviations'[c] = abbreviations[c]
  BY DEF NewUuid
<1>2. DOMAIN known = DOMAIN abbreviations
  OBVIOUS
<1>3. Abstract!NextName(known) = Ordinal(nextAbbreviation)
  <2> HIDE DEF known
  <2>1. Abstract!NextName(known) = Cardinality(DOMAIN known) + 1
    BY DEF Abstract!NextName, Abstract!Cardinality, Cardinality
  <2>2. QED
    BY <1>2, <2>1 DEF OrdinalInv
<1>4. \A c \in DOMAIN abbreviations \cup {cid} :
         Abstract!NameFor(known, c) = Ordinal(abbreviations'[c])
  BY <1>1, <1>3 DEF Abstract!NameFor
<1>5. Abstract!WithName(known, cid) = after
  BY <1>1, <1>2, <1>4 DEF Abstract!WithName
<1>6. QED
  BY <1>5 DEF Abstract!Ask

\* Whatever the alphabet and however many sources: the nth source to be named
\* gets the nth of A, B, ..., Z, AA, AB, ... and keeps it, which is all that
\* UniverseNotifyHandler takes from the map.
THEOREM ImplementsOrdinalNames == Spec => NamesInOrder
<1>1. Init => Abstract!Init
  BY DEF Init, Abstract!Init
<1>2. OrdinalInv /\ [Next]_vars
         => [Abstract!Next]_([c \in DOMAIN abbreviations |->
                                 Ordinal(abbreviations[c])])
  <2> SUFFICES ASSUME OrdinalInv, [Next]_vars
               PROVE  [Abstract!Next]_([c \in DOMAIN abbreviations |->
                                           Ordinal(abbreviations[c])])
    OBVIOUS
  <2>1. ASSUME NEW cid \in Cids, NewUuid(cid) PROVE Abstract!Next
    BY <2>1, NewUuidAsks DEF Abstract!Next
  <2>2. CASE UNCHANGED vars
    BY <2>2 DEF vars
  <2>3. QED
    BY <2>1, <2>2 DEF Next, AbbreviationForUuid, KnownUuid
<1>3. Spec => [](TypeOK /\ OrdinalInv)
  <2>1. TypeOK /\ OrdinalInv /\ [Next]_vars => OrdinalInv'
    BY OrdinalInvNext
  <2>2. QED
    BY <2>1, OrdinalInvInit, TypeCorrect, PTL DEF Spec
<1>4. QED
  BY <1>1, <1>2, <1>3, PTL DEF Spec, NamesInOrder, Abstract!Spec
=============================================================================
