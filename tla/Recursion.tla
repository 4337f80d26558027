----------------------------- MODULE Recursion -----------------------------
(***************************************************************************)
(* Induction over an interval and functions defined by recursion over one, *)
(* stated for sets and functions rather than for operators, so that a      *)
(* proof can cite them.  Both rest on the least element of a set of        *)
(* numbers.                                                                *)
(***************************************************************************)
EXTENDS Integers, WellFoundedInduction, TLAPS

\* A set of numbers has a least one.
LEMMA LeastNumber ==
    ASSUME NEW T \in SUBSET Nat, T # {}
    PROVE  \E least \in T : \A n \in T : least <= n
<1> DEFINE R == OpToRel(<, Nat)
<1>1. \A m, n \in Nat : m < n => <<m, n>> \in R
  <2>1. SUFFICES ASSUME NEW m \in Nat, NEW n \in Nat, m < n
                 PROVE  <<m, n>> \in R
    OBVIOUS
  <2>2. <<m, n>> \in Nat \X Nat /\ <<m, n>>[1] = m /\ <<m, n>>[2] = n
    OBVIOUS
  <2>3. QED
    BY <2>1, <2>2 DEF OpToRel
<1>2. IsWellFoundedOn(R, Nat)
  BY NatLessThanWellFounded
<1> HIDE DEF R
<1>3. PICK least \in T : \A n \in T : ~(<<n, least>> \in R)
  BY <1>2, WFMin
<1>4. ASSUME NEW n \in T PROVE least <= n
  <2>1. least \in Nat /\ n \in Nat
    OBVIOUS
  <2>2. ~(n < least)
    BY <1>1, <1>3, <2>1
  <2>3. QED
    BY <2>1, <2>2
<1>5. QED
  BY <1>4

\* What holds at 0, and goes on from each number below N to the next, holds up
\* to N.
LEMMA IntervalInduction ==
    ASSUME NEW N \in Nat, NEW T, 0 \in T,
           \A n \in 0 .. N - 1 : n \in T => n + 1 \in T
    PROVE  0 .. N \subseteq T
<1> DEFINE Missing == {n \in 0 .. N : n \notin T}
<1>1. SUFFICES ASSUME Missing # {} PROVE FALSE
  OBVIOUS
<1>2. Missing \in SUBSET Nat
  OBVIOUS
<1>3. PICK least \in Missing : \A n \in Missing : least <= n
  <2> HIDE DEF Missing
  <2>1. QED
    BY <1>1, <1>2, LeastNumber
<1>4. least \in 1 .. N /\ least \notin T
  BY <1>3
<1>5. least - 1 \in 0 .. N - 1 /\ least - 1 \notin Missing
  BY <1>3, <1>4
<1>6. least - 1 \in T
  BY <1>5
<1>7. QED
  BY <1>4, <1>5, <1>6

\* step takes the value at n - 1, and n, to the value at n.
IsStep(step, N, S) == step \in [S \X (1 .. N) -> S]

Follows(f, N, S, base, step) ==
    /\ f \in [0 .. N -> S]
    /\ f[0] = base
    /\ \A n \in 1 .. N : f[n] = step[<<f[n - 1], n>>]

\* A value for 0 and a step from each value to the next define a function.
LEMMA IntervalRecursion ==
    ASSUME NEW N \in Nat, NEW S, NEW base \in S, NEW step, IsStep(step, N, S)
    PROVE  \E f : Follows(f, N, S, base, step)
<1> DEFINE Defines(f, m) ==
               f[0] = base /\ \A n \in 1 .. m : f[n] = step[<<f[n - 1], n>>]
           T == {m \in 0 .. N : \E f \in [0 .. m -> S] : Defines(f, m)}
<1>1. 0 \in T
  <2> DEFINE g == [n \in 0 .. 0 |-> base]
  <2>1. g \in [0 .. 0 -> S]
    OBVIOUS
  <2>2. Defines(g, 0)
    OBVIOUS
  <2> HIDE DEF g, Defines
  <2>3. QED
    BY <2>1, <2>2
<1>2. ASSUME NEW m \in 0 .. N - 1, m \in T PROVE m + 1 \in T
  <2>1. PICK f \in [0 .. m -> S] : Defines(f, m)
    BY <1>2
  <2> DEFINE g == [n \in 0 .. m + 1 |-> IF n <= m THEN f[n]
                                        ELSE step[<<f[m], m + 1>>]]
  <2>2. step[<<f[m], m + 1>>] \in S
    <3>1. f[m] \in S /\ m + 1 \in 1 .. N
      OBVIOUS
    <3>2. <<f[m], m + 1>> \in S \X (1 .. N)
      BY <3>1
    <3>3. QED
      BY <3>2 DEF IsStep
  <2>3. g \in [0 .. m + 1 -> S]
    BY <2>2
  <2>4. /\ \A n \in 0 .. m : g[n] = f[n]
        /\ g[m + 1] = step[<<f[m], m + 1>>]
    OBVIOUS
  <2>5. Defines(g, m + 1)
    <3> HIDE DEF g
    <3>1. g[0] = base
      BY <2>1, <2>4
    <3>2. ASSUME NEW n \in 1 .. m PROVE g[n] = step[<<g[n - 1], n>>]
      BY <2>1, <2>4
    <3>3. g[m + 1] = step[<<g[m + 1 - 1], m + 1>>]
      BY <2>4
    <3>4. QED
      BY <3>1, <3>2, <3>3
  <2> HIDE DEF g, Defines
  <2>6. m + 1 \in 0 .. N
    OBVIOUS
  <2>7. QED
    BY <2>3, <2>5, <2>6
<1>3. 0 .. N \subseteq T
  <2> HIDE DEF T
  <2>1. QED
    BY <1>1, <1>2, IntervalInduction
<1>4. N \in T
  BY <1>3
<1>5. QED
  BY <1>4 DEF Follows
=============================================================================
