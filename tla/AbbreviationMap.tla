-------------------------- MODULE AbbreviationMap --------------------------
(***************************************************************************)
(* AbbreviationMap.{h,cpp}: the marker (A, B, ..., Z, AA, AB, ...) that    *)
(* stands for a source's CID in every row of both logs.  A letter is its   *)
(* distance from 'A'; the program has 26 of them.                          *)
(***************************************************************************)
EXTENDS Integers, Sequences, FiniteSets

CONSTANTS
    Cids,               \* the UUIDs that sources may carry
    Letters             \* how many letters the alphabet has

ASSUME LettersAssumption == Letters \in Nat \ {0}

VARIABLES
    abbreviations,      \* abbreviations_: the marker of each CID seen so far
    nextAbbreviation    \* nextAbbreviation_: the marker of the next new CID

vars == <<abbreviations, nextAbbreviation>>

A == 0
Z == Letters - 1
Letter == A .. Z
Abbreviation == Seq(Letter) \ {<<>>}

-----------------------------------------------------------------------------

\* The loop from the right reaches position i: all letters after it were Z.
Carried(s, i) == \A j \in (i + 1) .. Len(s) : s[j] = Z

\* Faulty increments, against which the properties are tested: one never
\* wraps, one forgets the carry, one carries from the left.
IncrementPastZ(s) == [s EXCEPT ![Len(s)] = @ + 1]
IncrementNoCarry(s) == [s EXCEPT ![Len(s)] = IF @ = Z THEN A ELSE @ + 1]
IncrementFromLeft(s) ==
    IF Carried(s, 0)
    THEN [i \in 1 .. Len(s) + 1 |-> A]
    ELSE [i \in 1 .. Len(s) |->
             IF \A j \in 1 .. i - 1 : s[j] = Z
             THEN IF s[i] = Z THEN A ELSE s[i] + 1
             ELSE s[i]]

\* The next marker: bump the last letter that is not Z, wrap those after it;
\* when all of them wrapped, insert one more 'A' in front.
Increment(s) ==
    IF Carried(s, 0)
    THEN [i \in 1 .. Len(s) + 1 |-> A]
    ELSE [i \in 1 .. Len(s) |->
             IF Carried(s, i)
             THEN IF s[i] = Z THEN A ELSE s[i] + 1
             ELSE s[i]]

Init ==
    /\ abbreviations = [c \in {} |-> <<>>]
    /\ nextAbbreviation = <<A>>

\* abbreviationForUuid(cid) for a CID the map knows: the marker it has.
KnownUuid(cid) ==
    /\ cid \in DOMAIN abbreviations
    /\ UNCHANGED vars

\* abbreviationForUuid(cid) for a new CID.
NewUuid(cid) ==
    /\ cid \notin DOMAIN abbreviations
    /\ abbreviations' = [c \in DOMAIN abbreviations \cup {cid} |->
                            IF c = cid THEN nextAbbreviation
                                       ELSE abbreviations[c]]
    /\ nextAbbreviation' = Increment(nextAbbreviation)

AbbreviationForUuid(cid) == KnownUuid(cid) \/ NewUuid(cid)

Next == \E cid \in Cids : AbbreviationForUuid(cid)

Spec == Init /\ [][Next]_vars

-----------------------------------------------------------------------------

\* The shape of the state: no CID ever holds the empty string that
\* operator[] inserts first, and every character is a letter of the alphabet.
TypeOK ==
    /\ DOMAIN abbreviations \subseteq Cids
    /\ \A c \in DOMAIN abbreviations : abbreviations[c] \in Abbreviation
    /\ nextAbbreviation \in Abbreviation

\* Two sources never share a marker, and the marker waiting to be handed out
\* is not in use: a row of either log names exactly one source, however many
\* times the increment has wrapped and the string has grown.
DistinctAbbreviations ==
    /\ \A c, d \in DOMAIN abbreviations :
          c # d => abbreviations[c] # abbreviations[d]
    /\ \A c \in DOMAIN abbreviations : abbreviations[c] # nextAbbreviation

\* The place of a marker in A, B, ..., Z, AA, AB, ...: bijective base Letters.
Ordinal(s) ==
    LET value[n \in 0 .. Len(s)] ==
            IF n = 0 THEN 0 ELSE value[n - 1] * Letters + s[n] + 1
    IN  value[Len(s)]

Abstract == INSTANCE OrdinalNames
    WITH names <- [c \in DOMAIN abbreviations |-> Ordinal(abbreviations[c])]

\* The order of the class comment (A, then B, ..., Z, AA, AB): the nth source
\* to be named gets the nth marker of that list and keeps it for ever, so the
\* map implements OrdinalNames.
NamesInOrder == Abstract!Spec
=============================================================================
