--------------------------- MODULE OrdinalNames ---------------------------
(***************************************************************************)
(* What the marker column of the log promises, without letters: a source  *)
(* keeps the name it was first given, and the nth source to be named gets  *)
(* the nth name.  AbbreviationMap implements this with the strings A, B,   *)
(* ..., Z, AA, AB, ...; UniverseNotifyHandler only needs the promise.      *)
(***************************************************************************)
EXTENDS Integers, FiniteSets

CONSTANT Cids           \* the UUIDs that sources may carry

VARIABLE names          \* the ordinal of each CID named so far

\* A faulty first name: the ordinal that stands for "no owner".
NextNameFromZero(known) == Cardinality(DOMAIN known)

\* AbbreviationMap::nextAbbreviation_ as an ordinal.
NextName(known) == Cardinality(DOMAIN known) + 1

\* The name a call for cid returns.
NameFor(known, cid) ==
    IF cid \in DOMAIN known THEN known[cid] ELSE NextName(known)

\* A faulty call that returns a name and does not keep it.
WithNameForgotten(known, cid) == known

\* The map after a call for cid: operator[] inserts what it does not find.
WithName(known, cid) ==
    [c \in DOMAIN known \cup {cid} |-> NameFor(known, c)]

Init == names = [c \in {} |-> 0]

Ask(cid) == names' = WithName(names, cid)

Next == \E cid \in Cids : Ask(cid)

Spec == Init /\ [][Next]_names
===========================================================================
