--------------------------- MODULE SourceLedger ---------------------------
(***************************************************************************)
(* What the source log promises about one source: its rows follow its      *)
(* life.  A source is announced ("started") before it is said to change    *)
(* ("moved"), and after "stopped" it has to start again.  A source that    *)
(* was lost before it was ever announced still gets a "stopped" row, so    *)
(* that state may be first, and may repeat.                                *)
(***************************************************************************)
CONSTANT Cids

VARIABLE reported       \* the state in the last row of each CID

Legal ==
    [never   |-> {"started", "stopped"},
     started |-> {"moved", "stopped"},
     moved   |-> {"moved", "stopped"},
     stopped |-> {"started", "stopped"}]

Init == reported = [c \in Cids |-> "never"]

Report(c) == \E state \in Legal[reported[c]] :
    reported' = [reported EXCEPT ![c] = state]

Next == \E c \in Cids : Report(c)

Spec == Init /\ [][Next]_reported
===========================================================================
