----------------------------- MODULE DurableLog -----------------------------
(***************************************************************************)
(* What logs promise: rows that were handed in reach the disk in order     *)
(* and stay as they were written.  A crash takes what had not got there    *)
(* yet, and only that, though it may cut a row in two.  Each log is on its *)
(* own: nothing is said of the order of rows of different logs.            *)
(***************************************************************************)
EXTENDS Naturals, Sequences

CONSTANTS
    Logs,
    Rows            \* what may be handed in, each a sequence of pieces

VARIABLES
    stored,         \* pieces that have reached the disk, in order, by log
    pending         \* pieces on their way

Init == stored = [l \in Logs |-> <<>>] /\ pending = [l \in Logs |-> <<>>]

\* Nothing or one row comes in, and the first pieces on their way arrive.
Advance(l) ==
    \E new \in Rows \cup {<<>>} :
        LET all == pending[l] \o new IN
        \E k \in 0 .. Len(all) :
            /\ stored'[l] = stored[l] \o SubSeq(all, 1, k)
            /\ pending'[l] = SubSeq(all, k + 1, Len(all))

Lose(l) == pending'[l] = <<>> /\ stored'[l] = stored[l]

Next == \A l \in Logs : Advance(l) \/ Lose(l)

Spec == Init /\ [][Next]_<<stored, pending>>
=============================================================================
