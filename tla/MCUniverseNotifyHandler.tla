---------------------- MODULE MCUniverseNotifyHandler ----------------------
(***************************************************************************)
(* UniverseNotifyHandler with two sources that may change address or name. *)
(***************************************************************************)
EXTENDS UniverseNotifyHandler, TLC

CONSTANTS a, b, nobody, unlit

MCCids == {a, b}
MCInfos == {[ip |-> "ip1", port |-> 1, name |-> "n1"],
            [ip |-> "ip2", port |-> 1, name |-> "n1"],
            [ip |-> "ip1", port |-> 1, name |-> "n2"]}
MCSlots == {1}
MCLevels == {"half", "full"}
MCNoOwner == nobody
MCNoLevel == unlit
MCMaxSourceRows == 4
MCMaxDataRows == 3

\* Nothing tells the two CIDs apart but when their sources appear.
MCSymmetry == Permutations(Cids)
=============================================================================
