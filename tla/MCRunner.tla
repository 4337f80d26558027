------------------------------ MODULE MCRunner ------------------------------
(***************************************************************************)
(* Runner with two universes and a file system whose three units are the   *)
(* three bands.                                                            *)
(***************************************************************************)
EXTENDS Runner

CONSTANT none

MCUniverses == {1, 2}
MCConfigs == {<<1>>, <<2, 1>>}
MCNoUniverse == none
MCMaxSpace == 2
MCDefaultLow == 1
MCDefaultCritical == 0
=============================================================================
