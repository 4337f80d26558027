------------------------ MODULE MCDiskSpaceMonitor ------------------------
(***************************************************************************)
(* DiskSpaceMonitor on a file system of four levels, so that each band can *)
(* be empty, one unit or all of it as the thresholds move.                 *)
(***************************************************************************)
EXTENDS DiskSpaceMonitor

MCMaxSpace == 3
MCDefaultLow == 1
MCDefaultCritical == 0
===========================================================================
