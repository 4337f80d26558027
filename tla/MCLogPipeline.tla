--------------------------- MODULE MCLogPipeline ---------------------------
(***************************************************************************)
(* LogPipeline with one universe.                                          *)
(***************************************************************************)
EXTENDS LogPipeline

MCUniverses == {"U00001"}
MCMaxRows == [l \in Logs |-> IF l[2] = "data" THEN 3 ELSE 2]
=============================================================================
