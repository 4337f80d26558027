------------------------------ MODULE MCCsvRow ------------------------------
(***************************************************************************)
(* CsvRow with one ordinary character, a digit, and one number: a text may *)
(* look like a number.                                                     *)
(***************************************************************************)
EXTENDS CsvRow

MCPlain == {"1"}
MCNumerals == {<<"1">>}
=============================================================================
