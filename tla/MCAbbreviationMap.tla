------------------------- MODULE MCAbbreviationMap -------------------------
(***************************************************************************)
(* AbbreviationMap with a short alphabet, so that a few CIDs make the      *)
(* string carry and grow twice.                                            *)
(***************************************************************************)
EXTENDS AbbreviationMap

CONSTANTS c1, c2, c3, c4, c5, c6, c7

MCCids == {c1, c2, c3, c4, c5, c6, c7}
MCLetters == 2
=============================================================================
