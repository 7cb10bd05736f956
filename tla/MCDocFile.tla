----------------------------- MODULE MCDocFile -----------------------------
(* DocFile for TLC: as many texts as can be told apart, and ids enough for   *)
(* two documents with a monitor each, one made before the one before it is   *)
(* gone, and those of files that could not be looked at, which stay in the   *)
(* table.                                                                    *)
EXTENDS DocFile

FourTexts == 1..4
SixIds == 1..6

=============================================================================
