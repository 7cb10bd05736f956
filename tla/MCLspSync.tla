----------------------------- MODULE MCLspSync -----------------------------
(* LspSync for TLC: a server program that wants the same at every restart.   *)
EXTENDS LspSync, TLC

Steady == {{"full"}, {"none"}}

Symmetry == Permutations(Doc)

=============================================================================
