---------------------------- MODULE MCLspClient ----------------------------
(* LspClient for TLC: a few interchangeable calls.                         *)
EXTENDS LspClient, TLC

Symmetry == Permutations(Call)

=============================================================================
