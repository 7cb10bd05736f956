---------------------------- MODULE MCLspSymbols ----------------------------
(* LspSymbols for TLC: two documents of one server, and one of another.      *)
EXTENDS LspSymbols

CONSTANTS d1, d2, d3, s1, s2

TwoServers == [d \in Doc |-> IF d = d3 THEN s2 ELSE s1]

=============================================================================
