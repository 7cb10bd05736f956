----------------------------- MODULE MCAppInput -----------------------------
(* AppInput for TLC.                                                         *)
EXTENDS AppInput
=============================================================================
