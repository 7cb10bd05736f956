----------------------------- MODULE MCCmdView -----------------------------
(* CmdView for TLC.                                                          *)
EXTENDS CmdView
=============================================================================
