---------------------------- MODULE MCUndoStack ----------------------------
(* UndoStack for TLC: what is typed, pasted and loaded.                      *)
EXTENDS UndoStack

TypedOrPasted == {<<"a">>, <<Blank>>, <<"a", LineEnd>>}
EmptyOrNot == {<<>>, <<Blank>>}

=============================================================================
