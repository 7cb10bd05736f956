---------------------------- MODULE UndoHistory ----------------------------
(***************************************************************************)
(* What undo promises the user: a line of texts with the present one in    *)
(* the middle.  Undo and redo walk along it, a change cuts off what could  *)
(* be redone, and what one user action does is never taken apart.          *)
(***************************************************************************)
EXTENDS Sequences

CONSTANTS
    Text        \* the texts a document may have

VARIABLES
    text,
    past,           \* the texts undo goes back to, the latest first
    future,         \* the texts redo goes on to, the next first
    inside          \* a user action has changed the text and is not over

vars == <<text, past, future, inside>>

Init ==
    /\ text = <<>>
    /\ past = <<>> /\ future = <<>>
    /\ inside = FALSE

\* Changes in a row may be undone as one; those of one user action have to be.
Change ==
    /\ text' \in Text
    /\ \/ past' = past /\ past # <<>>
       \/ past' = <<text>> \o past /\ ~ inside
    /\ future' = <<>>
    /\ inside' \in BOOLEAN

EndUserAction == inside' = FALSE /\ UNCHANGED <<text, past, future>>

Undo ==
    /\ past # <<>> /\ ~ inside
    /\ text' = Head(past)
    /\ past' = Tail(past)
    /\ future' = <<text>> \o future
    /\ UNCHANGED inside

Redo ==
    /\ future # <<>> /\ ~ inside
    /\ text' = Head(future)
    /\ future' = Tail(future)
    /\ past' = <<text>> \o past
    /\ UNCHANGED inside

\* An empty document is given another text, and nothing leads back.
Load ==
    /\ text = <<>> /\ ~ inside
    /\ text' \in Text
    /\ past' = <<>> /\ future' = <<>>
    /\ UNCHANGED inside

Next == Change \/ EndUserAction \/ Undo \/ Redo \/ Load

Spec == Init /\ [][Next]_vars

=============================================================================
