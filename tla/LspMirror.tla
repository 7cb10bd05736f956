----------------------------- MODULE LspMirror -----------------------------
(***************************************************************************)
(* What the document synchronization of the LSP plugin promises, whatever  *)
(* the handshake, the queue, the timers and the restarts do: the picture a *)
(* language server has of a document is a text the document really had,    *)
(* and it never goes back to an older one without being forgotten first.   *)
(***************************************************************************)
EXTENDS Naturals

CONSTANT Doc

VARIABLES
    text,   \* how often each document was edited
    known   \* the text the server has, as <<text>>, or <<>>

vars == <<text, known>>

Init ==
    /\ text = [d \in Doc |-> 0]
    /\ known = [d \in Doc |-> <<>>]

\* The user edits a document; the server hears of it later.
Edit(d) ==
    /\ text' = [text EXCEPT ![d] = @ + 1]
    /\ UNCHANGED known

Forgets(d) == known'[d] = <<>>

Learns(d) ==
    \E n \in 0 .. text[d] :
        /\ known'[d] = <<n>>
        /\ known[d] # <<>> => known[d][1] <= n

\* The server learns of some documents and forgets others.
Talk ==
    /\ known' = [d \in Doc |-> known'[d]]
    /\ \A d \in Doc : Forgets(d) \/ Learns(d)
    /\ UNCHANGED text

Next == Talk \/ \E d \in Doc : Edit(d)

Spec == Init /\ [][Next]_vars

=============================================================================
