----------------------------- MODULE LspSymbols -----------------------------
(***************************************************************************)
(* The symbols pane of one window (lsp-plugin.cpp): a tree of the active   *)
(* document's symbols, asked for half a second after the document or the   *)
(* text changed, and at once when the pane is opened.  The answers come    *)
(* from the servers of the documents, whose request tables are shared with *)
(* every other feature of the plugin and with the other windows.           *)
(*                                                                         *)
(* LspSync models what happens inside a server; of it only "ready" is kept *)
(* here.  A server without a documentSymbolProvider is one that is never   *)
(* ready.  A text is the number of the user's steps that led to it.        *)
(***************************************************************************)
EXTENDS Naturals

CONSTANTS
    Doc,
    Server,
    None,
    ServerOf,       \* None for a document no server is configured for
    MaxActs,        \* bound: steps of the user, and calls of other features
    MaxFailures     \* bound: servers lost and requests refused

ASSUME SymbolsAssumption ==
    /\ None \notin Doc
    /\ None \notin Server
    /\ ServerOf \in [Doc -> Server \cup {None}]
    /\ MaxActs \in Nat
    /\ MaxFailures \in Nat

VARIABLES
    acts,
    failures,
    open,           \* the documents of the window
    active,         \* moo_edit_window_get_active_doc()
    text,
    known,          \* the text the server of a document has
    ready,          \* lsp_server_is_ready()
    next_id,        \* LspClient.next_id, of a server's present client
    calls,          \* LspClient.pending, of all servers
    window,         \* the window is in lsp_windows
    mapped,         \* the pane is open
    symbols_timeout,
    symbols_request,
    symbols_doc,
    tree,           \* symbol_store: whose symbols, at which text
    strayed         \* history: a request of the pane was let go at a server
                    \* that was not asked it, and its answer can still come

editor == <<open, active, text>>
servers == <<ready, next_id, failures>>
vars == <<acts, failures, open, active, text, known, ready, next_id, calls,
          window, mapped, symbols_timeout, symbols_request, symbols_doc, tree,
          strayed>>

Shown == [doc : Doc \cup {None}, text : Nat]
Empty == [doc |-> None, text |-> 0]

Call == [server : Server, id : Nat, by : {"symbols", "other"},
         doc : Doc \cup {None}, text : Nat]

Asked == {c \in calls : c.by = "symbols"}

-----------------------------------------------------------------------------

ServerOfActive == ServerOf[active]

CanAsk == ServerOfActive # None /\ ready[ServerOfActive]

\* A mutant: the previous request is left alone.
NotCancelled(server, id) == calls

\* lsp_server_cancel(): the callback is dropped.  Id 0, and no server, cancel
\* nothing.
Cancelled(server, id) == {c \in calls : ~ (c.server = server /\ c.id = id)}

\* A mutant: the debounced didChange is not hurried.
NotFlushed(d) == known

\* lsp_doc_flush()
Flushed(d) == [known EXCEPT ![d] = text[d]]

\* A mutant: the callback of a call that failed is dropped with its client.
Forgotten(failed) == symbols_request

\* symbols_reply() with an error, if one of the failed calls is the pane's.
Failed(failed) ==
    IF window /\ \E c \in failed : c.by = "symbols" THEN 0 ELSE symbols_request

\* A mutant: a change does not queue an update.
NeverQueued == symbols_timeout

\* queue_symbols_update()
Queued == symbols_timeout \/ (window /\ mapped)

\* symbols_doc is a weak pointer.
Weakened(d) == IF symbols_doc = d THEN None ELSE symbols_doc

-----------------------------------------------------------------------------

Ask ==
    /\ CanAsk
    /\ LET server == ServerOfActive IN
       /\ known' = Flushed(active)
       /\ calls' = Cancelled(server, symbols_request)
                     \cup {[server |-> server, id |-> next_id[server],
                            by |-> "symbols", doc |-> active,
                            text |-> known'[active]]}
       /\ symbols_request' = next_id[server]
       /\ next_id' = [next_id EXCEPT ![server] = @ + 1]
    /\ symbols_doc' = active
    /\ UNCHANGED tree

Clear ==
    /\ ~ CanAsk
    /\ calls' = Cancelled(ServerOfActive, symbols_request)
    /\ symbols_request' = 0
    /\ symbols_doc' = None
    /\ tree' = Empty
    /\ UNCHANGED <<known, next_id>>

\* An id is cancelled at the server of the document shown now: that of another
\* document is left standing there, and that of a document without one too.
Straying ==
    \E c \in Asked : c.id = symbols_request /\ c.server # ServerOfActive

request_symbols ==
    /\ Ask \/ Clear
    /\ strayed' = (strayed \/ Straying)
    /\ UNCHANGED <<editor, ready, failures, window>>

symbols_timer ==
    /\ symbols_timeout
    /\ symbols_timeout' = FALSE
    /\ request_symbols
    /\ UNCHANGED <<acts, mapped>>

\* A mutant: any answer is put into the tree.
AlwaysFills == TRUE

\* The active document is the one the last request was about.
Fills == symbols_doc # None /\ active = symbols_doc

\* The server answers the calls in any order.
symbols_reply(c) ==
    /\ c \in Asked
    /\ calls' = calls \ {c}
    /\ IF window
       THEN /\ symbols_request' = 0
            /\ tree' = IF Fills THEN [doc |-> c.doc, text |-> c.text] ELSE tree
       ELSE UNCHANGED <<symbols_request, tree>>
    /\ UNCHANGED <<acts, editor, known, servers, window, mapped,
                   symbols_timeout, symbols_doc, strayed>>

\* The answer is an error, which a server may give for a text it has not
\* finished with.
symbols_refused(c) ==
    /\ failures < MaxFailures
    /\ failures' = failures + 1
    /\ c \in Asked
    /\ calls' = calls \ {c}
    /\ symbols_request' = Failed({c})
    /\ UNCHANGED <<acts, editor, known, ready, next_id, window, mapped,
                   symbols_timeout, symbols_doc, tree, strayed>>

-----------------------------------------------------------------------------
(* The user, and what the window does at once *)

UserActs == acts < MaxActs /\ acts' = acts + 1

map_pane ==
    /\ UserActs
    /\ window /\ ~ mapped
    /\ mapped' = TRUE
    /\ request_symbols
    /\ UNCHANGED symbols_timeout

\* Nothing is connected to "unmap".
unmap_pane ==
    /\ UserActs
    /\ mapped
    /\ mapped' = FALSE
    /\ UNCHANGED <<editor, known, servers, calls, window, symbols_timeout,
                   symbols_request, symbols_doc, tree, strayed>>

\* symbols_buffer is the buffer of the active document.
symbols_buffer_changed(d) ==
    /\ UserActs
    /\ d \in open
    /\ text' = [text EXCEPT ![d] = @ + 1]
    /\ symbols_timeout' = IF d = active THEN Queued ELSE symbols_timeout
    /\ UNCHANGED <<open, active, known, servers, calls, window, mapped,
                   symbols_request, symbols_doc, tree, strayed>>

active_doc_changed(d) ==
    /\ UserActs
    /\ d \in open \ {active}
    /\ active' = d
    /\ symbols_timeout' = Queued
    /\ UNCHANGED <<open, text, known, servers, calls, window, mapped,
                   symbols_request, symbols_doc, tree, strayed>>

\* A window is never without a document: closing the last one puts an untitled
\* one into it, which is one of Doc that ServerOf gives no server.
close_doc(d) ==
    /\ UserActs
    /\ d \in open
    /\ open # {d}
    /\ open' = open \ {d}
    /\ IF d = active
       THEN /\ active' \in open'
            /\ symbols_timeout' = Queued
       ELSE UNCHANGED <<active, symbols_timeout>>
    /\ symbols_doc' = Weakened(d)
    /\ UNCHANGED <<text, known, servers, calls, window, mapped,
                   symbols_request, tree, strayed>>

lsp_window_plugin_destroy ==
    /\ UserActs
    /\ window
    /\ window' = FALSE
    /\ mapped' = FALSE
    /\ symbols_timeout' = FALSE
    /\ symbols_doc' = None
    /\ UNCHANGED <<editor, known, servers, calls, symbols_request, tree, strayed>>

-----------------------------------------------------------------------------
(* The servers *)

\* Any other feature, or another window, has a question of its own.
other_call(s) ==
    /\ UserActs
    /\ ready[s]
    /\ calls' = calls \cup {[server |-> s, id |-> next_id[s], by |-> "other",
                             doc |-> None, text |-> 0]}
    /\ next_id' = [next_id EXCEPT ![s] = @ + 1]
    /\ UNCHANGED <<editor, known, ready, failures, window, mapped,
                   symbols_timeout, symbols_request, symbols_doc, tree, strayed>>

other_reply(c) ==
    /\ c \in calls \ Asked
    /\ calls' = calls \ {c}
    /\ UNCHANGED <<acts, editor, known, servers, window, mapped,
                   symbols_timeout, symbols_request, symbols_doc, tree, strayed>>

\* lsp_doc's own timer
send_change(d) ==
    /\ ServerOf[d] # None /\ ready[ServerOf[d]]
    /\ known[d] # text[d]
    /\ known' = Flushed(d)
    /\ UNCHANGED <<acts, editor, servers, calls, window, mapped,
                   symbols_timeout, symbols_request, symbols_doc, tree, strayed>>

\* The process exited, or the user restarted the servers: every call fails.
lose_server(s) ==
    /\ failures < MaxFailures
    /\ failures' = failures + 1
    /\ ready[s]
    /\ ready' = [ready EXCEPT ![s] = FALSE]
    /\ LET failed == {c \in calls : c.server = s} IN
       /\ calls' = calls \ failed
       /\ symbols_request' = Failed(failed)
    /\ UNCHANGED <<acts, editor, known, next_id, window, mapped,
                   symbols_timeout, symbols_doc, tree, strayed>>

\* The handshake of a new client, whose first id was the initialize call's; the
\* documents are opened with their present text.  The pane is not told.
server_ready(s) ==
    /\ ~ ready[s]
    /\ ready' = [ready EXCEPT ![s] = TRUE]
    /\ next_id' = [next_id EXCEPT ![s] = 2]
    /\ known' = [d \in Doc |-> IF ServerOf[d] = s THEN text[d] ELSE known[d]]
    /\ UNCHANGED <<acts, editor, failures, calls, window, mapped,
                   symbols_timeout, symbols_request, symbols_doc, tree, strayed>>

-----------------------------------------------------------------------------

Init ==
    /\ acts = 0 /\ failures = 0
    /\ open = Doc /\ active \in Doc
    /\ text = [d \in Doc |-> 0] /\ known = [d \in Doc |-> 0]
    /\ ready \in [Server -> BOOLEAN]
    /\ next_id = [s \in Server |-> 2]
    /\ calls = {}
    /\ window = TRUE /\ mapped = FALSE
    /\ symbols_timeout = FALSE /\ symbols_request = 0
    /\ symbols_doc = None /\ tree = Empty
    /\ strayed = FALSE

Answer == \E c \in calls : symbols_reply(c) \/ other_reply(c)

Next ==
    \/ symbols_timer
    \/ map_pane
    \/ unmap_pane
    \/ lsp_window_plugin_destroy
    \/ Answer
    \/ \E c \in calls : symbols_refused(c)
    \/ \E d \in Doc : \/ symbols_buffer_changed(d)
                      \/ active_doc_changed(d)
                      \/ close_doc(d)
                      \/ send_change(d)
    \/ \E s \in Server : other_call(s) \/ lose_server(s) \/ server_ready(s)

Spec == Init /\ [][Next]_vars

\* The main loop runs a timer that is due, and a server answers in the end.
FairSpec == Spec /\ WF_vars(symbols_timer) /\ WF_vars(Answer)

-----------------------------------------------------------------------------
(* Properties *)

TypeOK ==
    /\ acts \in 0 .. MaxActs /\ failures \in 0 .. MaxFailures
    /\ open \subseteq Doc /\ active \in open
    /\ text \in [Doc -> Nat] /\ known \in [Doc -> Nat]
    /\ ready \in [Server -> BOOLEAN] /\ next_id \in [Server -> Nat]
    /\ calls \subseteq Call
    /\ window \in BOOLEAN /\ mapped \in BOOLEAN
    /\ symbols_timeout \in BOOLEAN /\ symbols_request \in Nat
    /\ symbols_doc \in open \cup {None}
    /\ tree \in Shown
    /\ strayed \in BOOLEAN

\* symbols_request names the pane's only outstanding call, and symbols_doc what
\* it is about, until a request is cancelled at a server that was not asked it.
\* The answers can then not be mistaken for each other, in whatever order and
\* however late they come, whether the call was answered, cancelled or lost with
\* its client (lsp-plugin.cpp:843, 886-890).  With two servers strayed is what
\* really happens: then nothing here is promised, and FillsOnlyTheActive fails.
OneRequest ==
    (window /\ ~ strayed) =>
        /\ \A c, e \in Asked : c = e
        /\ \A c \in Asked : c.id = symbols_request /\ symbols_doc \in {c.doc, None}
        /\ symbols_request # 0 => Asked # {}

\* Nothing is under way that would fill the pane.
Quiet ==
    window /\ mapped /\ ~ symbols_timeout /\ Asked = {}

Current == tree = [doc |-> active, text |-> text[active]]

\* Until a request failed, or was cancelled at a server that was not asked it:
\* once the pane has stopped asking, its rows lead to where the symbols are in
\* the text on the screen, or there are none (lsp-plugin.cpp:901-903, 911-913).
QuietTreeIsCurrent ==
    (Quiet /\ failures = 0 /\ ~ strayed) => Current \/ tree = Empty

\* "A document symbol request is real work" and so are the requests of the other
\* features, whose answers someone waits for: asking for symbols takes none of
\* them away, although all ids come from one table, as long as what it cancels
\* was asked of the server it is cancelled at, now and before
\* (lsp-plugin.cpp:886-890).
OthersAreAnswered ==
    [][(window /\ request_symbols /\ ~ strayed') => calls \ Asked \subseteq calls']_vars

\* As long as no request was cancelled at a server that was not asked it, an
\* answer fills the tree only while the document it is about is the active one
\* (lsp-plugin.cpp:848-852).
FillsTheActive ==
    [][(tree' # tree /\ tree' # Empty /\ ~ strayed') => tree'.doc = active]_vars

\* "And the active document may have changed under the reply."
\* (lsp-plugin.cpp:848): whatever was cancelled and wherever, an answer about
\* another document is not put into the tree.  It does not hold with documents
\* of two servers: see Straying.
FillsOnlyTheActive ==
    [][(tree' # tree /\ tree' # Empty) => tree'.doc = active]_vars

\* "The symbol tree: filled when it is looked at"
\* (tests/lsp/symbols_pane/test.py:1): a pane that is open, for whose document
\* the server can be asked, and that waits for nothing, has been filled.  It does
\* not hold: nothing asks again when the server has become ready.
FilledWhenLookedAt == (Quiet /\ failures = 0 /\ CanAsk) => Current

\* "the tree keeps up with the document: the buffer changing queues another
\* request" (tests/lsp/symbols_pane/test.py:75-76): under FairSpec a change of
\* the text is followed by a tree of that text, unless something else happens
\* first.  What it excuses is what QuietTreeIsCurrent excuses.
KeepsUp ==
    \A d \in Doc, n \in 0 .. MaxActs :
        (active = d /\ text[d] = n /\ symbols_timeout /\ CanAsk)
            ~> (Current \/ active # d \/ text[d] # n \/ ~ window
                \/ failures # 0 \/ strayed)

=============================================================================
