------------------------------ MODULE LspSync ------------------------------
(***************************************************************************)
(* One language server of the LSP plugin, from lsp_server_new() until it   *)
(* is freed, and the documents that follow it: lsp-server.cpp (handshake,  *)
(* queue, restarts, shutdown), lsp-doc.cpp (the debounced didChange),      *)
(* lsp-manager.cpp (attaching, idle timeout, reopening after a restart)    *)
(* and the failure line of the diagnostics pane (lsp-plugin.cpp).          *)
(*                                                                         *)
(* LspClient shows that the transport keeps the order of what is sent and  *)
(* loses nothing while the process is healthy, so a message takes effect   *)
(* here when it is given to the client: "seen" is what the process will    *)
(* have understood when it has read all of it.                             *)
(*                                                                         *)
(* A text is the number of edits that made it.  Every document has a URI   *)
(* of its own, and so LspDoc.opened is TRUE as long as it exists.          *)
(***************************************************************************)
EXTENDS Naturals, Sequences, FiniteSets

CONSTANTS
    Doc,
    MayOffer,       \* each element: the sync kinds one server program answers
    MaxText,        \* bound: edits of one document
    MaxSpawned,     \* bound: processes started
    MaxAttached,    \* bound: how often a document is attached
    MaxQueued       \* bound: messages waiting for the handshake

Sync == {"full", "none"}

ASSUME SyncAssumption ==
    /\ IsFiniteSet(Doc)
    /\ MayOffer \subseteq SUBSET Sync
    /\ {} \notin MayOffer
    /\ MaxText \in Nat
    /\ MaxSpawned \in Nat
    /\ MaxAttached \in Nat
    /\ MaxQueued \in Nat

VARIABLES
    manager,        \* lsp_manager_shutdown() iterates the main loop half way
    attached,       \* manager.docs
    idle_timeout,
    attaches,       \* how often a document was attached
    pane,           \* the failure the diagnostics pane shows, or that it was
                    \* not filled since a document was attached
    pane_due,       \* queue_pane_update() has an idle source
    server,         \* who holds the LspServer
    state,
    error,          \* the cause of error_message
    client,         \* the LspClient, and whether its process was seen to exit
    initializing,   \* the client has the initialize call in its table
    init_timeout,
    quick_exits,
    spawned,        \* processes started
    docs,           \* server->docs
    queued,
    flushing,       \* flush_queue() is in its loop
    sync_kind,
    offers,         \* what the server program answers
    text,           \* the buffers
    version,
    change_timeout, \* the documents with a debounced didChange
    phase,          \* how far the handshake with the process went
    seen            \* what the process was told of each document

managerVars == <<manager, attached, idle_timeout, attaches>>
paneVars    == <<pane, pane_due>>
handVars    == <<client, initializing, init_timeout, quick_exits, spawned, phase>>
stateVars   == <<server, state, error>>
queueVars   == <<docs, queued, flushing>>
kindVars    == <<sync_kind, offers>>
docVars     == <<text, version, change_timeout>>
vars == <<managerVars, paneVars, handVars, stateVars, queueVars, kindVars, docVars, seen>>

Manager == {"running", "stopping", "stopped"}
Holding == {"nobody", "manager", "timeout", "freed"}
State   == {"STARTING", "READY", "FAILED"}
Cause   == {"none", "spawn", "refused", "exited", "disconnected", "timeout", "quick"}
Pane    == Cause \cup {"stale"}
Client  == {"none", "up", "down"}
Phase   == {"none", "initialize", "initialized", "exit"}
Kind    == {"open", "change", "save", "close", "request"}
Message == [kind : Kind, doc : Doc, version : Nat, text : Nat]
View    == [state : {"closed", "open", "confused"}, version : Nat, text : Nat]

Closed   == [state |-> "closed", version |-> 0, text |-> 0]
Confused == [state |-> "confused", version |-> 0, text |-> 0]

MaxQuickExits == 3

Init ==
    /\ manager = "running"
    /\ attached = {}
    /\ idle_timeout = FALSE
    /\ attaches = 0
    /\ pane = "none"
    /\ pane_due = FALSE
    /\ server = "nobody"
    /\ state = "STARTING"
    /\ error = "none"
    /\ client = "none"
    /\ initializing = FALSE
    /\ init_timeout = FALSE
    /\ quick_exits = 0
    /\ spawned = 0
    /\ docs = {}
    /\ queued = <<>>
    /\ flushing = FALSE
    /\ sync_kind = "full"
    /\ offers \in MayOffer
    /\ text = [d \in Doc |-> 0]
    /\ version = [d \in Doc |-> 0]
    /\ change_timeout = {}
    /\ phase = "none"
    /\ seen = [d \in Doc |-> Closed]

-----------------------------------------------------------------------------
(* The language server process, external: what a message does to what it   *)
(* knows of a document, by the rules of the protocol.                      *)

Follows == sync_kind = "full"

\* The process has the text that a message is about.
HasText(v, m) == v.state = "open" /\ v.text = m.text

Receive(v, m) ==
    CASE m.kind = "open" /\ v.state = "closed"
           -> [state |-> "open", version |-> m.version, text |-> m.text]
      [] m.kind = "change" /\ v.state = "open" /\ m.version > v.version
           -> [state |-> "open", version |-> m.version, text |-> m.text]
      [] m.kind = "save" /\ (Follows => HasText(v, m)) -> v
      [] m.kind = "request" -> v
      [] m.kind = "close" /\ v.state = "open" -> Closed
      [] OTHER -> Confused

\* Receive() for a sequence of at most one message.
ReceiveAny(v, ms) == IF ms = <<>> THEN v ELSE Receive(v, ms[1])

-----------------------------------------------------------------------------
(* Telling the user.                                                       *)

\* notify_listeners() for every document of the server: the pane of a window
\* that shows one of them is filled again when the main loop is idle.
TellListeners == pane_due' = (pane_due \/ (server = "manager" /\ attached # {}))

\* A mutant: a server that fails again says nothing.
TellUnlessFailed ==
    IF state = "FAILED" THEN UNCHANGED pane_due ELSE TellListeners

\* What set_failed() does about the listeners, failed already or not.
TellFailure == TellListeners

SetFailed(cause) ==
    /\ error' = cause
    /\ state' = "FAILED"
    /\ docs' = {}
    /\ queued' = <<>>
    /\ TellFailure

\* A tab was opened, closed or chosen: active_doc_changed() fills the pane again.
ActiveDocChanges == pane_due' = TRUE /\ UNCHANGED pane

\* A document that is active already is attached by doc_changed_identity() or
\* lsp_manager_reload(): nobody fills the pane again.
PaneIsLeft == pane' = "stale" /\ UNCHANGED pane_due

\* The user opens the pane, which is filled when it is mapped.
PaneOpened ==
    /\ ~flushing
    /\ ~pane_due
    /\ pane_due' = TRUE
    /\ UNCHANGED <<managerVars, pane, handVars, stateVars, queueVars, kindVars, docVars, seen>>

\* update_pane()
FillPane ==
    /\ ~flushing
    /\ pane_due
    /\ pane_due' = FALSE
    /\ pane' = IF attached # {} /\ state = "FAILED" THEN error ELSE "none"
    /\ UNCHANGED <<managerVars, handVars, stateVars, queueVars, kindVars, docVars, seen>>

-----------------------------------------------------------------------------
(* Talking: notify() and lsp_server_call() about document d, two messages  *)
(* at most, one after the other.                                           *)

\* A mutant: the newest message first.
PushedFirst(ms) == ms \o queued

\* queue_message()
Pushed(ms) == queued \o ms

Send(d, first, second) ==
    \/ /\ state = "FAILED"
       /\ UNCHANGED <<queued, seen>>
    \/ /\ state = "STARTING"
       /\ queued' = Pushed(first \o second)
       /\ Len(queued') <= MaxQueued
       /\ UNCHANGED seen
    \/ /\ state = "READY"
       /\ seen' = [seen EXCEPT ![d] = ReceiveAny(ReceiveAny(@, first), second)]
       /\ UNCHANGED queued

OpenOf(d)    == [kind |-> "open", doc |-> d, version |-> 1, text |-> text[d]]
CloseOf(d)   == [kind |-> "close", doc |-> d, version |-> 0, text |-> 0]
SaveOf(d)    == [kind |-> "save", doc |-> d, version |-> 0, text |-> text[d]]
RequestOf(d) == [kind |-> "request", doc |-> d, version |-> 0, text |-> text[d]]
ChangeOf(d)  == [kind |-> "change", doc |-> d, version |-> version[d] + 1, text |-> text[d]]

\* lsp_server_did_change()
DidChange(d) == IF d \in docs /\ sync_kind # "none" THEN <<ChangeOf(d)>> ELSE <<>>

\* A mutant: nothing is flushed before the save.
NeverFlushed(d) == <<>>

\* lsp_doc_flush()
Flushed(d) == IF d \in change_timeout THEN DidChange(d) ELSE <<>>

\* lsp_server_did_save()
DidSave(d) == IF d \in docs THEN <<SaveOf(d)>> ELSE <<>>

\* What lsp_doc_flush() leaves behind.
AfterFlush(d) ==
    /\ version' = IF d \in change_timeout THEN [version EXCEPT ![d] = @ + 1] ELSE version
    /\ change_timeout' = change_timeout \ {d}

-----------------------------------------------------------------------------
(* The documents.                                                          *)

\* buffer_changed()
Edit(d) ==
    /\ ~flushing
    /\ text[d] < MaxText
    /\ text' = [text EXCEPT ![d] = @ + 1]
    /\ change_timeout' = IF d \in attached THEN change_timeout \cup {d} ELSE change_timeout
    /\ UNCHANGED <<managerVars, paneVars, handVars, stateVars, queueVars, kindVars, version, seen>>

\* send_did_change(), from the timer.
TimerFires(d) ==
    /\ ~flushing
    /\ d \in change_timeout
    /\ AfterFlush(d)
    /\ Send(d, DidChange(d), <<>>)
    /\ UNCHANGED <<managerVars, paneVars, handVars, stateVars, docs, flushing, kindVars, text>>

\* doc_saved()
Save(d) ==
    /\ ~flushing
    /\ d \in attached
    /\ AfterFlush(d)
    /\ Send(d, Flushed(d), DidSave(d))
    /\ UNCHANGED <<managerVars, paneVars, handVars, stateVars, docs, flushing, kindVars, text>>

\* A feature of the plugin asks about the text and the cursor: lsp_doc_flush()
\* and lsp_server_call().  Most of them ask a server that is ready; the
\* highlight and the rename asked that some time ago.
Ask(d) ==
    /\ ~flushing
    /\ d \in attached
    /\ AfterFlush(d)
    /\ Send(d, Flushed(d), <<RequestOf(d)>>)
    /\ UNCHANGED <<managerVars, paneVars, handVars, stateVars, docs, flushing, kindVars, text>>

-----------------------------------------------------------------------------
(* Starting a process.                                                     *)

\* Two mutants: what the process that died knew is kept; the handshake has no
\* deadline.
KeptDocs == docs
NoDeadline == FALSE

\* client_exited() forgets what was open.
DocsOfNewProcess == {}

\* send_initialize() starts the timer.
Deadline == TRUE

\* start_process() and send_initialize().
Spawned ==
    /\ client' = "up"
    /\ initializing' = TRUE
    /\ init_timeout' = Deadline
    /\ phase' = "initialize"
    /\ seen' = [d \in Doc |-> Closed]

\* start_process() when lsp_client_new() fails.
NotSpawned ==
    /\ client' = "none"
    /\ initializing' = FALSE
    /\ init_timeout' = FALSE
    /\ phase' = "none"
    /\ seen' = [d \in Doc |-> Closed]

\* A mutant: a document that is attached does not stop the timer.
TimerGoesOn == idle_timeout' = (idle_timeout \/ attached' = {})

\* update_idle_timeout()
UpdateIdleTimeout == idle_timeout' = (attached' = {})

\* lsp_manager_add_doc() of the first document: lsp_server_new() starts the
\* process before the owner sets its callbacks, then the document is opened.
AddFirstDoc(d) ==
    /\ ~flushing
    /\ manager = "running"
    /\ server = "nobody"
    /\ attaches < MaxAttached
    /\ attaches' = attaches + 1
    /\ attached' = {d}
    /\ UpdateIdleTimeout
    /\ ActiveDocChanges \/ PaneIsLeft
    /\ server' = "manager"
    /\ docs' = {d}
    /\ version' = [version EXCEPT ![d] = 1]
    /\ spawned' = spawned + 1
    /\ \/ Spawned /\ queued' = <<OpenOf(d)>> /\ UNCHANGED <<state, error>>
       \/ NotSpawned /\ queued' = <<>> /\ state' = "FAILED" /\ error' = "spawn"
    /\ UNCHANGED <<manager, quick_exits, flushing, kindVars, text, change_timeout>>

\* lsp_doc_open() and lsp_server_did_open().
DidOpen(d) ==
    IF d \in docs \/ (sync_kind = "none" /\ state = "READY")
    THEN UNCHANGED <<docs, queued, seen>>
    ELSE docs' = docs \cup {d} /\ Send(d, <<OpenOf(d)>>, <<>>)

\* lsp_manager_add_doc()
AddDoc(d) ==
    /\ ~flushing
    /\ manager = "running"
    /\ server = "manager"
    /\ d \notin attached
    /\ attaches < MaxAttached
    /\ attaches' = attaches + 1
    /\ attached' = attached \cup {d}
    /\ UpdateIdleTimeout
    /\ ActiveDocChanges \/ PaneIsLeft
    /\ version' = [version EXCEPT ![d] = 1]
    /\ DidOpen(d)
    /\ UNCHANGED <<manager, handVars, stateVars, flushing, kindVars, text, change_timeout>>

\* lsp_server_did_close()
DidClose(d) == IF d \in docs THEN <<CloseOf(d)>> ELSE <<>>

\* lsp_manager_remove_doc(), lsp_doc_free(): what the timer was to send is not
\* sent.  A document that changed its name or language is removed and added
\* again, under its new URI; one whose tab is closed may not be the active one.
RemoveDoc(d) ==
    /\ ~flushing
    /\ d \in attached
    /\ attached' = attached \ {d}
    /\ UpdateIdleTimeout
    /\ ActiveDocChanges \/ UNCHANGED paneVars
    /\ change_timeout' = change_timeout \ {d}
    /\ docs' = docs \ {d}
    /\ Send(d, DidClose(d), <<>>)
    /\ UNCHANGED <<manager, attaches, handVars, stateVars, flushing, kindVars, text, version>>

-----------------------------------------------------------------------------
(* The handshake.                                                          *)

\* A mutant: the documents open elsewhere are left for the next edit.
NotReopened == {}

\* server_state_changed() of a server that is ready opens the documents that
\* it does not have, unless the callbacks are gone.
Reopened ==
    IF server = "manager" /\ sync_kind' # "none" THEN attached \ docs ELSE {}

\* initialize_reply() with a result, up to flush_queue().
InitializeReply ==
    /\ ~flushing
    /\ initializing
    /\ initializing' = FALSE
    /\ init_timeout' = FALSE
    /\ sync_kind' \in offers
    /\ phase' = IF phase = "exit" THEN phase ELSE "initialized"
    /\ state' = "READY"
    /\ docs' = docs \cup Reopened
    /\ seen' = [d \in Doc |-> IF d \in Reopened THEN Receive(seen[d], OpenOf(d)) ELSE seen[d]]
    /\ version' = [d \in Doc |-> IF d \in Reopened THEN 1 ELSE version[d]]
    /\ flushing' = (queued # <<>>)
    /\ UNCHANGED <<managerVars, paneVars, client, quick_exits, spawned, server, error, queued,
                   offers, text, change_timeout>>

\* One turn of the loop of flush_queue().
FlushStep ==
    /\ flushing
    /\ LET m == Head(queued) IN seen' = [seen EXCEPT ![m.doc] = Receive(@, m)]
    /\ queued' = Tail(queued)
    /\ flushing' = (queued' # <<>>)
    /\ UNCHANGED <<managerVars, paneVars, handVars, stateVars, docs, kindVars, docVars>>

\* initialize_reply() with an error or without capabilities.  The process
\* stays.
InitializeRefused ==
    /\ ~flushing
    /\ initializing
    /\ initializing' = FALSE
    /\ init_timeout' = FALSE
    /\ SetFailed("refused")
    /\ UNCHANGED <<managerVars, pane, client, quick_exits, spawned, phase, server, flushing,
                   kindVars, docVars, seen>>

\* initialize_timed_out(): set_failed(), and drop_client() fails the call that
\* is still in the table, which is set_failed() again.
InitializeTimedOut ==
    /\ ~flushing
    /\ init_timeout
    /\ init_timeout' = FALSE
    /\ initializing' = FALSE
    /\ client' = "none"
    /\ SetFailed(IF initializing THEN "disconnected" ELSE "timeout")
    /\ UNCHANGED <<managerVars, pane, quick_exits, spawned, phase, server, flushing, kindVars,
                   docVars, seen>>

-----------------------------------------------------------------------------
(* The end of the process.                                                 *)

\* A mutant: a process that lived longer makes up for one that did not.
OneForgiven(quick) == IF quick THEN quick_exits + 1 ELSE quick_exits - 1

\* The quick exits in a row, this one included.
QuickExits(quick) == IF quick THEN quick_exits + 1 ELSE 0

\* client_exited() goes on only if the server is not being shut down.
Restarts == server = "manager"

\* The process of a server that is being shut down exits: the initialize call
\* may still be in the table, and fails.
ExitOfReleased ==
    /\ ~flushing
    /\ client = "up"
    /\ ~Restarts
    /\ client' = "down"
    /\ initializing' = FALSE
    /\ init_timeout' = FALSE
    /\ IF initializing THEN SetFailed("exited") ELSE UNCHANGED <<error, state, docs, queued, pane_due>>
    /\ UNCHANGED <<managerVars, pane, quick_exits, spawned, phase, server, flushing, kindVars,
                   docVars, seen>>

\* client_exited() gives up.
GiveUp(quick) ==
    /\ ~flushing
    /\ client = "up"
    /\ Restarts
    /\ QuickExits(quick) >= MaxQuickExits
    /\ quick_exits' = QuickExits(quick)
    /\ client' = "down"
    /\ initializing' = FALSE
    /\ init_timeout' = FALSE
    /\ SetFailed("quick")
    /\ UNCHANGED <<managerVars, pane, spawned, phase, server, flushing, kindVars, docVars, seen>>

\* client_exited() starts another process, an initialize call that was still
\* in the table having failed first.
Restart(quick) ==
    /\ ~flushing
    /\ client = "up"
    /\ Restarts
    /\ QuickExits(quick) < MaxQuickExits
    /\ spawned < MaxSpawned
    /\ spawned' = spawned + 1
    /\ quick_exits' = QuickExits(quick)
    /\ queued' = <<>>
    /\ \/ /\ Spawned
          /\ state' = "STARTING"
          /\ docs' = DocsOfNewProcess
          /\ IF initializing THEN TellFailure ELSE UNCHANGED pane_due
          /\ error' = IF initializing THEN "exited" ELSE error
       \/ /\ NotSpawned
          /\ state' = "FAILED"
          /\ error' = "spawn"
          /\ docs' = {}
          /\ TellListeners
    /\ UNCHANGED <<managerVars, pane, server, flushing, kindVars, docVars>>

-----------------------------------------------------------------------------
(* Shutting down.                                                          *)

\* server_entry_free() and lsp_server_shutdown(): only a server whose process
\* runs is kept, by the timeout that will kill it.
Release ==
    /\ idle_timeout' = FALSE
    /\ init_timeout' = FALSE
    /\ docs' = {}
    /\ queued' = <<>>
    /\ IF client = "up"
       THEN server' = "timeout" /\ phase' = "exit" /\ UNCHANGED client
       ELSE server' = "freed" /\ client' = "none" /\ UNCHANGED phase

\* server_idle_expired()
IdleExpired ==
    /\ ~flushing
    /\ idle_timeout
    /\ Release
    /\ UNCHANGED <<manager, attached, attaches, paneVars, initializing, quick_exits, spawned,
                   state, error, flushing, kindVars, docVars, seen>>

\* lsp_manager_shutdown() up to lsp_client_set_sync_writes(), which iterates
\* the main loop.
ManagerStops ==
    /\ ~flushing
    /\ manager = "running"
    /\ manager' = "stopping"
    /\ UNCHANGED <<attached, idle_timeout, attaches, paneVars, handVars, stateVars, queueVars,
                   kindVars, docVars, seen>>

\* The rest of it: every document is closed, then every server shut down.
ManagerStopped ==
    /\ ~flushing
    /\ manager = "stopping"
    /\ manager' = "stopped"
    /\ attached' = {}
    /\ change_timeout' = {}
    /\ seen' = [d \in Doc |-> IF state = "READY" /\ d \in attached \cap docs
                              THEN Receive(seen[d], CloseOf(d)) ELSE seen[d]]
    /\ IF server = "manager" THEN Release
       ELSE UNCHANGED <<idle_timeout, init_timeout, docs, queued, server, client, phase>>
    /\ UNCHANGED <<attaches, paneVars, initializing, quick_exits, spawned, state, error, flushing,
                   kindVars, text, version>>

\* exit_timed_out()
ExitTimedOut ==
    /\ ~flushing
    /\ server = "timeout"
    /\ server' = "freed"
    /\ client' = "none"
    /\ initializing' = FALSE
    /\ IF initializing
       THEN SetFailed("disconnected")
       ELSE UNCHANGED <<error, state, docs, queued, pane_due>>
    /\ UNCHANGED <<managerVars, pane, init_timeout, quick_exits, spawned, phase, flushing,
                   kindVars, docVars, seen>>

-----------------------------------------------------------------------------
Next ==
    \/ \E d \in Doc : Edit(d) \/ TimerFires(d) \/ Save(d) \/ Ask(d)
    \/ \E d \in Doc : AddFirstDoc(d) \/ AddDoc(d) \/ RemoveDoc(d)
    \/ InitializeReply \/ FlushStep \/ InitializeRefused \/ InitializeTimedOut
    \/ \E quick \in BOOLEAN : GiveUp(quick) \/ Restart(quick)
    \/ ExitOfReleased \/ FillPane \/ PaneOpened
    \/ IdleExpired \/ ManagerStops \/ ManagerStopped \/ ExitTimedOut

Spec == Init /\ [][Next]_vars

\* The timers and the idle source of the main loop fire, a loop ends, and the
\* program runs out of edits.  The process owes nothing.
Fairness ==
    /\ WF_vars(FlushStep)
    /\ WF_vars(FillPane)
    /\ WF_vars(InitializeTimedOut)
    /\ WF_vars(ExitTimedOut)
    /\ \A d \in Doc : WF_vars(TimerFires(d))

FairSpec == Spec /\ Fairness

-----------------------------------------------------------------------------
(* Properties.                                                             *)

TypeOK ==
    /\ manager \in Manager
    /\ attached \subseteq Doc
    /\ idle_timeout \in BOOLEAN
    /\ attaches \in Nat
    /\ pane \in Pane
    /\ pane_due \in BOOLEAN
    /\ server \in Holding
    /\ state \in State
    /\ error \in Cause
    /\ client \in Client
    /\ initializing \in BOOLEAN
    /\ init_timeout \in BOOLEAN
    /\ quick_exits \in Nat
    /\ spawned \in Nat
    /\ docs \subseteq Doc
    /\ queued \in Seq(Message)
    /\ flushing \in BOOLEAN
    /\ sync_kind \in Sync
    /\ offers \in MayOffer
    /\ text \in [Doc -> Nat]
    /\ version \in [Doc -> Nat]
    /\ change_timeout \subseteq Doc
    /\ phase \in Phase
    /\ seen \in [Doc -> View]

\* A process is never notified of what the protocol forbids: of a document
\* opened twice, changed or closed while it is not open, of a version that is
\* not newer, or of a save of a text that it does not have.
NobodyConfused == \A d \in Doc : seen[d].state # "confused"

\* "The server must have the text": once the handshake is done and its queue
\* sent, a server that wants the text has every attached document open, with
\* the text of the buffer unless a didChange is on its timer.
Mirrored ==
    (server = "manager" /\ state = "READY" /\ Follows /\ ~flushing) =>
        \A d \in attached :
            /\ seen[d].state = "open"
            /\ d \in change_timeout \/ seen[d].text = text[d]

\* "The server must have the text the position refers to": a request made of a
\* server that is ready comes after the text that it is about (lsp_doc_flush()).
ReadyHasTheText ==
    [][\A d \in Doc : (state = "READY" /\ Follows /\ Ask(d)) => HasText(seen'[d], RequestOf(d))]_vars

\* The same of every request, those included that waited for the handshake.
\* Of those it is not so: the handshake of another process opens a document
\* with the text of then, before the queue that was written earlier.
ServerHasTheText ==
    /\ ReadyHasTheText
    /\ [][(FlushStep /\ Follows /\ Head(queued).kind = "request") =>
             HasText(seen[Head(queued).doc], Head(queued))]_vars

\* A server that is starting is waiting for a process that was asked to
\* initialize, and not for longer than the timer lets it.
HandshakeGuarded ==
    (server = "manager" /\ state = "STARTING") => client = "up" /\ initializing /\ init_timeout

\* The pane has something of a failed server to show, and has shown it.
FailureToShow == server = "manager" /\ state = "FAILED" /\ attached # {} /\ ~pane_due

\* The failure the pane shows is the last message of set_failed(), as soon as
\* the idle source has run.  Not so when a document that is active already was
\* attached and nothing filled the pane since: see FailureReachesThePane.
FailureIsShown == FailureToShow => pane \in {error, "stale"}

\* "It reaches the user through the listeners, which is to say through the
\* diagnostics pane of every window looking at a document of that server":
\* not when set_failed() runs in lsp_server_new(), before it has an owner, for
\* a document that is the active one already.
FailureReachesThePane == FailureToShow => pane = error

\* A server that documents use is not shut down for being idle, whichever
\* documents came and went while the timer of update_idle_timeout() ran.
UsedIsNotIdle == attached # {} => server = "manager"

\* What the server has is a text the document really had, and newer texts
\* replace older ones (LspMirror).  A confused server has no such text.
KnownText(v) ==
    CASE v.state = "closed" -> <<>>
      [] v.state = "open" -> <<v.text>>
      [] v.state = "confused" -> <<0, 0>>

Mirror == INSTANCE LspMirror WITH known <- [d \in Doc |-> KnownText(seen[d])]

FollowsTheText == Mirror!Spec

StartingWith(n) == server = "manager" /\ state = "STARTING" /\ spawned = n

\* No process is waited for without end: its handshake is done, has failed, or
\* is that of the next process.  How many processes there are, nothing bounds:
\* one that exits after two seconds without an answer is always started again.
HandshakeEnds == \A n \in 1 .. MaxSpawned : StartingWith(n) ~> ~StartingWith(n)

\* Every edit of a document reaches a server that wants the text, unless the
\* document is closed or the process lost before.
EditsArrive ==
    \A d \in Doc : \A n \in 1 .. MaxText :
        (d \in attached /\ text[d] = n /\ state = "READY" /\ Follows)
            ~> (seen[d].text >= n \/ d \notin attached \/ state # "READY")
=============================================================================
