---------------------------- MODULE LspClient ----------------------------
(***************************************************************************)
(* The JSON-RPC transport of the LSP plugin: one language server process,  *)
(* the table of calls it has not answered, the queue of messages its stdin *)
(* has not taken, and the references that keep the client allocated        *)
(* (src/src/plugins/lsp/lsp-client.cpp).                                   *)
(*                                                                         *)
(* medit is single threaded: an action is one callback of the main loop or *)
(* one call made by the program.  Two functions are split, because code of *)
(* the program runs in the middle of them: fail_pending_calls() runs the   *)
(* callbacks of the calls it took out of the table one after the other     *)
(* (the sweep), and lsp_client_set_sync_writes() iterates the main loop    *)
(* (the drain).                                                            *)
(***************************************************************************)
EXTENDS Naturals, Sequences, FiniteSets

CONSTANTS
    Call,       \* the calls the program may make, each at most once
    MaxNotes,   \* bound: notifications, replies and cancellations sent
    PipeSize,   \* how many unread messages the pipe to the server holds
    MaxUnread   \* bound: messages of the server medit has not read

ASSUME ClientAssumption ==
    /\ IsFiniteSet(Call)
    /\ MaxNotes \in Nat
    /\ PipeSize \in Nat \ {0}
    /\ MaxUnread \in Nat \ {0}

VARIABLES
    holders,        \* who holds a reference, besides the write in flight
    running,        \* the process has not been seen to exit
    disconnected,
    handler,        \* the function whose callbacks are running
    exit_told,      \* how often on_exit was called
    next_id,
    call_id,        \* what lsp_client_call() returned for each call
    outcome,        \* what the program has been told of each call
    pending,        \* the calls in the table
    sweep,          \* the calls taken out by fail_pending_calls(), not failed yet
    forgotten,      \* the calls the program cancelled
    out_queue,      \* messages waiting for the write in flight
    writing,        \* the message of the write in flight, at most one
    sync_writes,
    drain,          \* where lsp_client_set_sync_writes() is
    stdin_open,     \* medit's end of the pipe
    close_asked,    \* lsp_client_close_stdin() was called
    stamp,          \* messages sent so far: the order the program sent them in
    notes,          \* those of them that are not calls
    alive,          \* the process
    hearing,        \* the process reads its stdin
    pipe,           \* what it has not read yet
    heard,          \* the stamp of the last message it read
    asked,          \* the ids of the requests it read
    stdout          \* what it wrote and medit has not read

lifeVars == <<holders, running, disconnected, handler, exit_told>>
callVars == <<next_id, call_id, outcome, pending, sweep, forgotten>>
sendVars == <<out_queue, writing, stamp, notes>>
modeVars == <<sync_writes, drain, stdin_open, close_asked>>
peerVars == <<alive, hearing, heard, asked, stdout>>
vars == <<lifeVars, callVars, sendVars, modeVars, peerVars, pipe>>

Holder   == {"owner", "wait", "read", "stderr"}
Handler  == {"none", "exit", "exiting", "disconnect"}
Outcome  == {"unmade", "waiting", "answered", "failed", "cancelled"}
Drain    == {"no", "loop", "write"}
Message  == [kind : {"request", "note"}, id : Nat, stamp : Nat \ {0}]
Answer   == [kind : {"reply", "garbage"}, id : Nat]

\* A mutant: the wait for the process holds no reference.
HoldersWithoutWait == Holder \ {"wait"}

\* The references lsp_client_new() returns with: the owner's, the wait's and
\* the two reads'.
FirstHolders == Holder

FirstId == 1

Init ==
    /\ holders = FirstHolders
    /\ running = TRUE
    /\ disconnected = FALSE
    /\ handler = "none"
    /\ exit_told = 0
    /\ next_id = FirstId
    /\ call_id = [c \in Call |-> 0]
    /\ outcome = [c \in Call |-> "unmade"]
    /\ pending = {}
    /\ sweep = {}
    /\ forgotten = {}
    /\ out_queue = <<>>
    /\ writing = <<>>
    /\ sync_writes = FALSE
    /\ drain = "no"
    /\ stdin_open = TRUE
    /\ close_asked = FALSE
    /\ stamp = 0
    /\ notes = 0
    /\ alive = TRUE
    /\ hearing = TRUE
    /\ pipe = <<>>
    /\ heard = 0
    /\ asked = {}
    /\ stdout = <<>>

-----------------------------------------------------------------------------
(* Who may run.                                                            *)

IsRunning == running /\ ~disconnected

\* The last reference is gone.  A write in flight holds one.
Freed == holders = {} /\ writing = <<>>

\* The main loop can dispatch a callback: no handler is in the middle of its
\* work and no blocking write is under way.
MainLoop == handler = "none" /\ drain # "write" /\ ~Freed

\* Code of the program can run: from the main loop, or from a callback.
Program == "owner" \in holders /\ drain # "write"

-----------------------------------------------------------------------------
(* Writing.                                                                *)

\* A write on the pipe can succeed.
PipeTakes == alive /\ hearing /\ stdin_open

\* start_write() when the messages of q are queued and none is in flight.
StartWrite(q) ==
    IF q = <<>> \/ ~IsRunning
    THEN writing' = <<>> /\ out_queue' = q
    ELSE writing' = <<Head(q)>> /\ out_queue' = Tail(q)

\* A mutant: the newest message first.
QueuedFirst(m) == <<m>> \o out_queue

\* g_queue_push_tail().
Queued(m) == Append(out_queue, m)

\* send_message() of a client that is running.  A blocking write on top of a
\* write in flight fails and its message is lost; otherwise the message goes
\* through out_queue, which is empty then, and DrainStep writes it at once.
SendMessage(kind, id) ==
    LET m == [kind |-> kind, id |-> id, stamp |-> stamp + 1] IN
    /\ stamp' = stamp + 1
    /\ \/ /\ ~sync_writes
          /\ IF writing = <<>> THEN StartWrite(Queued(m))
             ELSE out_queue' = Queued(m) /\ UNCHANGED writing
          /\ UNCHANGED drain
       \/ /\ sync_writes
          /\ IF writing = <<>> /\ PipeTakes
             THEN out_queue' = Queued(m) /\ drain' = "write"
             ELSE UNCHANGED <<out_queue, drain>>
          /\ UNCHANGED writing

\* A mutant: nothing starts the next write until something else is sent.
NoNextWrite == writing' = <<>> /\ UNCHANGED out_queue

\* What write_ready() does after a write that succeeded.
NextWrite == StartWrite(out_queue)

\* write_ready(), the write having succeeded.
WriteReady ==
    /\ MainLoop
    /\ writing # <<>>
    /\ PipeTakes
    /\ Len(pipe) < PipeSize
    /\ pipe' = Append(pipe, Head(writing))
    /\ NextWrite
    /\ UNCHANGED <<lifeVars, callVars, modeVars, peerVars, stamp, notes>>

\* write_ready(), the write having failed or been cancelled: nothing starts
\* the next one.
WriteFailed ==
    /\ MainLoop
    /\ writing # <<>>
    /\ ~PipeTakes \/ disconnected
    /\ writing' = <<>>
    /\ UNCHANGED <<lifeVars, callVars, modeVars, peerVars, pipe, out_queue, stamp, notes>>

\* lsp_client_set_sync_writes() up to its loop over the main context, which
\* runs only while a write is in flight.
SetSyncWrites ==
    /\ Program
    /\ handler = "none"
    /\ ~sync_writes
    /\ sync_writes' = TRUE
    /\ drain' = IF writing = <<>> THEN "write" ELSE "loop"
    /\ UNCHANGED <<lifeVars, callVars, sendVars, stdin_open, close_asked, peerVars, pipe>>

\* The loop ends: the write in flight is done, or the deadline has passed.
DrainLoopEnds ==
    /\ drain = "loop"
    /\ handler = "none"
    /\ ~Freed
    /\ drain' = "write"
    /\ UNCHANGED <<lifeVars, callVars, sendVars, sync_writes, stdin_open, close_asked,
                   peerVars, pipe>>

\* write_bytes_sync() of the next message: it blocks while the pipe is full,
\* and what the stream does not take is lost.
DrainStep ==
    /\ drain = "write"
    /\ out_queue # <<>>
    /\ IF writing = <<>> /\ PipeTakes
       THEN /\ Len(pipe) < PipeSize
            /\ pipe' = Append(pipe, Head(out_queue))
       ELSE UNCHANGED pipe
    /\ out_queue' = Tail(out_queue)
    /\ UNCHANGED <<lifeVars, callVars, modeVars, peerVars, writing, stamp, notes>>

DrainDone ==
    /\ drain = "write"
    /\ out_queue = <<>>
    /\ drain' = "no"
    /\ UNCHANGED <<lifeVars, callVars, sendVars, sync_writes, stdin_open, close_asked,
                   peerVars, pipe>>

\* lsp_client_close_stdin(): g_output_stream_close() fails while a write is in
\* flight, and its result is not looked at.
CloseStdin ==
    /\ Program
    /\ ~close_asked
    /\ close_asked' = TRUE
    /\ stdin_open' = (writing # <<>>)
    /\ UNCHANGED <<lifeVars, callVars, sendVars, sync_writes, drain, peerVars, pipe>>

-----------------------------------------------------------------------------
(* Calls.                                                                  *)

\* A mutant: the id is not advanced.
SameId == next_id

\* The id of the call after the next.
FollowingId == next_id + 1

\* lsp_client_call(): it fails at once when the client is not running.
MakeCall(c) ==
    /\ Program
    /\ outcome[c] = "unmade"
    /\ IF IsRunning
       THEN /\ next_id' = FollowingId
            /\ call_id' = [call_id EXCEPT ![c] = next_id]
            /\ outcome' = [outcome EXCEPT ![c] = "waiting"]
            /\ pending' = pending \cup {c}
            /\ SendMessage("request", next_id)
       ELSE /\ outcome' = [outcome EXCEPT ![c] = "failed"]
            /\ UNCHANGED <<next_id, call_id, pending, stamp, out_queue, writing, drain>>
    /\ UNCHANGED <<lifeVars, sweep, forgotten, notes, sync_writes, stdin_open,
                   close_asked, peerVars, pipe>>

\* lsp_client_cancel(), for a call the program has not been called back for.
Cancel(c) ==
    /\ Program
    /\ outcome[c] = "waiting"
    /\ c \notin forgotten
    /\ forgotten' = forgotten \cup {c}
    /\ pending' = pending \ {c}
    /\ outcome' = IF c \in pending THEN [outcome EXCEPT ![c] = "cancelled"] ELSE outcome
    /\ IF IsRunning
       THEN /\ notes' = notes + 1
            /\ SendMessage("note", call_id[c])
       ELSE UNCHANGED <<notes, stamp, out_queue, writing, drain>>
    /\ UNCHANGED <<lifeVars, next_id, call_id, sweep, sync_writes, stdin_open,
                   close_asked, peerVars, pipe>>

\* lsp_client_notify(), lsp_client_reply() and lsp_client_reply_error(): sent
\* when the client is running, dropped otherwise.
Notify ==
    /\ Program
    /\ notes < MaxNotes
    /\ IsRunning
    /\ notes' = notes + 1
    /\ SendMessage("note", 0)
    /\ UNCHANGED <<lifeVars, callVars, sync_writes, stdin_open, close_asked, peerVars, pipe>>

-----------------------------------------------------------------------------
(* The end of the process and of the client.                               *)

\* Two mutants: the calls stay in the table; nobody is told.
CopyPending == sweep' = sweep \cup pending /\ UNCHANGED pending
LeavePending == UNCHANGED <<sweep, pending>>

\* fail_pending_calls() takes every call out of the table before it runs the
\* first callback.
StealPending == sweep' = sweep \cup pending /\ pending' = {}

\* process_exited() up to the callbacks of fail_pending_calls().  The wait is
\* cancelled by lsp_client_disconnect().
ProcessExited ==
    /\ MainLoop
    /\ "wait" \in holders
    /\ ~alive \/ disconnected
    /\ running' = FALSE
    /\ handler' = "exit"
    /\ StealPending
    /\ UNCHANGED <<holders, disconnected, exit_told, next_id, call_id, outcome, forgotten,
                   sendVars, modeVars, peerVars, pipe>>

\* One callback of fail_pending_calls(), in the order of a hash table.
FailPendingCall(c) ==
    /\ handler \in {"exit", "disconnect"}
    /\ c \in sweep
    /\ sweep' = sweep \ {c}
    /\ outcome' = [outcome EXCEPT ![c] = "failed"]
    /\ UNCHANGED <<lifeVars, next_id, call_id, pending, forgotten, sendVars, modeVars,
                   peerVars, pipe>>

\* A mutant: lsp_client_disconnect() leaves on_exit set.
AlwaysListens == TRUE

\* on_exit is set.
ExitListener == ~disconnected

\* process_exited() after the sweep: on_exit, which lsp_client_disconnect()
\* clears.
TellExit ==
    /\ handler = "exit"
    /\ sweep = {}
    /\ handler' = "exiting"
    /\ exit_told' = IF ExitListener THEN exit_told + 1 ELSE exit_told
    /\ UNCHANGED <<holders, running, disconnected, callVars, sendVars, modeVars, peerVars, pipe>>

\* process_exited() returns.
ReleaseWait ==
    /\ handler = "exiting"
    /\ handler' = "none"
    /\ holders' = holders \ {"wait"}
    /\ UNCHANGED <<running, disconnected, exit_told, callVars, sendVars, modeVars, peerVars, pipe>>

\* lsp_client_disconnect() up to the callbacks of fail_pending_calls().
Disconnect ==
    /\ Program
    /\ ~disconnected
    /\ disconnected' = TRUE
    /\ StealPending
    /\ handler' = IF handler = "none" THEN "disconnect" ELSE handler
    /\ UNCHANGED <<holders, running, exit_told, next_id, call_id, outcome, forgotten,
                   sendVars, modeVars, peerVars, pipe>>

\* lsp_client_disconnect() returns.
DisconnectDone ==
    /\ handler = "disconnect"
    /\ sweep = {}
    /\ handler' = "none"
    /\ UNCHANGED <<holders, running, disconnected, exit_told, callVars, sendVars, modeVars,
                   peerVars, pipe>>

\* lsp_client_unref() by the owner, which disconnects first.
DropOwner ==
    /\ Program
    /\ disconnected
    /\ handler # "disconnect"
    /\ holders' = holders \ {"owner"}
    /\ UNCHANGED <<running, disconnected, handler, exit_told, callVars, sendVars, modeVars,
                   peerVars, pipe>>

\* SIGKILL, or any other end of the process.
Dies == alive' = FALSE /\ hearing' = FALSE /\ pipe' = <<>>

\* lsp_client_force_exit() by the program.
ForceExit ==
    /\ Program
    /\ running
    /\ alive
    /\ Dies
    /\ UNCHANGED <<lifeVars, callVars, sendVars, modeVars, heard, asked, stdout>>

-----------------------------------------------------------------------------
(* Reading: read_ready(), process_in_buf() and dispatch_message() for the  *)
(* next message of the server's stdout.                                    *)

\* A mutant: the entry is looked up and not taken out.
LeftInTable(found) == pending

\* g_hash_table_steal_extended().
TakenOut(found) == pending \ found

\* A reply takes its call out of the table and runs the callback; a reply
\* without an entry is ignored.
ReadReply ==
    /\ MainLoop
    /\ "read" \in holders
    /\ ~disconnected
    /\ stdout # <<>>
    /\ Head(stdout).kind = "reply"
    /\ LET found == {c \in pending : call_id[c] = Head(stdout).id} IN
       /\ pending' = TakenOut(found)
       /\ outcome' = [c \in Call |-> IF c \in found THEN "answered" ELSE outcome[c]]
    /\ stdout' = Tail(stdout)
    /\ UNCHANGED <<lifeVars, next_id, call_id, sweep, forgotten, sendVars, modeVars, alive,
                   hearing, heard, asked, pipe>>

\* A malformed header: the process is killed and the rest of what was read
\* with it is thrown away.
ReadGarbage ==
    /\ MainLoop
    /\ "read" \in holders
    /\ ~disconnected
    /\ stdout # <<>>
    /\ Head(stdout).kind = "garbage"
    /\ \E k \in 2 .. Len(stdout) + 1 : stdout' = SubSeq(stdout, k, Len(stdout))
    /\ IF running THEN Dies ELSE UNCHANGED <<alive, hearing, pipe>>
    /\ UNCHANGED <<lifeVars, callVars, sendVars, modeVars, heard, asked>>

\* End of file on stdout, which the server may close at any time, or the read
\* was cancelled: nothing reads any more.
ReadEnds ==
    /\ MainLoop
    /\ "read" \in holders
    /\ disconnected \/ stdout = <<>>
    /\ holders' = holders \ {"read"}
    /\ UNCHANGED <<running, disconnected, handler, exit_told, callVars, sendVars, modeVars,
                   peerVars, pipe>>

\* read_stderr_ready() at the end of the stream, which the server may close at
\* any time, or cancelled.  Its source has a low priority: an iteration of the
\* drain loop never dispatches it together with write_ready().
ReadStderrEnds ==
    /\ MainLoop
    /\ "stderr" \in holders
    /\ drain = "loop" => writing # <<>>
    /\ holders' = holders \ {"stderr"}
    /\ UNCHANGED <<running, disconnected, handler, exit_told, callVars, sendVars, modeVars,
                   peerVars, pipe>>

-----------------------------------------------------------------------------
(* The language server, an external process.                               *)

ServerReads ==
    /\ hearing
    /\ pipe # <<>>
    /\ pipe' = Tail(pipe)
    /\ heard' = Head(pipe).stamp
    /\ asked' = IF Head(pipe).kind = "request" THEN asked \cup {Head(pipe).id} ELSE asked
    /\ UNCHANGED <<lifeVars, callVars, sendVars, modeVars, alive, hearing, stdout>>

\* It answers what it was asked, in any order, cancelled or not, even twice.
ServerReplies(id) ==
    /\ alive
    /\ Len(stdout) < MaxUnread
    /\ stdout' = Append(stdout, [kind |-> "reply", id |-> id])
    /\ UNCHANGED <<lifeVars, callVars, sendVars, modeVars, alive, hearing, heard, asked, pipe>>

ServerBabbles ==
    /\ alive
    /\ Len(stdout) < MaxUnread
    /\ stdout' = Append(stdout, [kind |-> "garbage", id |-> 0])
    /\ UNCHANGED <<lifeVars, callVars, sendVars, modeVars, alive, hearing, heard, asked, pipe>>

ServerStopsReading ==
    /\ alive
    /\ hearing
    /\ hearing' = FALSE
    /\ pipe' = <<>>
    /\ UNCHANGED <<lifeVars, callVars, sendVars, modeVars, alive, heard, asked, stdout>>

ServerDies ==
    /\ alive
    /\ Dies
    /\ UNCHANGED <<lifeVars, callVars, sendVars, modeVars, heard, asked, stdout>>

-----------------------------------------------------------------------------
Next ==
    \/ \E c \in Call : MakeCall(c) \/ Cancel(c) \/ FailPendingCall(c)
    \/ Notify \/ SetSyncWrites \/ CloseStdin \/ ForceExit \/ Disconnect \/ DropOwner
    \/ WriteReady \/ WriteFailed \/ DrainLoopEnds \/ DrainStep \/ DrainDone
    \/ ProcessExited \/ TellExit \/ ReleaseWait \/ DisconnectDone
    \/ ReadReply \/ ReadGarbage \/ ReadEnds \/ ReadStderrEnds
    \/ \E id \in asked : ServerReplies(id)
    \/ ServerReads \/ ServerBabbles \/ ServerStopsReading \/ ServerDies

Spec == Init /\ [][Next]_vars

\* The main loop dispatches what is ready and a handler runs to its end.  The
\* server reads its stdin until it stops; the program owes nothing.
Fairness ==
    /\ WF_vars(WriteReady) /\ WF_vars(WriteFailed)
    /\ WF_vars(ProcessExited) /\ WF_vars(TellExit) /\ WF_vars(ReleaseWait)
    /\ WF_vars(DisconnectDone)
    /\ \A c \in Call : WF_vars(FailPendingCall(c))
    /\ WF_vars(DrainLoopEnds) /\ WF_vars(DrainStep) /\ WF_vars(DrainDone)
    /\ WF_vars(ServerReads)

FairSpec == Spec /\ Fairness

-----------------------------------------------------------------------------
(* Properties.                                                             *)

TypeOK ==
    /\ holders \subseteq Holder
    /\ running \in BOOLEAN
    /\ disconnected \in BOOLEAN
    /\ handler \in Handler
    /\ exit_told \in Nat
    /\ next_id \in Nat \ {0}
    /\ call_id \in [Call -> Nat]
    /\ outcome \in [Call -> Outcome]
    /\ pending \subseteq Call
    /\ sweep \subseteq Call
    /\ forgotten \subseteq Call
    /\ out_queue \in Seq(Message)
    /\ writing \in Seq(Message)
    /\ sync_writes \in BOOLEAN
    /\ drain \in Drain
    /\ stdin_open \in BOOLEAN
    /\ close_asked \in BOOLEAN
    /\ stamp \in Nat
    /\ notes \in Nat
    /\ alive \in BOOLEAN
    /\ hearing \in BOOLEAN
    /\ pipe \in Seq(Message)
    /\ heard \in Nat
    /\ asked \subseteq Nat
    /\ stdout \in Seq(Answer)

\* "No caller is left waiting for a reply that can never come": a call that
\* waits is in the table or about to be failed, and the table of a client that
\* lost its process, or was disconnected, is empty.
NobodyLeftWaiting ==
    /\ {c \in Call : outcome[c] = "waiting"} = pending \cup sweep
    /\ pending # {} => running /\ ~disconnected
    /\ sweep # {} => handler \in {"exit", "disconnect"}

\* A reply reaches the call it answers: whoever was called back with a result
\* had its own request read by the server, and no two calls that the server
\* may still answer share an id.
RepliesFindTheirCall ==
    /\ \A c \in Call : outcome[c] = "answered" => call_id[c] \in asked
    /\ \A c, d \in Call : call_id[c] = call_id[d] /\ call_id[c] # 0 => c = d

\* A callback runs at most once, and never after its call was cancelled while
\* it was in the table.
SettledOnce ==
    [][\A c \in Call : outcome[c] \notin {"unmade", "waiting"} => outcome'[c] = outcome[c]]_vars

\* The owner hears of the exit at most once, never after it disconnected, and
\* only when no call waits any more.
ExitToldLast ==
    [][exit_told' # exit_told =>
          exit_told = 0 /\ ~disconnected /\ \A c \in Call : outcome[c] # "waiting"]_vars

\* Everything between the program and the server, oldest message first.
Line == pipe \o writing \o out_queue

\* Messages reach the server in the order the program sent them.
InOrder ==
    /\ \A i, j \in 1 .. Len(Line) : i < j => Line[i].stamp < Line[j].stamp
    /\ \A i \in 1 .. Len(Line) : heard < Line[i].stamp

\* Nothing is in the way of an asynchronous write.
Healthy == IsRunning /\ PipeTakes /\ ~sync_writes

\* The client is freed only after its process was waited for and with every
\* call settled.
FreedInPeace == Freed => ~running /\ pending = {} /\ sweep = {}

\* Every call the process will never answer is failed: by its exit, or by
\* lsp_client_disconnect().
EveryoneIsTold ==
    \A c \in Call : (outcome[c] = "waiting" /\ (~alive \/ disconnected)) ~> outcome[c] # "waiting"

\* Every message sent on a healthy client is read by the server.
EverythingIsHeard ==
    \A n \in 1 .. MaxNotes : stamp >= n ~> heard >= n \/ ~Healthy

\* lsp-client.h:125: lsp_client_close_stdin() "lets the process see end of file on
\* its stdin, so that it can exit": at the latest when no write is in the way.  It
\* does not hold: on top of a write in flight the stream is not closed, then or later.
StdinIsClosed == close_asked /\ writing = <<>> => ~stdin_open

\* lsp-client.h:21: "every in-flight operation holds a reference".  So must
\* the loop of lsp_client_set_sync_writes(), which reads the client after each
\* iteration of the main context.
DrainHoldsReference == drain = "loop" => ~Freed

=============================================================================
