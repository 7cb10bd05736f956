# medit in TLA+

Specifications of the parts of medit whose correctness depends on the order of
things: callbacks of one main loop, answers of other processes that come late or
never, timers, restarts, and long sequences of edits and undos.  medit is a GTK
text editor with a single thread; what runs concurrently with it are language
servers, commands, other instances of medit and whoever writes to the same files.

Paths below are relative to `src/src/` of the repository.

## 1. The system

### Components

| Component | State it keeps | Operations | Talks to |
|---|---|---|---|
| **LSP client** `plugins/lsp/lsp-client.cpp` | table of pending calls, output queue and the write in flight, references, the process, synchronous mode | call, notify, cancel, disconnect, close stdin, reading, exit of the process | a server process over pipes; LSP server above it by callbacks |
| **LSP server** `lsp-server.cpp` | STARTING/READY/FAILED, queue of the handshake, open documents, sync kind, deadline, quick exits | start, initialize, flush, didOpen/Change/Save/Close, restart, shutdown | client below; manager through the state callback |
| **LSP document** `lsp-doc.cpp` | version, debounced change, URI, diagnostics | changed, flush, saved, open | its server; the buffer's signals |
| **LSP manager** `lsp-manager.cpp` | table of servers and of documents, idle timeout | add and remove a document, reopen after a restart, stop when idle, shutdown | servers, documents, listeners |
| **LSP panes and features** `lsp-plugin.cpp`, `-symbols`, `-completion`, `-signature`, `-highlight`, `-navigate`, `-references`, `-actions`, `-edits`, `-diagnostics` | per window: timer, id of the request under way, document it is about, list or tree | ask after a delay, cancel, fill from the answer, clear | servers of the documents; editor window |
| **Undo stack** `mooutils/mooundo.cpp`, `mooedit/mootextbuffer.cpp` | groups of actions to undo and to redo, the action that modified the text | edit, group, merge, undo, redo, freeze | the buffer; saving and loading reset the modified flag |
| **Document file** `mooedit/mooedit-fileops.cpp`, `mooedit.cpp`, `mooutils/moofilewriter.cpp` | file, encoding, status (modified, changed on disk, deleted, new) | load, reload, save, start and stop a watch | file watch, editor, buffer |
| **File watch** `mooutils/moofilewatch.cpp` | monitors by id | create, cancel, poll, event, close | `stat()` every half second; documents and folders |
| **Editor** `mooedit/mooeditor.cpp`, `mooeditwindow.cpp`, `mooeditview.cpp`, `mooplugin.cpp` | windows, tabs, documents, plugins attached to each | open, close, save, move between windows | everything above |
| **Text view, lines, marks, folds** `mooedit/mootextview*.cpp`, `mootextbtree.cpp`, `moolinebuffer.cpp`, `moolinemark.cpp`, `moofold.cpp` | tree of lines, marks, folds, cursor | insert, delete, search, indent | the buffer |
| **Application** `mooapp/mooapp.cpp`, `mooutils/mooappinput-unix.cpp`, `mooapp-ipc.cpp` | the sockets of the instance and its connections, stamps of broadcasts | open files in the running instance, broadcast | other processes |
| **Commands, tools, terminal** `mooutils/moospawn.cpp`, `plugins/support/moocmdview.cpp`, `plugins/usertools/`, `plugins/terminal/` | child process, its pipes, output lines | run, abort, output, exit | child processes |
| **File view, quick open, history** `moofileview/`, `plugins/mooquickopen*.cpp`, `mooutils/moofileindex.cpp`, `moohistorymgr.cpp` | folders and their stages of loading, index, recent files | list, refresh, scan, record | file system, file watch, other instances |
| Preferences, actions, menus, panes, spell, ctags, file list, find | tables and widgets | | |
| Vendored `vendor/gtksourceview`, `vendor/ctags` | third-party | | |

`PROJECT.json` lists them one by one with their status.

### What is hard, and what makes each part correct

* **Re-entrancy.**  A callback of a pending call may call back into the client,
  and `lsp_client_set_sync_writes()` and `lsp_manager_shutdown()` run the main
  loop half way through.  *Correct:* a callback runs exactly once or is dropped by
  a cancellation, nobody waits for an answer that cannot come, and the client
  outlives every operation in flight.
* **Order and loss.**  Writes are asynchronous, one at a time.  *Correct:* a
  healthy server reads all messages in the order they were sent.
* **Restart and state of the process before.**  Queue, open documents, sync kind
  and capabilities belong to a process.  *Correct:* no server is told what the
  protocol forbids, and a ready server has the text of every attached document.
* **Racing ends.**  Deadline, refusal, exit and a late answer race to end a
  handshake.  *Correct:* it ends, and the pane shows the last failure.
* **Late answers.**  A request is about a document and a text that may not be
  there any more.  *Correct:* an answer is used only for what it is about, and
  asking takes nobody else's answer away.
* **Long sequences of legal edits.**  Merging, grouping and the pointer to the
  modifying action must agree after any sequence.  *Correct:* undo goes back
  through the texts there were, and text not in the file is never shown as saved.
  `doc/todo.md:12` names "a broken undo" among the ways to lose a user's text.
* **Files changed by others.**  *Correct:* a change on disk that a `stat()` can show
  is reported and acted on, a change that was reported is not overwritten without a
  question, and what the user chose to save is never closed unsaved.  A change
  that has not been reported yet is overwritten without one (`OverwritingIsAsked`, §5).
* **Several instances.**  They share nothing but paths, look at them, connect, and
  remove what does not answer.  *Correct:* a file asked for is opened by one of
  them, by one only, and an instance handles a broadcast once at most and none after
  a later one of the same instance; one that comes late it does not handle
  (`OthersAreTold`, §5).
* **Output against exit.**  A shell exits before or after its pipes end, and what it
  leaves in the background keeps them.  *Correct:* every line, then the end, once;
  the Stop button is there while a pane has a command and aborts that one.  Once its
  shell was waited for that does nothing, and what it left in the background runs on.

## 2. The modules

| Module | What it is |
|---|---|
| `LspClient` | the transport with its peer process |
| `LspClientProofs` | theorems about `LspClient` |
| `LspSync` | one server from its creation to its end: server, documents, manager and the failure line of the pane, composed |
| `LspMirror` | abstract: a process has texts the document really had, newer after older |
| `LspSyncProofs` | theorems about `LspSync`, and that it implements `LspMirror` |
| `LspSymbols` | the symbols pane of one window over documents and servers |
| `LspSymbolsProofs` | theorems about `LspSymbols` |
| `UndoStack` | the undo stack, the modified flag, saving and loading |
| `UndoHistory` | abstract: a line of texts with the present one in the middle |
| `UndoStackProofs` | theorems about `UndoStack`, and that it implements `UndoHistory` |
| `DocFile` | documents, their files, the watch of those files, auto-sync, loading, saving and closing, with the dialogs that run the main loop in the middle |
| `DocFileProofs` | theorems about `DocFile`: types, the watch, what looks saved |
| `DocFileCallsProofs` | theorems about `DocFile` that look at the stack of calls: what is lost, what is noticed |
| `AppInput` | several processes of medit: who opens a file, what they tell each other, how they start, quit and die |
| `FileHandover` | abstract: the files of a process are kept, given to another once, and opened once or lost with it |
| `AppInputProofs` | theorems about `AppInput`, and that it implements `FileHandover` |
| `CmdView` | commands in panes: processes, pipes, exit, jobs of the window, Stop |
| `CommandOutput` | abstract: a pane shows the lines of its present command, then its end |
| `CmdViewProofs` | theorems about `CmdView`, and that it implements `CommandOutput` |
| `MC…` | definitions that give the constants their values |

An action is one callback of the main loop or one call of the program, with
everything the call does; actions keep the names of the functions where they
correspond one to one.  A function is split into several actions only where other
code runs in its middle.

### LspClient

Sources: `lsp-client.cpp`.  The state is that of `struct _LspClient`: `pending`,
`out_queue`, `writing`, `next_id`, and `holders` in place of the reference count
(the owner, the wait for the process, the reads, the write in flight).  The peer
has its own variables: what is in the pipe, what it read, what it answered.  Three
functions have a middle: `fail_pending_calls()` takes all calls out of the table
(`sweep`) and runs callbacks one by one (`FailPendingCall`), between which the
program may call, cancel or disconnect; the exit handler and `lsp_client_disconnect()`
end after that (`TellExit`, `DisconnectDone`); and `lsp_client_set_sync_writes()`
iterates the main loop (`drain`).  The server may answer in any order, twice, or
write garbage, stop reading, or die at any time.  Bytes are abstracted: a read
yields a whole message or one that is malformed.

### LspSync and LspMirror

`LspSync` has `LspServer` (`state`, `queued`, `flushing`, `docs`, `sync_kind`,
`quick_exits`, the timers), `LspManager` (`attached`, `idle_timeout`, and the two
halves of its shutdown), `LspDoc` (`version`, `change_timeout`) and the pane
(`pane`, `pane_due`).  A text is the number of edits that made it.  `seen` is what
the process understands of each document when it has read what was sent: that
messages arrive complete and in order is what `LspClient` shows, and so a message
takes effect when it is given to the client.  `Receive` is the protocol seen from
the server: a second didOpen, a change that is not newer, a save or request about
another text make its view `confused`, or would: a request about a text the process
does not have is what `ReadyHasTheText` and `ServerHasTheText` are about, and the
queue of the handshake is delivered as `flush_queue()` sends it, requests and
notifications alike.  A document that is attached fills the pane only if it becomes
the active one by that (`ActiveDocChanges`); a tab that is attached anew is active
already, and its pane is left as it is (`"stale"`).

`LspMirror` promises that the known text of a document only moves forward through
texts that existed.  `Mirror == INSTANCE LspMirror WITH known <- …` maps an open
view to its text.

### LspSymbols

One window with its documents, the pane's timer, `symbols_request` and
`symbols_doc`, and the request tables of the servers, which other features share.
Of a server only "ready" is kept.  The answer of any outstanding call may come at
any time, be a refusal, or never come.  `ServerOf` gives every document a server or
none; the runs have two documents of one server and one of another (`TwoServers`).
`strayed` is a history variable: a request of the pane was cancelled at a server that
was not asked it (`Straying`), which `request_symbols()` does when the document of another server becomes active.  What
is promised of the pane is promised until then; what comes of it is in §5
(`FillsOnlyTheActive`).

### UndoStack and UndoHistory

`buffer` is the text, `modified`, `modifying_action` and the undo stack; a stack is
a sequence of groups, a group a sequence of actions, latest first, as in the
`GSList` and `GQueue` of the code.  An action's `id` stands for its address.
`Edited` is `insert_text` and `delete_range` up to GTK's modified flag: it makes the
action, merges it (`Merges`, `Merged`, `Refused`), puts it in a group
(`WithAction`), frees what could be redone and drops a pointer to it
(`Forgotten`).  Undo and redo take the actions of a group one by one (`Walked`, `Step`),
in the order in which the code walks it.  `reload` is one user action of two edits, as in
`moo_edit_load_text()`; loading into an empty untitled document clears the stack.
Characters are a letter, a blank or a line end: merging tells no more apart.

`UndoHistory` has `past`, `text`, `future`, and `inside` a user action.  The
mapping computes `past` by really undoing the groups of the stack one by one, and
`future` by redoing, so an action merged wrongly shows as a past the document
never had.

### DocFile

Sources: `mooedit/mooedit-fileops.cpp`, `mooedit.cpp`, `mooeditor.cpp`,
`mooutils/moofilewatch.cpp`, `moofilewriter.cpp`.  Each document has one file, which
others write, delete and create at any time.  Every question to the user is a
dialog that runs the main loop in the middle of the function that asks, so `calls`
is the stack of functions that have begun and not returned; only its top takes
steps, and while that is a dialog the poll of the watch (`do_stat`) and the saving
timers (`Dispatched`) run on top of it.  `requests` is the table of monitors by id,
`round` the two lists `do_stat()` walks while the events it sends reload, save and
close documents, which cancels and makes monitors; one whose `stat()` failed stays in
the table when its document is gone.  A text is a number; `known` is
the one last read from the file or written to it, `hidden` says that the file changed in a
way no later `stat()` shows (times are whole seconds, a copy may keep an old one, and
the monitor takes its time after the text was read).  Where the code goes on with a
document that was freed, or reads the error that is not there, `broken` says why
and nothing more is claimed of that behaviour.

### AppInput and FileHandover

Sources: `medit-app/main.cpp`, `mooapp/mooapp.cpp`, `mooutils/mooappinput-unix.cpp`,
`mooappinput-common.cpp`, `mooapp-ipc.cpp`.  A process is one run of the program.
`file` and `dir` are the paths, `backlog` and `conns` the connections of each socket
before and after `accept()`.  Looking whether a path is there, connecting, removing
it, binding, listening, writing and closing are steps of their own, so that two
processes can be anywhere in them; `target` and `todo` are the loop each is in.  A
process can be killed at any step, and dies of `SIGPIPE` where nothing ignores it
(`KilledWriting`; GIO ignores it once it has made a socket of its own, so
`NotWritten` is possible too).  A message is whole or not there.

`FileHandover` knows nothing of sockets: each process has a `keeper` of its files, itself
or the one it gave them to (`Keeper`), and its files are kept, given, open or lost
(`FilesAre`, from who opened them and whether they wait at the taker).  A process
may give its files to one that is about to end, since nothing tells it; a given file
is lost only with its keeper.

### CmdView and CommandOutput

Sources: `mooutils/moospawn.cpp`, `plugins/support/moocmdview.cpp`,
`plugins/moofind.cpp`, `plugins/usertools/moocommand-exe.cpp`, and the jobs of
`mooedit/mooeditwindow.cpp`.  Commands are numbered as they start.  Of each there is
the process (`shell`, `hup`), its pipes (`open`: somebody can write to it; `wrote`,
`got`), `MooCmd` (`pid`, `watch`), and the pane that shows it (`cmd`, `shown`).
`Exits` leaves any of the pipes to what the shell put in the background.
`check_stop` is `moo_cmd_check_stop()` with all it calls: `command_exit()` of the Find
plugin, `cmd_exit_cb()`, and `moo_edit_window_job_finished()`.  A command that was
replaced, or whose window is closed, is dropped: its signals are disconnected, and
what its processes do then is not followed.

`CommandOutput` has no processes, pipes or watches.  A pane has a command or none, and
shows lines of that one only, until it is stopped, and in the end all of them and the
end in one step; the mapping is `cmd` for the pane and `shown` for its log.

## 3. The runs

| Run | Bounds | Shows |
|---|---|---|
| `client` | 2 calls, 1 other message, pipe of 1, 1 unread answer | all safety of the transport |
| `client_live` | 1 call, 2 other messages | every call of a lost process is failed; every message arrives |
| `sync` | 2 documents, 2 edits, 2 processes, 2 attachments, queue of 3 | nobody is confused, the texts are mirrored, a ready server has the text it is asked about, `LspMirror` is implemented |
| `sync_restart` | 1 document, 2 edits, 3 processes | the handshake of each process ends, a pane that was filled has the last failure, no document is left with a server that was idle, edits arrive |
| `symbols` | 2 documents of one server and 1 of another, 4 steps of the user, 1 failure | until a request was cancelled at the wrong server: one request at a time, answers fill their own tree, nobody else loses an answer, the tree keeps up |
| `undo` | 3 edits (5 with a reload), texts of 2 characters | the modified flag is right, its pointer leads to the file, `UndoHistory` is implemented |
| `doc_file` | 2 documents, 4 texts, 6 ids, 3 acts of the user and others, 1 failure, timers on top of 4 calls | events find their document, a change that can be seen is due and told, nothing unsaved looks saved, changes are lost only as asked |
| `appinput` | 3 processes (an instance, one that looks for it, one that does not), queue of 1, 2 broadcasts, 1 stop | files are opened once and in the end, `FileHandover` is implemented, an instance handles broadcasts once at most and in order, over two sockets read in any order |
| `cmd_view` | an output pane and a search, 2 commands, 1 line to each pipe | all lines, then the end; Stop aborts the command a pane has; a command that is over is given up; `CommandOutput` is implemented |
| `client_drain` | violation | the drain loop goes on reading a client that can be freed under it |
| `doc_timer` | violation; as `doc_file` | a saving timer whose id was lost fires for a closed document |
| `appinput_blocked` | violation; 3 broadcasts, 2 of them in one callback, no stops | two instances wait for each other in `connect()`, and a medit started then for both |

A run that expects a violation checks one sentence of the repository, quoted over
the property and under "findings" in `PROJECT.json`.

**Why the bounds are enough.**  The hazards need pairs: a call that waits and one
that is made by its callback (2 calls); a message in the pipe, one in flight and
one queued (a pipe of 1 and 3 messages); a document opened directly and one from
the queue (2 documents); a process and the one after it (2), or three that exit at
once, which is when the server is given up (`LSP_MAX_QUICK_EXITS` is 3); the active document and the one left, of the same
server and of another (3), with an edit, a change of document, an opening of the
pane and a call of another feature between (4 steps).  Undo needs
an edit, one that merges with it and one that does not, with saves and undos
between, which are not bounded.  Texts of two characters hold a merged pair;
`TypedOrPasted` has a letter, a blank, and a pasted pair with a line end, which is
never merged.  `doc_file` needs a document whose event is handled while another's is
due (2), an act of the user, one of the others, and one between (3), a read or a
write that fails (1), and texts that differ on disk, in the buffer, in the last
reading and on the stack (4); ids are reused, and 6 leave one to give when two are
known, one is kept by the poll, and others are those of monitors that stay in the table
after a `stat()` that failed.  `appinput` has one process in each of the roles
that meet at a path (3), an end of one of them (1), and a queue that one connection
fills; the code gives `listen()` 5, which the kernel makes 6 connections, and a
smaller queue only lets the case come sooner.  Two broadcasts, one in each callback,
can be read in the wrong order; two in one callback, and one of the other instance (3), make
both wait, in `appinput_blocked`.  `cmd_view` has the command that runs and the one that replaces it (2), in a pane that
replaces and one that does not, and a line that is there or not when its pipe
ends (1).  Every bound is a constant named in a guard (`MaxNotes`,
`MaxUnread`, `MaxText`, `MaxSpawned`, `MaxAttached`, `MaxQueued`, `MaxActs`,
`MaxFailures`, `MaxDepth`, `MaxOrphans`, `MaxNews`, `MaxBurst`, `MaxStops`, `MaxCmds`,
`MaxLines`, `MaxLength`, `MaxMade`, `MaxNesting`).

Symmetry is used for calls and for documents, in runs without liveness.  Deadlock
is not checked where a system may stop: a freed client, a server that was shut
down, a closed window, files nobody touches, or the end of the bounds.  It is checked for `undo`.

**Fairness.**  Only what the main loop owes: a source that is ready is dispatched,
a timer that is due fires, a loop inside a handler goes on (weak fairness of each).
Of the peer: a process that reads its stdin goes on reading until it stops or dies
(`client_live`), and a server answers in the end (`symbols`); `LspSync` assumes no
answer, since the deadline ends a handshake.  The poll and the steps of a function that has begun are owed in `doc_file`, the
steps of a process and its main loop in `appinput`.  In `cmd_view` a shell that was
sent `SIGHUP` exits, which one that ignores it would not.  Nothing is assumed of the
user, who need not answer a dialog, nor of others.

Two liveness properties have an exception, and both say where the code waits:
`ChangeIsTold` while a dialog that the poll brought up is open, or one that a reload it
made brought up (`PollAsks`: `do_stat()` is below a dialog on the stack), since nothing
looks at files until it is answered; and `FilesAreOpened`
while an instance waits in `connect()` in the middle of a broadcast
(`TellingWaits`).  `HandshakeEnds` is about each process: it does not say that the
server stops starting, and nothing does.  A process that lives longer than two
seconds and exits without an answer resets `quick_exits`, so that one after the
other is started for as long as that goes on; how many there are is a bound of the
model only.

## 4. What is proved

For every value of the constants that satisfies the named assumption of each
module (finite sets of calls or documents, bounds that are natural numbers):

* `LspClientProofs`: `ClientTypeCorrect`, `NoCallIsLost`, `EachReplyIsForItsCall`,
  `FreedWhenDone`, `EachCallSettlesOnce`, `ExitIsToldLast`, `MessagesKeepTheirOrder`.
  The invariant `ClientInv` adds to the types and to `NobodyLeftWaiting`: ids given are
  below `next_id` and unique (`IdsGiven`); an answer on its way was asked for
  (`AnswersWereAsked`), without which a reply could meet a call that was not made;
  and a running process is waited for, with the handlers that can be running then
  (`WaitedFor`), without which the exit could be told twice.  The order of messages
  needs `OrderInv`: what the pipe has, what is being written and what is queued are
  one line with stamps that grow, all later than what the process heard; a step
  moves the head of one part to the end of the part before it, or drops parts.
* `LspSyncProofs`, for every server program: `SyncTypeCorrect`, `NeverStuckStarting`,
  `LastFailureIsShown`, `DocumentsKeepTheirServer`.  The pane that was filled has the last
  failure; the one that a document attached anew leaves as it is (`"stale"`) is
  excepted (`FailureReachesThePane`, §5).  A server with documents
  is not shut down for being idle, since the timer runs only while there are none.  The
  invariant adds `FlushGuarded`: the
  loop of `flush_queue()` always has a message to take, which the type of what it sends
  needs; a failure updates the pane in the step that sets it or leaves an idle
  source, which is why `HandshakeGuarded` and `FailureIsShown` come together.
* `LspSyncProofs`, under `OneKind`, that the program of a server offers the same kind of
  sync at every restart: `NobodyIsConfused`, `BuffersAreMirrored`,
  `AskedAboutItsText` (a ready server is asked about a text it has; of what was queued
  for it this is not so, `ServerHasTheText`, §5) and `SyncImplementsMirror`, step by step.  The runs have such programs; the
  hypothesis is needed, because the queue outlives a process: when
  a program that wanted the text is followed by one that wants none, TLC finds
  a document that `Mirrored` would have open and is not.  `NobodyConfused` speaks of what
  a process was sent; what waits in the queue decides what it will be sent, so the
  invariant speaks of the view a process will have *at the end of the queue*: there
  is a run of views, one for each message, that begins with the view of now, never
  becomes confused, and ends where the documents of the editor say it has to.  Adding
  a message extends the run, sending one drops its first view, a new process
  begins it anew.
* `LspSymbolsProofs`, for all documents and any number of servers: `SymbolsTypeCorrect`,
  `OneRequestAtATime`, `TreeIsOfTheActive`, `OthersKeepTheirCalls`, `TreeKeepsUp`.  They
  speak of the time before a request was cancelled at the wrong server (`strayed`);
  `OneServerIsEnough` says that with one server for all documents that never comes.
  With two it does, and then an answer can fill the tree of another document
  (`FillsOnlyTheActive`, §5).  The invariant adds that ids at a server are fresh and
  start above 1 (0 means no request), that a closed window has no timer, and that a
  request went to the server of its document.  That the tree keeps up needs
  `UpdateIsDue`: while the pane is shown, no request failed and the timer is not due, a tree
  that is not current has a call outstanding, and every such call is for the active
  document at its present text.
* `UndoStackProofs`: of one action, for a text of any length: undoing gives back the text it
  was done to (`UndoGoesBack`), redoing the text it was undone from (`RedoGoesOn`),
  and an action merged from two does what both do, so that undoing it takes back
  both (`MergedIsBoth`): each rests on splitting a text at the position of the action.
  Of the buffer, for any number of actions and groups: `UndoTypeCorrect`,
  `UnmodifiedTextIsSaved`, `ModifierIsTheWayBack`, and `UndoKeepsTheHistory`, that
  `UndoStack` implements `UndoHistory`.  None of these properties is inductive: what undo
  will do is not in the stack alone, but in the texts its actions were made for.
  `UndoInv` therefore says that there is a *line* (`OnLine`): actions A[1] .. A[n] and texts
  T[0] .. T[n], each text made from the one before by the action between them, with
  the buffer at a place c of it; that the groups of the two stacks, with the places B and D
  where they begin and end, cut the line on both sides of c; and that the modifying
  action is on the line with the text of the file on its near side (`Marked`).  Undo and redo
  keep the line and move c.  An edit cuts the line off at c and then appends an
  action to it or, when it is merged, replaces the last one (`EditMoves`): where
  `MayMerge` asks for a modified text, this is what keeps the text of the file on the
  line.  Past and future of `UndoHistory` are the texts at B and D (`PastIs`, `FutureIs`).
  What undo does to a group is a recursive function, so these rest on an induction
  over numbers, `Induction`: the least number outside a set that has 0 and the
  successors of its members would be a contradiction.
* `DocFileProofs`: `DocFileTypeCorrect`, `EventsFindTheirDocument`,
  `NothingUnsavedLooksSaved`.  `WatchTable` is not inductive: the poll holds ids of
  monitors of deleted files and removes them when it ends, so it needs
  `GoneAreNobodys` (such an id is no document's) and `PollOnStack` (there is none
  unless a poll is on the stack, and there is one poll at most, because a source does
  not run on top of itself).
* `DocFileCallsProofs`: `NothingIsLostUnasked`, `WatchedChangesAreDue`.  Both need to know
  what can be on top of what on the stack of calls (`Follows`), because a dialog runs the
  main loop and the main loop runs the poll.  For the first, a call that asks about
  documents has decided about each modified one of them (`Spared`: it will
  be saved, is being saved, or may be lost), and nothing on top of it touches another
  (`Careful`); a document that is being opened is modified by nobody (`Opens`).  For the
  second, a watched file that is not as the document knows it is gone or newer for its
  monitor, so that the next poll sees it, or a call on the stack was told of it and
  has not dealt with it, or is about to watch it anew (`Noticed`).  It says nothing
  of changes that no `stat()` can show (`hidden`), nor of those that a save replaced
  before they were seen: those are lost, and the definitions that say otherwise, `OverwritingIsAsked` and
  `LoadsWhatIsThere`, do not hold (§5).
* `CmdViewProofs`: `CommandTypeCorrect`, `StopReachesEveryCommand`,
  `OutputIsShownBeforeExit`, `CmdViewImplementsCommandOutput`.  The invariant `CommandInvariant` adds `OnePane` (no two
  panes have the same command, without which the end of one would take the job of
  another) and `CommandOK`: only what a pane has is watched; what it has and was waited
  for has no process; a pipe that is not watched any more was read to its end unless
  the command was stopped.  The refinement needs one fact more, `StoppedOK`: a command
  that was stopped was started and has no watch, so that what is read is of a command
  that was not.  The last watch that ends and the exit of the shell are each either
  some lines, or all of them with the end; `check_stop` decides which.
* `AppInputProofs`: `AppInputTypeCorrect`, `NewsAreHandledOnce`, `FilesAreOpenedOnce`,
  `AppInputImplementsFileHandover`.
  The run `appinput` has two broadcasts; the theorems have any number, and any number of processes.
  The invariant adds `HeardOK` (what an instance handled is not newer than the stamp it
  keeps, the reason that a comparison of stamps is enough) and `StampsOK`: the broadcasts
  made and those still to make are within `told`, one that runs or claims a name has
  nothing left to tell, and one that writes to a socket has a stamp to write.  Of the
  files, `FilesInv` says: a process has at most one connection, at all sockets together,
  that is open or carries files, among those accepted and those waiting (`OneLive`);
  files carried are those of a process that has exited and believes they are taken
  there (`Carried`); a process that has not exited has opened its files itself or
  nobody has (`Own`); one that has exited had them opened by its taker, or they
  wait there, or its taker stopped (`Taken`).  A step thins the lines of connections, lets
  one grow by one, writes to one or reads one.
  The refinement adds `Fresh`: a process that has not become an instance has no socket
  and nothing waits at it, so that nothing is lost with one that gives its own files
  away and ends.  Each action of a process then leaves, sends or opens files (`Leaves`,
  `Sends`, `Opens`), and what waits of any other process does not move except at
  the process that acts (`WaitsStay`).

Each is the usual argument: `Init` implies the invariant, every step keeps it (one
lemma per action that disturbs a part), and the invariant implies the property;
the action properties follow from the invariant before the step.

**Only model-checked:** liveness, which rests on fairness and `ENABLED`: `EveryoneIsTold`,
`EverythingIsHeard`, `HandshakeEnds`, `EditsArrive`, `KeepsUp`, `ChangeIsTold`,
`FilesAreOpened`, `CommandEnds`.  Every invariant and every action property of the passing
runs, and all four refinements, are stated by a theorem.  The types of
`LspClient`, `LspSymbols`, `AppInput` and `CmdView` are proved and need no run.

## 5. What is not modelled

* Bytes: the framing of messages, JSON, UTF-16 positions, encodings, how an answer
  becomes rows.
* What a server says on its own ($/progress, diagnostics, workspace edits, logs).
* Two documents with one URI, and matching a document to a configuration.
* The cursor, marks, folds and highlighting of a buffer; the undo stack of a
  one-line entry; an undo made while a user action is open.
* Save as, untitled documents, two documents of one file, the windows documents are
  in; encodings beyond "can be converted or not"; backups.
* `--app-name`, sessions, a message written in parts, process ids that are used
  again, and the list of recent files, which each instance writes without reading it
  again.
* Output filters, the conversion of lines that are not UTF-8, plugins that are
  disabled while they have a job, processes that ignore `SIGHUP`.
* Failures of memory allocation; the widgets.

**Promises the models do not keep.**  These definitions say what a comment or a test
of the repository says.  Each has its place in the module of its component, but is
no property of a run, because TLC finds it violated, with the constants named:

| Definition | With | What happens |
|---|---|---|
| `StdinIsClosed` (`LspClient`) | those of `client` | stdin is closed on top of a write in flight, which fails (`lsp-client.cpp:350`), and stays open |
| `ServerHasTheText` (`LspSync`) | 1 document, 2 processes | a request that waited over a restart is about a text the new process does not have (`lsp-server.cpp:935`) |
| `FailureReachesThePane` (`LspSync`) | 1 document, attached twice | a failure to run the server does not reach the pane when the document is active already (`lsp-server.cpp:1357`) |
| `FillsOnlyTheActive` (`LspSymbols`) | those of `symbols` | an answer, cancelled at the wrong server, fills the tree of another document (`lsp-plugin.cpp:888`) |
| `FilledWhenLookedAt` (`LspSymbols`) | those of `symbols` | a pane opened before its server is ready stays empty (`lsp-plugin.cpp:894`) |
| `OverwritingIsAsked` (`DocFile`) | those of `doc_file` | a save before the next poll overwrites a newer file unasked (`moofilewatch.cpp:523`) |
| `LoadsWhatIsThere` (`DocFile`) | those of `doc_file` | a reload that asks for the encoding loads a text older than what was saved meanwhile (`mooedit-fileops.cpp:243`) |
| `OthersAreTold` (`AppInput`) | those of `appinput`, `Alone = {p2, p3}` | an instance drops a broadcast because it read a later one first (`mooapp-ipc.cpp:325`) |

What the properties of the runs leave out for their sake is written over each: `strayed`
and empty trees in `LspSymbols`, `"stale"` and what waited in the queue in `LspSync`,
`hidden` in `DocFile`, and "once at most" in `AppInput`.

Seen in the code while modelling, and not stated:

* A symbols timer can fire for a pane that is closed, and cancels at a server that is
  `NULL`.
* A call cancelled while `fail_pending_calls()` runs is called back.
* Once `lsp_client_set_sync_writes()` was called a write blocks the only thread
  (`lsp-client.cpp:456`): a server that is itself blocked writing answers, which nobody
  reads then, never reads, and both wait.  The write of `LspClient` always ends.
* A failed server whose process exits is started again while the pane keeps the
  failure; the message about a handshake that timed out is replaced at once; changes
  are dropped during a restart because of the sync kind of the process before, which
  no run has, since the programs of the runs want the same at every start, and which
  the theorems exclude by `OneKind`.
* A monitor whose `stat()` failed stays in the table when its document forgets it.
* A redone insertion puts the cursor by bytes instead of characters.
* Once a shell was waited for, Stop does nothing (`moospawn.cpp:633` is an assertion),
  though what it left in the background keeps the pane; a search that was replaced
  leaves its entry in the list of jobs for ever, so that Stop stays sensitive; and a
  "Find File" while a search runs clears its pane and then stops at
  `moofind.cpp:927`.

## 6. Plan

What comes next, the most important first:

1. `LspCompletion`: the popup, its request and the text typed meanwhile; shares the
   table of calls with `LspSymbols`.
2. `LspEdits`: the order of text edits against a reference definition, over bounded
   inputs; `LspFraming`: any split of a stream into reads gives the same messages;
   positions in UTF-16.  No state; recursive functions and folds.
3. `LineTree`: the balanced tree of lines against a sequence of lines.
4. `Folder`: reading a directory in stages while it changes; the file index of quick
   open against a query that changes.

*Theorems:* how far an edit can reach into the line of `UndoStack` (one action at most,
the last), as a property of its own; a reference definition for whatever of `LspEdits`
is recursive.
