------------------------------ MODULE DocFile ------------------------------
(***************************************************************************)
(* Documents and their files: loading, saving, reloading and closing       *)
(* (mooedit/mooeditor.cpp, mooedit-fileops.cpp), the file watch that polls *)
(* the files every half second (mooutils/moofilewatch.cpp), and the        *)
(* automatic saving of mooedit.cpp, against others who write, delete and   *)
(* create the same files at any time.                                      *)
(*                                                                         *)
(* There is one thread.  What makes it hard is that every question to the  *)
(* user is a dialog that runs the main loop in the middle of the function  *)
(* that asks, so `calls' is the stack of the functions that have begun and *)
(* not returned.  Only the last of them takes steps; while it is a dialog  *)
(* the sources of the main loop (the poll, the saving timers) run on top.  *)
(* Others act between any two steps.                                       *)
(*                                                                         *)
(* Each document has a file of its own.  A text is a number, 0 is no file. *)
(***************************************************************************)
EXTENDS Integers, FiniteSets, Sequences

CONSTANTS
    Docs,          \* the documents
    NoDoc,         \* stands for the document of a call that is about none
    Texts,         \* what a file or a buffer may hold
    MonitorIds,    \* ids of monitors; an id nothing refers to may be given again
    AutoSync,      \* the values of the preference that are explored
    MaxActs,       \* what the user and the others do, and changes made before saving
    MaxFailures,   \* what fails: reading, writing, converting, watching
    MaxDepth,      \* calls under which no saving timer fires
    MaxOrphans     \* timers of one document that its sync_timeout_id has lost

ASSUME DocFileAssumption ==
    /\ IsFiniteSet(Docs) /\ NoDoc \notin Docs
    /\ Texts \subseteq Nat \ {0} /\ Texts # {}
    /\ MonitorIds \subseteq Nat \ {0}
    /\ \E f \in [Docs -> MonitorIds] : \A d, e \in Docs : f[d] = f[e] => d = e
    /\ AutoSync \subseteq BOOLEAN
    /\ MaxActs \in Nat /\ MaxDepth \in Nat /\ MaxFailures \in Nat /\ MaxOrphans \in Nat

VARIABLES
    disk,              \* the files, as they are now
    text,              \* what the buffer of each document holds
    known,             \* the text last read from the file or written to it
    hidden,            \* the file changed in a way no later stat can show
    status,            \* edit->priv->status
    file_monitor_id,   \* edit->priv->file_monitor_id, 0 when there is no watch
    requests,          \* watch->requests: monitors by id
    round,             \* do_stat(): ids still to look at, ids to remove after it
    sync_timeout_id,   \* "none", "armed", or "running": the source being dispatched
    orphans,           \* armed timers that sync_timeout_id does not name any more
    open,              \* documents that are open
    calls,             \* functions that have begun and not returned
    ret,               \* what the last one that returned gave
    auto_sync,         \* the preference "Automatically sync files with disk"
    acts,              \* how many of MaxActs have happened
    failures,          \* how many of MaxFailures have happened
    broken             \* "no", or why nothing is said of the program any more

buffers == <<text, status, sync_timeout_id, orphans, open>>
watch   == <<file_monitor_id, requests, round>>
files   == <<disk, known, hidden>>
vars    == <<disk, text, known, hidden, status, file_monitor_id, requests, round,
             sync_timeout_id, orphans, open, calls, ret, auto_sync, acts, failures, broken>>

\* MooEditStatus.  MOO_EDIT_STATUS_CLEAN is the one that the conditions below look
\* at and no document has: moo_edit_set_clean() is called by nothing.
Flags   == {"MODIFIED", "MODIFIED_ON_DISK", "DELETED", "NEW", "WATCH_FAILED"}
Dialogs == {"reload_dialog", "try_encoding_dialog", "reload_error_dialog",
            "overwrite_dialog", "encoding_dialog", "save_error_dialog",
            "save_changes_dialog"}
Entries == {"open", "opening", "reload", "read", "load_text", "start_watch", "save", "do_save",
            "do_save_utf8", "close", "closing", "do_stat", "file_modified_on_disk",
            "file_deleted", "autosync"}

\* A call: the document it is about, the text it has read, the documents it
\* closes, those of them it still has to save, and those the user was asked about
\* and did not choose to save.
OfNoDoc == {"close", "closing", "save_changes_dialog", "do_stat"}
Frame   == {f \in [op : Entries \cup Dialogs, doc : Docs \cup {NoDoc}, text : Texts \cup {0},
                   docs : SUBSET Docs, save : SUBSET Docs, asked : SUBSET Docs] :
               f.doc = NoDoc <=> f.op \in OfNoDoc}

Monitor == [doc : Docs, newer : BOOLEAN, alive : BOOLEAN]
-----------------------------------------------------------------------------
Call(op, d) == [op |-> op, doc |-> d, text |-> 0, docs |-> {}, save |-> {}, asked |-> {}]

Top   == calls[Len(calls)]
Below == SubSeq(calls, 1, Len(calls) - 1)

\* The user can reach the windows only while no dialog is open.
Idle == broken = "no" /\ calls = <<>>

\* What the main loop dispatches runs on top of a dialog or of nothing.  (A mutant,
\* Idle in its place: a dialog holds back the sources of the main loop.)
MainLoop == broken = "no" /\ (calls # <<>> => Top.op \in Dialogs)

\* The last call is `op', and its document is still there for it.
In(op) ==
    /\ broken = "no" /\ calls # <<>> /\ Top.op = op
    /\ op \notin {"open", "file_deleted", "save_error_dialog"} => Top.doc \in open \cup {NoDoc}

Enter(f)   == calls' = Append(calls, f) /\ UNCHANGED ret
Become(f)  == calls' = Append(Below, f) /\ UNCHANGED ret
\* What is returned to a dialog or to the main loop is not looked at.
Return(r)  ==
    /\ calls' = Below
    /\ ret' = (r \/ Below = <<>> \/ Below[Len(Below)].op \in Dialogs)
Becomes(op) == Become([Top EXCEPT !.op = op])

TextsOf(d) == {disk[d], text[d], known[d]} \cup
              {calls[i].text : i \in {j \in DOMAIN calls : calls[j].doc = d}}
FreshText(d) == CHOOSE t \in Texts : t \notin TextsOf(d)

\* moo_file_watch_cancel_monitor(): the monitor leaves the table and is freed.
Without(id) == [i \in DOMAIN requests \ {id} |-> requests[i]]

\* Nobody holds the id of a monitor that is gone for good.
Held == DOMAIN requests \cup round.ids \cup round.gone \cup
        {file_monitor_id[d] : d \in Docs}

\* A mutant: the counter of ids is used before it is incremented.
FreshIdFromZero == CHOOSE id \in MonitorIds \cup {0} : id \notin Held

\* moo_file_watch_create_monitor(), after the watch before it was cancelled.
FreshId == CHOOSE id \in MonitorIds : id \notin Held

\* changed_cb(): with auto_sync every change of the buffer starts the timer anew.
Armed(d) == IF auto_sync THEN [sync_timeout_id EXCEPT ![d] = "armed"] ELSE sync_timeout_id

\* A mutant: the id is forgotten and the monitor stays.
ForgetWatch(d) ==
    /\ file_monitor_id' = [file_monitor_id EXCEPT ![d] = 0]
    /\ UNCHANGED <<requests, round>>

\* _moo_edit_stop_file_watch()
StopWatch(d) ==
    /\ requests' = Without(file_monitor_id[d])
    /\ file_monitor_id' = [file_monitor_id EXCEPT ![d] = 0]
    /\ UNCHANGED round
-----------------------------------------------------------------------------
\* Every document was opened, read and is watched.
Init ==
    LET first == CHOOSE t \in Texts : TRUE
        ids   == CHOOSE f \in [Docs -> MonitorIds] : \A d, e \in Docs : f[d] = f[e] => d = e
    IN
    /\ disk = [d \in Docs |-> first]
    /\ text = disk /\ known = disk
    /\ hidden = [d \in Docs |-> FALSE]
    /\ status = [d \in Docs |-> {}]
    /\ file_monitor_id = ids
    /\ requests = [i \in {ids[d] : d \in Docs} |->
                     [doc |-> CHOOSE d \in Docs : ids[d] = i, newer |-> FALSE, alive |-> TRUE]]
    /\ round = [ids |-> {}, gone |-> {}]
    /\ sync_timeout_id = [d \in Docs |-> "none"]
    /\ orphans = [d \in Docs |-> 0]
    /\ open = Docs
    /\ calls = <<>>
    /\ ret = TRUE
    /\ auto_sync \in AutoSync
    /\ acts = 0 /\ failures = 0
    /\ broken = "no"

\* Something the program does not do by itself.
Act == acts < MaxActs /\ acts' = acts + 1

\* Something fails, or does not.
Fails == failures < MaxFailures /\ failures' = failures + 1
Works == UNCHANGED failures

(***************************************************************************)
(* The others.  A file written again may have the time it had: times are   *)
(* whole seconds, and a copy may keep an old one (`later' is FALSE).       *)
(***************************************************************************)
WrittenByOthers(d, later) ==
    /\ broken = "no"
    /\ Act
    /\ Texts \ TextsOf(d) # {}
    /\ disk' = [disk EXCEPT ![d] = FreshText(d)]
    /\ hidden' = [hidden EXCEPT ![d] = @ \/ ~later]
    /\ requests' = [i \in DOMAIN requests |->
                       IF requests[i].doc = d /\ later
                       THEN [requests[i] EXCEPT !.newer = TRUE] ELSE requests[i]]
    /\ UNCHANGED <<known, buffers, file_monitor_id, round, calls, ret, auto_sync, failures, broken>>

DeletedByOthers(d) ==
    /\ broken = "no" /\ disk[d] # 0
    /\ Act
    /\ disk' = [disk EXCEPT ![d] = 0]
    /\ UNCHANGED <<known, hidden, buffers, watch, calls, ret, auto_sync, failures, broken>>
-----------------------------------------------------------------------------
(***************************************************************************)
(* Commands of the user.                                                   *)
(***************************************************************************)

\* The user types, in one view or another.
Typed(d) ==
    /\ Idle /\ d \in open
    /\ Act
    /\ Texts \ TextsOf(d) # {}
    /\ text' = [text EXCEPT ![d] = FreshText(d)]
    /\ status' = [status EXCEPT ![d] = @ \cup {"MODIFIED"}]
    /\ sync_timeout_id' = Armed(d)
    /\ UNCHANGED <<files, orphans, open, watch, calls, ret, auto_sync, failures, broken>>

\* File/Open, File/Save, File/Reload, and closing documents or a window.  The
\* document `d' is a new one each time: nothing of the one before is left.
Commands ==
    /\ Idle
    /\ Act
    /\ \/ \E d \in Docs \ open : orphans[d] = 0 /\ Enter(Call("open", d))
       \/ \E d \in open : Enter(Call("save", d)) \/ Enter(Call("reload", d))
       \/ \E ds \in SUBSET open \ {{}} : Enter([Call("close", NoDoc) EXCEPT !.docs = ds])
    /\ UNCHANGED <<files, buffers, watch, auto_sync, failures, broken>>

\* moo_editor_load_file() of a file that is not open.  A name that does not exist
\* yet gives a document bound to that name, with no watch.
moo_editor_load_file ==
    /\ In("open")
    /\ LET d == Top.doc IN
       /\ open' = open \cup {d}
       /\ text' = [text EXCEPT ![d] = 0]
       /\ known' = [known EXCEPT ![d] = 0]
       /\ \/ /\ disk[d] = 0
             /\ status' = [status EXCEPT ![d] = {"NEW"}]
             /\ Return(TRUE)
          \/ /\ status' = [status EXCEPT ![d] = {}]
             /\ calls' = Append(Append(Below, Call("opening", d)), Call("read", d))
             /\ UNCHANGED ret
    /\ UNCHANGED <<disk, hidden, sync_timeout_id, orphans, watch, auto_sync, acts, failures, broken>>

\* _moo_edit_closed(): the watch is cancelled, and the timer sync_timeout_id names.
Closed(ds) ==
    /\ open' = open \ ds
    /\ requests' = [i \in DOMAIN requests \ {file_monitor_id[d] : d \in ds} |-> requests[i]]
    /\ file_monitor_id' = [d \in Docs |-> IF d \in ds THEN 0 ELSE file_monitor_id[d]]
    /\ sync_timeout_id' = [d \in Docs |-> IF d \in ds THEN "none" ELSE sync_timeout_id[d]]
    /\ UNCHANGED round

\* ... and its end: a document that could not be loaded goes away again.
moo_editor_load_file_end ==
    /\ In("opening")
    /\ IF ret THEN UNCHANGED <<open, sync_timeout_id, watch>> ELSE Closed({Top.doc})
    /\ Return(ret)
    /\ UNCHANGED <<files, text, status, orphans, auto_sync, acts, failures, broken>>
-----------------------------------------------------------------------------
(***************************************************************************)
(* Loading and reloading.                                                  *)
(***************************************************************************)

\* moo_editor_reload(): changes not saved are asked about.
moo_editor_reload ==
    /\ In("reload")
    /\ Becomes(IF "CLEAN" \notin status[Top.doc] /\ "MODIFIED" \in status[Top.doc]
               THEN "reload_dialog" ELSE "read")
    /\ UNCHANGED <<files, buffers, watch, auto_sync, acts, failures, broken>>

reload_dialog ==
    /\ In("reload_dialog")
    /\ Becomes("read") \/ Return(FALSE)
    /\ UNCHANGED <<files, buffers, watch, auto_sync, acts, failures, broken>>

\* _moo_edit_load_file(): reads the file; may have to ask for its encoding.  If it
\* cannot be read the watch is stopped, whatever the document held before.
_moo_edit_load_file ==
    /\ In("read")
    /\ LET d == Top.doc IN
       \/ /\ disk[d] # 0
          /\ \/ Works /\ Become([Top EXCEPT !.op = "load_text", !.text = disk[d]])
             \/ Fails /\ Become([Top EXCEPT !.op = "try_encoding_dialog", !.text = disk[d]])
          /\ UNCHANGED watch
       \/ /\ IF disk[d] = 0 THEN Works ELSE Fails
          /\ StopWatch(d)
          /\ Becomes("reload_error_dialog")
    /\ UNCHANGED <<files, buffers, auto_sync, acts, broken>>

try_encoding_dialog ==
    /\ In("try_encoding_dialog")
    /\ \/ Becomes("load_text") /\ UNCHANGED watch
       \/ Return(FALSE) /\ StopWatch(Top.doc)
    /\ UNCHANGED <<files, buffers, auto_sync, acts, failures, broken>>

\* moo_edit_load_text(), up to the new watch; the timer changed_cb() starts will
\* find nothing modified.
moo_edit_load_text ==
    /\ In("load_text")
    /\ LET d == Top.doc IN
       /\ text' = [text EXCEPT ![d] = Top.text]
       /\ known' = [known EXCEPT ![d] = Top.text]
       /\ status' = [status EXCEPT ![d] = {}]
       /\ sync_timeout_id' = Armed(d)
    /\ Becomes("start_watch")
    /\ UNCHANGED <<disk, hidden, orphans, open, watch, auto_sync, acts, failures, broken>>

\* _moo_edit_start_file_watch(), the end of both loading and saving.  What the file
\* was written over with since it was read or written is older than the monitor.
_moo_edit_start_file_watch ==
    /\ In("start_watch")
    /\ LET d == Top.doc
           others == Without(file_monitor_id[d])
       IN \/ /\ disk[d] # 0 /\ Works
             /\ MonitorIds \ Held # {}
             /\ file_monitor_id' = [file_monitor_id EXCEPT ![d] = FreshId]
             /\ requests' = [i \in DOMAIN others \cup {FreshId} |->
                                IF i = FreshId THEN [doc |-> d, newer |-> FALSE, alive |-> TRUE]
                                ELSE others[i]]
             /\ status' = [status EXCEPT ![d] = @ \ {"WATCH_FAILED"}]
             /\ hidden' = [hidden EXCEPT ![d] = disk[d] # known[d]]
             /\ UNCHANGED round
          \/ /\ IF disk[d] = 0 THEN Works ELSE Fails
             /\ StopWatch(d)
             /\ status' = [status EXCEPT ![d] = @ \cup {"WATCH_FAILED"}]
             /\ UNCHANGED hidden
    /\ Return(TRUE)
    /\ UNCHANGED <<disk, known, text, sync_timeout_id, orphans, open, auto_sync, acts, broken>>

reload_error_dialog ==
    /\ In("reload_error_dialog")
    /\ Return(FALSE)
    /\ UNCHANGED <<files, buffers, watch, auto_sync, acts, failures, broken>>
-----------------------------------------------------------------------------
(***************************************************************************)
(* Saving.                                                                 *)
(***************************************************************************)

\* moo_editor_save(): what is marked as modified on disk is asked about.
moo_editor_save ==
    /\ In("save")
    /\ Becomes(IF "MODIFIED_ON_DISK" \in status[Top.doc] THEN "overwrite_dialog" ELSE "do_save")
    /\ UNCHANGED <<files, buffers, watch, auto_sync, acts, failures, broken>>

overwrite_dialog ==
    /\ In("overwrite_dialog")
    /\ \/ Become([Top EXCEPT !.op = "do_save", !.asked = {Top.doc}])
       \/ Return(FALSE)
    /\ UNCHANGED <<files, buffers, watch, auto_sync, acts, failures, broken>>

\* A mutant: the text is taken before "will-save" changes it.
SavedAsItWas(d, t) ==
    /\ disk' = [disk EXCEPT ![d] = text[d]]
    /\ known' = [known EXCEPT ![d] = text[d]]
    /\ status' = [status EXCEPT ![d] = {}]
    /\ Becomes("start_watch")
    /\ Works /\ UNCHANGED <<hidden, broken>>

\* moo_edit_save_local() of text `t', done: the file is written at once, since
\* g_file_replace() writes another one and renames it.
Saved(d, t) ==
    /\ disk' = [disk EXCEPT ![d] = t]
    /\ known' = [known EXCEPT ![d] = t]
    /\ status' = [status EXCEPT ![d] = {}]
    /\ Becomes("start_watch")
    /\ Works /\ UNCHANGED <<hidden, broken>>

\* ... not done.  An error of g_file_replace() or of closing the stream is shown.
\* One of writing is not even reported: moo_file_writer_write() keeps it, do_write()
\* never asks for it, and do_save() looks into the error that is not there.
NotSaved ==
    /\ Fails
    /\ \/ Becomes("save_error_dialog") /\ UNCHANGED broken
       \/ broken' = "write_error" /\ UNCHANGED <<calls, ret>>
    /\ UNCHANGED files

\* The text has characters that the encoding of the document has not.
NotConverted == Fails /\ Becomes("encoding_dialog") /\ UNCHANGED <<files, broken>>

\* do_save(): "will-save" may strip blanks or add a newline first, which is a change
\* of the buffer like any other.
do_save ==
    /\ In("do_save")
    /\ LET d == Top.doc IN
       \/ /\ UNCHANGED <<text, sync_timeout_id, acts>>
          /\ \/ Saved(d, text[d])
             \/ UNCHANGED status /\ NotSaved
             \/ UNCHANGED status /\ NotConverted
       \/ /\ Act /\ Texts \ TextsOf(d) # {}
          /\ text' = [text EXCEPT ![d] = FreshText(d)]
          /\ sync_timeout_id' = Armed(d)
          /\ \/ Saved(d, FreshText(d))
             \/ /\ status' = [status EXCEPT ![d] = @ \cup {"MODIFIED"}]
                /\ NotSaved \/ NotConverted
    /\ UNCHANGED <<orphans, open, watch, auto_sync>>

\* _moo_edit_save_error_enc_dialog(): save as UTF-8 instead?
encoding_dialog ==
    /\ In("encoding_dialog")
    /\ Becomes("do_save_utf8") \/ Return(FALSE)
    /\ UNCHANGED <<files, buffers, watch, auto_sync, acts, failures, broken>>

do_save_utf8 ==
    /\ In("do_save_utf8")
    /\ \/ Saved(Top.doc, text[Top.doc])
       \/ NotSaved /\ UNCHANGED status
    /\ UNCHANGED <<text, sync_timeout_id, orphans, open, watch, auto_sync, acts>>

save_error_dialog ==
    /\ In("save_error_dialog")
    /\ Return(FALSE)
    /\ UNCHANGED <<files, buffers, watch, auto_sync, acts, failures, broken>>
-----------------------------------------------------------------------------
(***************************************************************************)
(* The saving timer of a document.                                         *)
(***************************************************************************)

\* At its end autosync_callback() forgets the timer sync_timeout_id names: its own,
\* or one that a change in the meantime has started.
Forgot(d) ==
    /\ sync_timeout_id' = [sync_timeout_id EXCEPT ![d] = "none"]
    /\ orphans' = [orphans EXCEPT ![d] = @ + (IF sync_timeout_id[d] = "armed" THEN 1 ELSE 0)]

\* The source `src' of the timer is dispatched: the one sync_timeout_id names, or
\* one it has lost.
Dispatched(d, src) ==
    /\ MainLoop
    /\ IF src = "named"
       THEN /\ sync_timeout_id[d] = "armed"
            /\ sync_timeout_id' = [sync_timeout_id EXCEPT ![d] = "running"]
            /\ UNCHANGED orphans
       ELSE /\ orphans[d] > 0
            /\ orphans' = [orphans EXCEPT ![d] = @ - 1]
            /\ UNCHANGED sync_timeout_id
    /\ IF d \notin open
       THEN broken' = "lost_timer" /\ UNCHANGED <<calls, ret>>
       ELSE /\ Len(calls) < MaxDepth
            /\ orphans[d] < MaxOrphans
            /\ calls' = calls \o <<Call("autosync", d)>> \o
                        (IF "MODIFIED" \in status[d] THEN <<Call("save", d)>> ELSE <<>>)
            /\ UNCHANGED <<ret, broken>>
    /\ UNCHANGED <<files, text, status, open, watch, auto_sync, acts, failures>>

autosync_callback_end ==
    /\ In("autosync")
    /\ Forgot(Top.doc)
    /\ Return(ret)
    /\ UNCHANGED <<files, text, status, open, watch, auto_sync, acts, failures, broken>>
-----------------------------------------------------------------------------
(***************************************************************************)
(* Closing.                                                                *)
(***************************************************************************)
find_modified(ds) == {d \in ds : "MODIFIED" \in status[d] /\ "CLEAN" \notin status[d]}

\* do_close_doc() of each.  It asserts that the document is in a window, or among
\* those without one.
CloseAll(ds) ==
    IF ds \subseteq open
    THEN Closed(ds) /\ Return(TRUE) /\ UNCHANGED broken
    ELSE broken' = "closed_document" /\ UNCHANGED <<open, watch, sync_timeout_id, calls, ret>>

\* close_docs_real(): nothing modified, or a question.
close_docs_real ==
    /\ In("close")
    /\ LET modified == find_modified(Top.docs) IN
       IF modified = {}
       THEN CloseAll(Top.docs)
       ELSE /\ Become([Top EXCEPT !.op = "save_changes_dialog", !.asked = modified])
            /\ UNCHANGED <<open, watch, sync_timeout_id, broken>>
    /\ UNCHANGED <<files, text, status, orphans, auto_sync, acts, failures>>

\* Cancel, discard, or save: one document, or those of several that are ticked.
save_changes_dialog ==
    /\ In("save_changes_dialog")
    /\ \/ Return(FALSE) /\ UNCHANGED <<open, watch, sync_timeout_id, broken>>
       \/ CloseAll(Top.docs)
       \/ /\ \E ticked \in SUBSET Top.asked :
                /\ Cardinality(Top.asked) = 1 => ticked = Top.asked
                /\ calls' = Append(Below, [Top EXCEPT !.op = "closing", !.save = ticked,
                                                           !.asked = @ \ ticked])
          /\ ret' = TRUE
          /\ UNCHANGED <<open, watch, sync_timeout_id, broken>>
    /\ UNCHANGED <<files, text, status, orphans, auto_sync, acts, failures>>

\* A mutant: what is not saved is closed all the same.
NeverMind == FALSE

\* The document saved last, if any, was not saved.
SaveFailed == ~ret

\* The next of them is saved, unless the one before was not.
close_docs_real_saving ==
    /\ In("closing")
    /\ IF SaveFailed
       THEN Return(FALSE) /\ UNCHANGED <<open, watch, sync_timeout_id, broken>>
       ELSE IF Top.save = {}
       THEN CloseAll(Top.docs)
       ELSE /\ \E d \in Top.save :
                 calls' = Append(Append(Below, [Top EXCEPT !.save = @ \ {d}]), Call("save", d))
            /\ UNCHANGED <<ret, open, watch, sync_timeout_id, broken>>
    /\ UNCHANGED <<files, text, status, orphans, auto_sync, acts, failures>>
-----------------------------------------------------------------------------
(***************************************************************************)
(* The file watch.                                                         *)
(***************************************************************************)

\* What a stat() of the file can show of a monitor.  A poll that shows nothing
\* changes nothing, and is left out.
ToBeSeen(m) == m.alive /\ (disk[m.doc] = 0 \/ m.newer \/ failures < MaxFailures)

\* The timer of the watch.  Its source does not run on top of itself.
do_stat ==
    /\ MainLoop
    /\ \A i \in DOMAIN calls : calls[i].op # "do_stat"
    /\ \E i \in DOMAIN requests : ToBeSeen(requests[i])
    /\ round' = [ids |-> DOMAIN requests, gone |-> {}]
    /\ Enter(Call("do_stat", NoDoc))
    /\ UNCHANGED <<files, buffers, file_monitor_id, requests, auto_sync, acts, failures, broken>>

\* file_modified_on_disk() and file_deleted(), when there is nothing to try or it
\* has failed: the watch is stopped, and the document says why.
Marked(d, flag, reqs, ids) ==
    /\ requests' = [i \in DOMAIN reqs \ {ids[d]} |-> reqs[i]]
    /\ file_monitor_id' = [ids EXCEPT ![d] = 0]
    /\ status' = [status EXCEPT ![d] = @ \cup {flag}]

\* file_watch_callback(), check_file_status(): `reqs' and `ids' are the table and
\* the ids of the documents as the event left them.
Event(d, flag, callback, callee, reqs, ids) ==
    IF auto_sync
    THEN /\ requests' = reqs /\ file_monitor_id' = ids
         /\ calls' = calls \o <<Call(callback, d), callee>>
         /\ UNCHANGED <<status, ret>>
    ELSE Marked(d, flag, reqs, ids) /\ UNCHANGED <<calls, ret>>

\* One id of the round is looked at: the file is gone, cannot be looked at, has a
\* newer time, or has not changed; a monitor that is gone or dead is skipped.
do_stat_one(id) ==
    /\ In("do_stat") /\ id \in round.ids
    /\ LET watched == id \in DOMAIN requests /\ requests[id].alive
           d       == requests[id].doc
           zeroed  == [file_monitor_id EXCEPT ![d] = 0]
           reload  == Call("reload", d)
           close   == [Call("close", NoDoc) EXCEPT !.docs = {d}]
       IN \/ /\ watched /\ disk[d] = 0 /\ Works
             /\ round' = [ids |-> round.ids \ {id}, gone |-> round.gone \cup {id}]
             /\ Event(d, "DELETED", "file_deleted", close, requests, zeroed)
          \/ /\ watched /\ disk[d] # 0 /\ Fails
             /\ round' = [round EXCEPT !.ids = @ \ {id}]
             /\ Event(d, "MODIFIED_ON_DISK", "file_modified_on_disk", reload,
                      [requests EXCEPT ![id].alive = FALSE], zeroed)
          \/ /\ watched /\ disk[d] # 0 /\ requests[id].newer /\ Works
             /\ round' = [round EXCEPT !.ids = @ \ {id}]
             /\ Event(d, "MODIFIED_ON_DISK", "file_modified_on_disk", reload,
                      [requests EXCEPT ![id].newer = FALSE], file_monitor_id)
          \/ /\ watched => disk[d] # 0 /\ ~requests[id].newer
             /\ Works
             /\ round' = [round EXCEPT !.ids = @ \ {id}]
             /\ UNCHANGED <<status, requests, file_monitor_id, calls, ret>>
    /\ UNCHANGED <<files, text, sync_timeout_id, orphans, open, auto_sync, acts, broken>>

\* Monitors of deleted files are removed, if nobody did meanwhile.
do_stat_end ==
    /\ In("do_stat") /\ round.ids = {}
    /\ requests' = [i \in DOMAIN requests \ round.gone |-> requests[i]]
    /\ round' = [ids |-> {}, gone |-> {}]
    /\ Return(ret)
    /\ UNCHANGED <<files, buffers, file_monitor_id, auto_sync, acts, failures, broken>>

\* A mutant: a document that was not reloaded or closed is left as it is.
TriedAnyway(flag) == UNCHANGED <<status, requests, file_monitor_id>>

\* What they tried worked, or the document is marked.
Tried(flag) == IF ret THEN UNCHANGED <<status, requests, file_monitor_id>>
                      ELSE Marked(Top.doc, flag, requests, file_monitor_id)

file_modified_on_disk ==
    /\ In("file_modified_on_disk")
    /\ Tried("MODIFIED_ON_DISK")
    /\ Return(ret)
    /\ UNCHANGED <<files, text, sync_timeout_id, orphans, open, round, auto_sync, acts, failures, broken>>

file_deleted ==
    /\ In("file_deleted")
    /\ Tried("DELETED")
    /\ Return(ret)
    /\ UNCHANGED <<files, text, sync_timeout_id, orphans, open, round, auto_sync, acts, failures, broken>>

\* A function goes on with the document it was called for, which was closed while
\* it asked: reload, save, the end of the timer's callback.
GoesOnWithAClosed ==
    /\ broken = "no" /\ calls # <<>>
    /\ Top.doc \notin open \cup {NoDoc}
    /\ Top.op \notin {"open", "file_deleted", "save_error_dialog"}
    /\ broken' = "closed_document"
    /\ UNCHANGED <<files, buffers, watch, calls, ret, auto_sync, acts, failures>>
-----------------------------------------------------------------------------
Answer == reload_dialog \/ try_encoding_dialog \/ reload_error_dialog \/ overwrite_dialog
          \/ encoding_dialog \/ save_error_dialog \/ save_changes_dialog

\* Everything that goes on without anybody outside.
Program ==
    \/ moo_editor_load_file \/ moo_editor_load_file_end
    \/ moo_editor_reload \/ _moo_edit_load_file \/ moo_edit_load_text
    \/ _moo_edit_start_file_watch
    \/ moo_editor_save \/ do_save \/ do_save_utf8 \/ autosync_callback_end
    \/ close_docs_real \/ close_docs_real_saving
    \/ (\E id \in MonitorIds : do_stat_one(id))
    \/ do_stat_end \/ file_modified_on_disk \/ file_deleted
    \/ GoesOnWithAClosed

Next ==
    \/ \E d \in Docs : Typed(d) \/ DeletedByOthers(d)
    \/ \E d \in Docs, later \in BOOLEAN : WrittenByOthers(d, later)
    \/ \E d \in Docs, src \in {"named", "lost"} : Dispatched(d, src)
    \/ Commands \/ Answer \/ Program \/ do_stat

\* The main loop dispatches its sources, and functions return.  Nothing is assumed
\* of the user, who need not answer, nor of the others.
Fairness == WF_vars(Program) /\ WF_vars(do_stat)

Spec == Init /\ [][Next]_vars /\ Fairness
-----------------------------------------------------------------------------
TypeOK ==
    /\ disk \in [Docs -> Texts \cup {0}]
    /\ text \in [Docs -> Texts \cup {0}]
    /\ known \in [Docs -> Texts \cup {0}]
    /\ hidden \in [Docs -> BOOLEAN]
    /\ status \in [Docs -> SUBSET Flags]
    /\ file_monitor_id \in [Docs -> MonitorIds \cup {0}]
    /\ requests \in [DOMAIN requests -> Monitor] /\ DOMAIN requests \subseteq MonitorIds
    /\ round \in [ids : SUBSET MonitorIds, gone : SUBSET MonitorIds]
    /\ sync_timeout_id \in [Docs -> {"none", "armed", "running"}]
    /\ orphans \in [Docs -> Nat]
    /\ open \subseteq Docs
    /\ calls \in Seq(Frame)
    /\ ret \in BOOLEAN
    /\ auto_sync \in BOOLEAN
    /\ acts \in 0..MaxActs /\ failures \in 0..MaxFailures
    /\ broken \in {"no", "write_error", "closed_document", "lost_timer"}

(***************************************************************************)
(* An event reaches the document it is for: a document's monitor is in the *)
(* table, lives, and is its own; and a monitor that can still report       *)
(* anything is the one its document, which is open, knows.  Otherwise      *)
(* file_watch_callback() would run for a freed document, and cancelling    *)
(* would remove another's monitor.  Monitors are cancelled and made by     *)
(* reloads, saves and closes that run inside do_stat().                    *)
(***************************************************************************)
WatchTable ==
    /\ \A d \in Docs : file_monitor_id[d] # 0 =>
          /\ d \in open
          /\ file_monitor_id[d] \in DOMAIN requests
          /\ requests[file_monitor_id[d]].doc = d
          /\ requests[file_monitor_id[d]].alive
    /\ \A i \in DOMAIN requests :
          requests[i].alive /\ i \notin round.gone =>
             /\ requests[i].doc \in open
             /\ file_monitor_id[requests[i].doc] = i

\* The event about the document is being handled.
BeingTold(d) == \E i \in DOMAIN calls :
    calls[i].doc = d /\ calls[i].op \in {"file_modified_on_disk", "file_deleted"}

\* Its text was read or written, and a new watch follows.
BeingRead(d) == \E i \in DOMAIN calls :
    calls[i].doc = d /\ calls[i].op = "start_watch"

(***************************************************************************)
(* What a monitor is to report, it reports, and what it has reported is    *)
(* acted on: a watched file that is not what the document read or wrote    *)
(* last is seen by the next look at it, or an event about it is being      *)
(* handled, or a text of it has just been read or written.  Reloads that   *)
(* the user declines and closes that do not happen leave no document       *)
(* watched by a monitor that has nothing more to say                       *)
(* (mooedit-fileops.cpp:950-992).                                          *)
(*                                                                         *)
(* Nothing is said of the changes that no stat() can show (`hidden'): one  *)
(* that has not a later time, and one made after the text was read or      *)
(* written and before the new monitor has looked at the file, where a      *)
(* dialog about the encoding may be open; nor of one that the document's   *)
(* own save has replaced, after which the file is what was written last.   *)
(* OverwritingIsAsked and LoadsWhatIsThere are about those.                *)
(***************************************************************************)
WatchedChangeIsDue ==
    \A d \in open :
        broken = "no" /\ file_monitor_id[d] # 0 /\ disk[d] # known[d] /\ ~hidden[d] =>
            \/ disk[d] = 0
            \/ requests[file_monitor_id[d]].newer
            \/ BeingTold(d) \/ BeingRead(d)

\* A save of `d' is writing its file.
Writes(d) == (do_save \/ do_save_utf8) /\ Top.doc = d /\ disk'[d] # disk[d]

(***************************************************************************)
(* "Saving over a file that changed on disk asks first."                   *)
(* (tests/file/overwrite_modified/test.py:1): a save writes over a text    *)
(* that the document did not read or write only after the user was asked.  *)
(* It does not hold: before the next poll, or within a second, nobody asks.*)
(***************************************************************************)
OverwritingIsAsked ==
    [][\A d \in Docs : Writes(d) /\ disk[d] \notin {0, known[d]} => Top.asked = {d}]_vars

(***************************************************************************)
(* "after Reload the document has to hold what the file now holds, not     *)
(* what it held when it was opened" (tests/file/reload/test.py:11-12),     *)
(* unless others have changed the file since the program read or wrote it: *)
(* what it reads into a document is not older than what it has written     *)
(* itself in the meantime.  It does not hold: the saving timer can run in  *)
(* the dialog about the encoding, after the file was read.                 *)
(***************************************************************************)
LoadsWhatIsThere ==
    In("load_text") /\ disk[Top.doc] = known[Top.doc] /\ disk[Top.doc] # 0
        => Top.text = disk[Top.doc]

(***************************************************************************)
(* A document not shown as modified holds what was read from its file or   *)
(* written to it: a save that failed, or did not happen, leaves it         *)
(* modified, also when "will-save" changed the buffer on the way.          *)
(***************************************************************************)
UnmodifiedIsKnown ==
    \A d \in open : broken = "no" /\ "MODIFIED" \notin status[d] => text[d] = known[d]

(***************************************************************************)
(* Changes are lost by closing only as the user said: by "discard", or by  *)
(* not ticking the document.  What was ticked is saved before anything is  *)
(* closed, and a save that failed closes nothing.                          *)
(***************************************************************************)
LostOnlyAsAsked ==
    [][\A d \in open \ open' : "MODIFIED" \in status[d] => calls # <<>> /\ d \in Top.asked]_vars

\* The poll has brought up a dialog, which is not answered.
PollAsks == \E i, j \in DOMAIN calls :
    i < j /\ calls[i].op = "do_stat" /\ calls[j].op \in Dialogs

\* The file of a watched document is gone or has a newer time, or the poll has seen
\* that and has not finished with the document.
Untold(d) ==
    /\ broken = "no" /\ d \in open
    /\ \/ file_monitor_id[d] # 0 /\ (disk[d] = 0 \/ requests[file_monitor_id[d]].newer)
       \/ BeingTold(d)

(***************************************************************************)
(* What can be seen does not stay unseen, also while a dialog is open that *)
(* the user never answers: the document is marked, reloaded or closed, if  *)
(* it was not saved, or reloaded or closed by the user before; or its      *)
(* watch is given up with an error that is shown.  The exception is a      *)
(* dialog that the poll itself has brought up: until that is answered no   *)
(* file is looked at (mooedit-fileops.cpp:966, moofilewatch.cpp:531).      *)
(***************************************************************************)
ChangeIsTold == \A d \in Docs : Untold(d) ~> (~Untold(d) \/ PollAsks)

(***************************************************************************)
(* "If the timer is already running, it is cancelled and started anew",    *)
(* mooedit.cpp:573: a document has one saving timer, which _moo_edit_closed*)
(* cancels, and so no timer fires for a document that is closed.           *)
(***************************************************************************)
OneTimer == broken # "lost_timer"
=============================================================================
