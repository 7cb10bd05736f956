--------------------------- MODULE DocFileProofs ---------------------------
(***************************************************************************)
(* Proofs about DocFile, for every set of documents and every bound: the   *)
(* types, and that an event of the file watch reaches the document it is   *)
(* for and no other.  What the second needs beside it: the monitors the    *)
(* poll will remove at its end (round.gone) are nobody's, and there are    *)
(* none unless a poll is on the stack.                                     *)
(***************************************************************************)
EXTENDS DocFile, SequenceTheorems, TLAPS

USE DEF buffers, watch, files

-----------------------------------------------------------------------------
(* The stack of calls *)

\* A stack has a poll in it.
HasPoll(s) == \E i \in DOMAIN s : s[i].op = "do_stat"

LEMMA TopAndBelow ==
    ASSUME calls \in Seq(Frame), calls # <<>>
    PROVE  /\ Top \in Frame
           /\ Below \in Seq(Frame)
           /\ Top.op # "do_stat" /\ HasPoll(calls) => HasPoll(Below)
<1>1. Len(calls) \in Nat \ {0} /\ Len(calls) \in DOMAIN calls
  OBVIOUS
<1>2. Top \in Frame
  BY <1>1 DEF Top
<1>3. Below \in Seq(Frame) /\ Len(Below) = Len(calls) - 1
      /\ \A i \in 1 .. Len(calls) - 1 : Below[i] = calls[i]
  <2> DEFINE n == Len(calls) - 1
  <2>1. n \in Nat /\ n \in Int /\ 1 \in Int /\ \A i \in 1 .. n : calls[i] \in Frame
    BY <1>1
  <2>2. Below = SubSeq(calls, 1, n)
    BY DEF Below
  <2> HIDE DEF n
  <2>3. /\ SubSeq(calls, 1, n) \in Seq(Frame)
        /\ Len(SubSeq(calls, 1, n)) = IF 1 <= n THEN n - 1 + 1 ELSE 0
        /\ \A i \in 1 .. n - 1 + 1 : SubSeq(calls, 1, n)[i] = calls[1 + i - 1]
    BY <2>1, SubSeqProperties
  <2>4. Below \in Seq(Frame) /\ Len(Below) = n /\ \A i \in 1 .. n : Below[i] = calls[i]
    BY <2>1, <2>2, <2>3
  <2> QED
    BY <2>4 DEF n
<1>4. ASSUME Top.op # "do_stat", HasPoll(calls) PROVE HasPoll(Below)
  <2>1. PICK i \in DOMAIN calls : calls[i].op = "do_stat"
    BY <1>4 DEF HasPoll
  <2>2. i \in 1 .. Len(calls) - 1
    BY <2>1, <1>4, <1>1 DEF Top
  <2> QED
    BY <2>1, <2>2, <1>3 DEF HasPoll
<1> QED
  BY <1>2, <1>3, <1>4

LEMMA Pushed ==
    ASSUME NEW s \in Seq(Frame), NEW f \in Frame
    PROVE  /\ Append(s, f) \in Seq(Frame)
           /\ HasPoll(s) => HasPoll(Append(s, f))
           /\ f.op = "do_stat" => HasPoll(Append(s, f))
<1>1. Append(s, f) \in Seq(Frame) /\ Len(Append(s, f)) = Len(s) + 1
  OBVIOUS
<1>2. \A i \in 1 .. Len(s) : Append(s, f)[i] = s[i]
  OBVIOUS
<1>3. Append(s, f)[Len(s) + 1] = f
  OBVIOUS
<1> QED
  BY <1>1, <1>2, <1>3 DEF HasPoll

LEMMA PushedTwo ==
    ASSUME NEW s \in Seq(Frame), NEW f \in Frame, NEW g \in Frame
    PROVE  /\ s \o <<f, g>> \in Seq(Frame) /\ s \o <<f>> \o <<g>> \in Seq(Frame)
           /\ s \o <<f>> \in Seq(Frame) /\ s \o <<f>> \o <<>> \in Seq(Frame)
           /\ HasPoll(s) => /\ HasPoll(s \o <<f, g>>)
                            /\ HasPoll(s \o <<f>> \o <<g>>)
                            /\ HasPoll(s \o <<f>> \o <<>>)
<1>1. s \o <<f, g>> = Append(Append(s, f), g)
  OBVIOUS
<1>2. s \o <<f>> = Append(s, f)
  OBVIOUS
<1>3. Append(s, f) \o <<g>> = Append(Append(s, f), g) /\ Append(s, f) \o <<>> = Append(s, f)
  BY Pushed
<1> QED
  BY <1>1, <1>2, <1>3, Pushed

LEMMA NewCalls ==
    ASSUME NEW d \in Docs, NEW op \in Entries \ OfNoDoc
    PROVE  Call(op, d) \in Frame
BY DocFileAssumption DEF Call, Frame

LEMMA NewBatches ==
    ASSUME NEW ds \in SUBSET Docs
    PROVE  /\ [Call("close", NoDoc) EXCEPT !.docs = ds] \in Frame
           /\ Call("do_stat", NoDoc) \in Frame
BY DocFileAssumption DEF Call, Frame, OfNoDoc, Entries

\* A call goes on as another of its kind.
LEMMA GoesOnAs ==
    ASSUME NEW f \in Frame, NEW op \in Entries \cup Dialogs, f.op \in OfNoDoc <=> op \in OfNoDoc
    PROVE  /\ [f EXCEPT !.op = op] \in Frame
           /\ \A t \in Texts \cup {0} : [f EXCEPT !.op = op, !.text = t] \in Frame
           /\ \A ds \in SUBSET Docs : /\ [f EXCEPT !.op = op, !.asked = ds] \in Frame
                                      /\ [f EXCEPT !.op = op, !.save = ds] \in Frame
BY DEF Frame

-----------------------------------------------------------------------------
(* Type correctness *)

\* The stack after a step: whole calls, and the poll on it stays until it ends.
StackKept ==
    /\ calls' \in Seq(Frame) /\ ret' \in BOOLEAN
    /\ HasPoll(calls) => HasPoll(calls')

LEMMA EnterKeeps ==
    ASSUME TypeOK, NEW f \in Frame, Enter(f)
    PROVE  StackKept /\ (f.op = "do_stat" => HasPoll(calls'))
BY Pushed DEF TypeOK, Enter, StackKept

LEMMA BecomeKeeps ==
    ASSUME TypeOK, calls # <<>>, Top.op # "do_stat", NEW f \in Frame, Become(f)
    PROVE  StackKept
<1>1. calls' = Append(Below, f) /\ ret' = ret
  BY DEF Become
<1>2. Below \in Seq(Frame) /\ (HasPoll(calls) => HasPoll(Below))
  BY TopAndBelow DEF TypeOK
<1> QED
  BY <1>1, <1>2, Pushed, Zenon DEF TypeOK, StackKept

LEMMA ReturnKeeps ==
    ASSUME TypeOK, calls # <<>>, NEW r \in BOOLEAN, Return(r)
    PROVE  calls' \in Seq(Frame) /\ ret' \in BOOLEAN /\ (Top.op # "do_stat" => StackKept)
<1>1. calls' = Below /\ Below \in Seq(Frame)
  BY TopAndBelow DEF TypeOK, Return
<1>2. ret' \in BOOLEAN
  BY Zenon DEF Return
<1> QED
  BY <1>1, <1>2, TopAndBelow DEF TypeOK, StackKept

\* What a step takes from the call it is a step of.
LEMMA TheCall ==
    ASSUME TypeOK, NEW op, In(op)
    PROVE  /\ calls # <<>> /\ Top \in Frame /\ Top.op = op
           /\ op \notin OfNoDoc => Top.doc \in Docs
           /\ op \notin OfNoDoc \cup {"open", "file_deleted", "save_error_dialog"} => Top.doc \in open
BY TopAndBelow DEF TypeOK, In, Frame

LEMMA BecomesKeeps ==
    ASSUME TypeOK, NEW op, In(op), op # "do_stat", NEW next \in Entries \cup Dialogs,
           op \in OfNoDoc <=> next \in OfNoDoc, Becomes(next)
    PROVE  StackKept
<1>1. calls # <<>> /\ Top \in Frame /\ Top.op = op
  BY TheCall
<1>2. [Top EXCEPT !.op = next] \in Frame
  BY <1>1, GoesOnAs
<1> QED
  BY <1>1, <1>2, BecomeKeeps DEF Becomes

LEMMA Unmoved ==
    ASSUME TypeOK, UNCHANGED <<calls, ret>>
    PROVE  StackKept
BY DEF TypeOK, StackKept

\* The stack after a step that does not end a poll.
LEMMA StackStep ==
    ASSUME TypeOK, Next, ~do_stat_end
    PROVE  StackKept
<1> USE DEF OfNoDoc, Entries, Dialogs
<1>1. ASSUME NEW d \in Docs, Typed(d) \/ DeletedByOthers(d) PROVE StackKept
  BY <1>1, Unmoved DEF Typed, DeletedByOthers
<1>2. ASSUME NEW d \in Docs, NEW later \in BOOLEAN, WrittenByOthers(d, later) PROVE StackKept
  BY <1>2, Unmoved DEF WrittenByOthers
<1>3. ASSUME NEW d \in Docs, NEW src, Dispatched(d, src) PROVE StackKept
  <2>1. CASE UNCHANGED <<calls, ret>>
    BY <2>1, Unmoved
  <2>2. CASE UNCHANGED ret /\ calls' = calls \o <<Call("autosync", d)>> \o
                     (IF "MODIFIED" \in status[d] THEN <<Call("save", d)>> ELSE <<>>)
    <3>1. Call("autosync", d) \in Frame /\ Call("save", d) \in Frame
      BY NewCalls
    <3> QED
      BY <2>2, <3>1, PushedTwo DEF TypeOK, StackKept
  <2> QED
    BY <1>3, <2>1, <2>2 DEF Dispatched
<1>4. ASSUME Commands PROVE StackKept
  <2>1. CASE \E d \in Docs : Enter(Call("open", d)) \/ Enter(Call("save", d)) \/ Enter(Call("reload", d))
    BY <2>1, NewCalls, EnterKeeps
  <2>2. CASE \E ds \in SUBSET Docs : Enter([Call("close", NoDoc) EXCEPT !.docs = ds])
    BY <2>2, NewBatches, EnterKeeps
  <2>3. open \subseteq Docs
    BY DEF TypeOK
  <2> QED
    BY <1>4, <2>1, <2>2, <2>3 DEF Commands
<1>5. ASSUME moo_editor_load_file PROVE StackKept
  <2>1. In("open") /\ calls # <<>> /\ Top.op = "open" /\ Top.doc \in Docs
    BY <1>5, TheCall DEF moo_editor_load_file
  <2>2. CASE Return(TRUE)
    BY <2>1, <2>2, ReturnKeeps
  <2>3. CASE calls' = Append(Append(Below, Call("opening", Top.doc)), Call("read", Top.doc)) /\ UNCHANGED ret
    <3>1. Call("opening", Top.doc) \in Frame /\ Call("read", Top.doc) \in Frame
      BY <2>1, NewCalls
    <3>2. Below \in Seq(Frame) /\ (HasPoll(calls) => HasPoll(Below))
      BY <2>1, TopAndBelow DEF TypeOK
    <3>3. Append(Below, Call("opening", Top.doc)) \in Seq(Frame)
          /\ (HasPoll(calls) => HasPoll(Append(Below, Call("opening", Top.doc))))
      BY <3>1, <3>2, Pushed
    <3> QED
      BY <2>3, <3>1, <3>3, Pushed DEF TypeOK, StackKept
  <2> QED
    BY <1>5, <2>2, <2>3 DEF moo_editor_load_file
<1>6. ASSUME NEW op, In(op), op # "do_stat", \E r \in BOOLEAN : Return(r) PROVE StackKept
  BY <1>6, TheCall, ReturnKeeps
<1>7. ASSUME moo_editor_load_file_end \/ reload_error_dialog \/ save_error_dialog
             \/ autosync_callback_end \/ file_modified_on_disk \/ file_deleted
      PROVE  StackKept
  <2>1. ret \in BOOLEAN
    BY DEF TypeOK
  <2> QED
    BY <1>6, <1>7, <2>1 DEF moo_editor_load_file_end, reload_error_dialog, save_error_dialog,
       autosync_callback_end, file_modified_on_disk, file_deleted
<1>8. ASSUME moo_editor_reload \/ moo_editor_save PROVE StackKept
  BY <1>8, BecomesKeeps DEF moo_editor_reload, moo_editor_save
<1>9. ASSUME NEW op, In(op), op # "do_stat", NEW next \in Entries \cup Dialogs, Becomes(next),
             op \notin OfNoDoc /\ next \notin OfNoDoc
      PROVE  StackKept
  BY <1>9, BecomesKeeps
<1>10. ASSUME reload_dialog \/ encoding_dialog \/ try_encoding_dialog PROVE StackKept
  <2>1. CASE reload_dialog
    <3>1. In("reload_dialog") /\ (Becomes("read") \/ Return(FALSE))
      BY <2>1, Zenon DEF reload_dialog
    <3>2. CASE Becomes("read")
      BY <3>1, <3>2, <1>9
    <3>3. CASE Return(FALSE)
      BY <3>1, <3>3, <1>6
    <3> QED
      BY <3>1, <3>2, <3>3
  <2>2. CASE encoding_dialog
    <3>1. In("encoding_dialog") /\ (Becomes("do_save_utf8") \/ Return(FALSE))
      BY <2>2, Zenon DEF encoding_dialog
    <3>2. CASE Becomes("do_save_utf8")
      BY <3>1, <3>2, <1>9
    <3>3. CASE Return(FALSE)
      BY <3>1, <3>3, <1>6
    <3> QED
      BY <3>1, <3>2, <3>3
  <2>3. CASE try_encoding_dialog
    <3>1. In("try_encoding_dialog") /\ (Becomes("load_text") \/ Return(FALSE))
      BY <2>3, Zenon DEF try_encoding_dialog
    <3>2. CASE Becomes("load_text")
      BY <3>1, <3>2, <1>9
    <3>3. CASE Return(FALSE)
      BY <3>1, <3>3, <1>6
    <3> QED
      BY <3>1, <3>2, <3>3
  <2> QED
    BY <1>10, <2>1, <2>2, <2>3
<1>11. ASSUME _moo_edit_load_file PROVE StackKept
  <2>1. In("read") /\ calls # <<>> /\ Top \in Frame /\ Top.op = "read" /\ Top.doc \in Docs
    BY <1>11, TheCall DEF _moo_edit_load_file
  <2>2. disk[Top.doc] \in Texts \cup {0}
    BY <2>1 DEF TypeOK
  <2>3. \A op \in {"load_text", "try_encoding_dialog"} :
            [Top EXCEPT !.op = op, !.text = disk[Top.doc]] \in Frame
    BY <2>1, <2>2, GoesOnAs
  <2>4. CASE Becomes("reload_error_dialog")
    BY <2>1, <2>4, <1>9
  <2>5. CASE \E op \in {"load_text", "try_encoding_dialog"} :
               Become([Top EXCEPT !.op = op, !.text = disk[Top.doc]])
    BY <2>1, <2>3, <2>5, BecomeKeeps
  <2> QED
    BY <1>11, <2>4, <2>5 DEF _moo_edit_load_file
<1>12. ASSUME moo_edit_load_text PROVE StackKept
  BY <1>12, <1>9 DEF moo_edit_load_text
<1>13. ASSUME _moo_edit_start_file_watch PROVE StackKept
  BY <1>13, <1>6 DEF _moo_edit_start_file_watch
<1>14. ASSUME overwrite_dialog PROVE StackKept
  <2>1. In("overwrite_dialog") /\ calls # <<>> /\ Top \in Frame /\ Top.op = "overwrite_dialog" /\ Top.doc \in Docs
    BY <1>14, TheCall DEF overwrite_dialog
  <2>2. [Top EXCEPT !.op = "do_save", !.asked = {Top.doc}] \in Frame
    BY <2>1, GoesOnAs
  <2> QED
    BY <1>14, <2>1, <2>2, <1>6, BecomeKeeps DEF overwrite_dialog
<1>15. ASSUME NEW op, In(op), op \in {"do_save", "do_save_utf8"},
              (\E d, t : Saved(d, t)) \/ NotSaved \/ NotConverted
       PROVE  StackKept
  BY <1>15, <1>9, Unmoved DEF Saved, NotSaved, NotConverted
<1>16. ASSUME do_save \/ do_save_utf8 PROVE StackKept
  BY <1>16, <1>15 DEF do_save, do_save_utf8
<1>17. ASSUME NEW op, In(op), op # "do_stat", NEW ds, CloseAll(ds) PROVE StackKept
  BY <1>17, <1>6, Unmoved DEF CloseAll
<1>18. ASSUME close_docs_real PROVE StackKept
  <2>1. In("close") /\ calls # <<>> /\ Top \in Frame /\ Top.op = "close"
    BY <1>18, TheCall DEF close_docs_real
  <2>2. find_modified(Top.docs) \subseteq Docs
    BY <2>1 DEF find_modified, Frame
  <2>3. [Top EXCEPT !.op = "save_changes_dialog", !.asked = find_modified(Top.docs)] \in Frame
    BY <2>1, <2>2, GoesOnAs
  <2> QED
    BY <1>18, <2>1, <2>3, <1>17, BecomeKeeps DEF close_docs_real
<1>19. ASSUME save_changes_dialog PROVE StackKept
  <2>1. In("save_changes_dialog") /\ calls # <<>> /\ Top \in Frame /\ Top.op = "save_changes_dialog"
    BY <1>19, TheCall DEF save_changes_dialog
  <2>2. CASE Return(FALSE) \/ CloseAll(Top.docs)
    BY <2>1, <2>2, <1>6, <1>17
  <2>3. CASE \E ticked \in SUBSET Top.asked :
               calls' = Append(Below, [Top EXCEPT !.op = "closing", !.save = ticked,
                                                        !.asked = @ \ ticked]) /\ ret' = TRUE
    <3>1. PICK ticked \in SUBSET Top.asked :
               calls' = Append(Below, [Top EXCEPT !.op = "closing", !.save = ticked,
                                                        !.asked = @ \ ticked]) /\ ret' = TRUE
      BY <2>3
    <3>2. [Top EXCEPT !.op = "closing", !.save = ticked, !.asked = @ \ ticked] \in Frame
      BY <2>1, GoesOnAs DEF Frame
    <3> QED
      BY <2>1, <3>1, <3>2, TopAndBelow, Pushed DEF TypeOK, StackKept
  <2> QED
    BY <1>19, <2>2, <2>3 DEF save_changes_dialog
<1>20. ASSUME close_docs_real_saving PROVE StackKept
  <2>1. In("closing") /\ calls # <<>> /\ Top \in Frame /\ Top.op = "closing"
    BY <1>20, TheCall DEF close_docs_real_saving
  <2>2. CASE Return(FALSE) \/ CloseAll(Top.docs)
    BY <2>1, <2>2, <1>6, <1>17
  <2>3. CASE /\ UNCHANGED ret
             /\ \E d \in Top.save :
                  calls' = Append(Append(Below, [Top EXCEPT !.save = @ \ {d}]), Call("save", d))
    <3>1. PICK d \in Top.save :
                  calls' = Append(Append(Below, [Top EXCEPT !.save = @ \ {d}]), Call("save", d))
      BY <2>3
    <3>2. d \in Docs /\ [Top EXCEPT !.save = @ \ {d}] \in Frame
      BY <2>1 DEF Frame
    <3>3. Call("save", d) \in Frame
      BY <3>2, NewCalls
    <3>4. Below \in Seq(Frame) /\ (HasPoll(calls) => HasPoll(Below))
      BY <2>1, TopAndBelow DEF TypeOK
    <3> DEFINE rest == Append(Below, [Top EXCEPT !.save = @ \ {d}])
    <3>5. rest \in Seq(Frame) /\ (HasPoll(calls) => HasPoll(rest))
      BY <3>2, <3>4, Pushed
    <3> HIDE DEF rest
    <3>6. calls' = Append(rest, Call("save", d))
      BY <3>1 DEF rest
    <3> QED
      BY <2>3, <3>3, <3>5, <3>6, Pushed DEF TypeOK, StackKept
  <2> QED
    BY <1>20, <2>2, <2>3 DEF close_docs_real_saving
<1>21. ASSUME do_stat PROVE StackKept
  BY <1>21, NewBatches, EnterKeeps DEF do_stat
<1>22. ASSUME NEW id \in MonitorIds, do_stat_one(id) PROVE StackKept
  <2>1. CASE UNCHANGED <<calls, ret>>
    BY <2>1, Unmoved
  <2>2. ASSUME NEW d \in Docs, NEW callback \in {"file_deleted", "file_modified_on_disk"}, NEW f \in Frame,
               calls' = calls \o <<Call(callback, d), f>>, UNCHANGED ret
        PROVE  StackKept
    <3>1. Call(callback, d) \in Frame
      BY NewCalls
    <3> QED
      BY <2>2, <3>1, PushedTwo DEF TypeOK, StackKept
  <2> DEFINE d == requests[id].doc
  <2>3. CASE id \in DOMAIN requests
    <3>1. d \in Docs
      BY <2>3 DEF TypeOK, Monitor
    <3>2. Call("reload", d) \in Frame /\ [Call("close", NoDoc) EXCEPT !.docs = {d}] \in Frame
      BY <3>1, NewCalls, NewBatches
    <3> QED
      BY <1>22, <2>1, <2>2, <3>1, <3>2 DEF do_stat_one, Event
  <2>4. CASE id \notin DOMAIN requests
    BY <1>22, <2>1, <2>4 DEF do_stat_one
  <2> QED
    BY <2>3, <2>4
<1>23. ASSUME GoesOnWithAClosed PROVE StackKept
  BY <1>23, Unmoved DEF GoesOnWithAClosed
<1> HIDE DEF OfNoDoc, Entries, Dialogs
<1>24. Answer => StackKept
  BY <1>7, <1>10, <1>14, <1>19 DEF Answer
<1>25. Program => StackKept
  BY <1>5, <1>7, <1>8, <1>11, <1>12, <1>13, <1>16, <1>18, <1>20, <1>22, <1>23 DEF Program
<1> QED
  BY <1>1, <1>2, <1>3, <1>4, <1>21, <1>24, <1>25, Zenon DEF Next

\* What TypeOK says beside the stack, of the documents ...
DocsOK ==
    /\ disk \in [Docs -> Texts \cup {0}]
    /\ text \in [Docs -> Texts \cup {0}]
    /\ known \in [Docs -> Texts \cup {0}]
    /\ hidden \in [Docs -> BOOLEAN]
    /\ status \in [Docs -> SUBSET Flags]
    /\ sync_timeout_id \in [Docs -> {"none", "armed", "running"}]
    /\ orphans \in [Docs -> Nat]
    /\ open \subseteq Docs

\* ... of the watch, and of what is counted.
WatchOK ==
    /\ file_monitor_id \in [Docs -> MonitorIds \cup {0}]
    /\ requests \in [DOMAIN requests -> Monitor] /\ DOMAIN requests \subseteq MonitorIds
    /\ round \in [ids : SUBSET MonitorIds, gone : SUBSET MonitorIds]

RestOK ==
    /\ auto_sync \in BOOLEAN
    /\ acts \in 0..MaxActs /\ failures \in 0..MaxFailures
    /\ broken \in {"no", "write_error", "closed_document", "lost_timer"}

LEMMA TypeParts ==
    /\ TypeOK <=> DocsOK /\ WatchOK /\ RestOK /\ calls \in Seq(Frame) /\ ret \in BOOLEAN
    /\ TypeOK' <=> DocsOK' /\ WatchOK' /\ RestOK' /\ calls' \in Seq(Frame) /\ ret' \in BOOLEAN
BY Zenon DEF TypeOK, DocsOK, WatchOK, RestOK

LEMMA Fresh ==
    ASSUME NEW d \in Docs
    PROVE  /\ Texts \ TextsOf(d) # {} => FreshText(d) \in Texts
           /\ MonitorIds \ Held # {} => FreshId \in MonitorIds /\ FreshId \notin Held
BY DEF FreshText, FreshId

LEMMA RestStep ==
    ASSUME TypeOK, Next
    PROVE  RestOK'
<1>1. Act => acts' \in 0..MaxActs
  BY DocFileAssumption DEF TypeOK, Act
<1>2. Fails \/ Works => failures' \in 0..MaxFailures
  BY DocFileAssumption DEF TypeOK, Fails, Works
<1>3. UNCHANGED acts => acts' \in 0..MaxActs
  BY DEF TypeOK
<1>4. UNCHANGED failures => failures' \in 0..MaxFailures
  BY DEF TypeOK
<1>5. auto_sync' = auto_sync /\ auto_sync \in BOOLEAN
  <2>1. Answer \/ Program => UNCHANGED auto_sync
    BY Zenon DEF Answer, reload_dialog, try_encoding_dialog, reload_error_dialog, overwrite_dialog,
       encoding_dialog, save_error_dialog, save_changes_dialog, Program,
       moo_editor_load_file, moo_editor_load_file_end, moo_editor_reload, _moo_edit_load_file,
       moo_edit_load_text, _moo_edit_start_file_watch, moo_editor_save, do_save, do_save_utf8,
       autosync_callback_end, close_docs_real, close_docs_real_saving, do_stat_one, do_stat_end,
       file_modified_on_disk, file_deleted, GoesOnWithAClosed
  <2> QED
    BY <2>1, Zenon DEF TypeOK, Next, Typed, DeletedByOthers, WrittenByOthers, Dispatched, Commands, do_stat
<1>6. (Act \/ UNCHANGED acts) /\ (Fails \/ Works \/ UNCHANGED failures)
  <2>1. Answer => UNCHANGED <<acts, failures>>
    BY Zenon DEF Answer, reload_dialog, try_encoding_dialog, reload_error_dialog, overwrite_dialog,
       encoding_dialog, save_error_dialog, save_changes_dialog
  <2>2. Program => (Act \/ UNCHANGED acts) /\ (Fails \/ Works \/ UNCHANGED failures)
    BY Zenon DEF Program,
       moo_editor_load_file, moo_editor_load_file_end, moo_editor_reload, _moo_edit_load_file,
       moo_edit_load_text, _moo_edit_start_file_watch, moo_editor_save, do_save, do_save_utf8,
       Saved, NotSaved, NotConverted,
       autosync_callback_end, close_docs_real, close_docs_real_saving, do_stat_one, do_stat_end,
       file_modified_on_disk, file_deleted, GoesOnWithAClosed
  <2> QED
    BY <2>1, <2>2, Zenon DEF Next, Typed, DeletedByOthers, WrittenByOthers, Dispatched, Commands, do_stat
<1>7. broken' \in {"no", "write_error", "closed_document", "lost_timer"}
  <2>1. broken \in {"no", "write_error", "closed_document", "lost_timer"}
    BY DEF TypeOK
  <2>2. Answer \/ Program => broken' \in {broken, "write_error", "closed_document"}
    BY DEF Answer, reload_dialog, try_encoding_dialog, reload_error_dialog, overwrite_dialog,
       encoding_dialog, save_error_dialog, save_changes_dialog, Program,
       moo_editor_load_file, moo_editor_load_file_end, moo_editor_reload, _moo_edit_load_file,
       moo_edit_load_text, _moo_edit_start_file_watch, moo_editor_save, do_save, do_save_utf8,
       Saved, NotSaved, NotConverted, CloseAll,
       autosync_callback_end, close_docs_real, close_docs_real_saving, do_stat_one, do_stat_end,
       file_modified_on_disk, file_deleted, GoesOnWithAClosed
  <2> QED
    BY <2>1, <2>2 DEF Next, Typed, DeletedByOthers, WrittenByOthers, Dispatched, Commands, do_stat
<1> QED
  BY <1>1, <1>2, <1>3, <1>4, <1>5, <1>6, <1>7, Zenon DEF RestOK

\* A step of the documents' part that leaves most of it alone.
LEMMA DocsUnmoved ==
    ASSUME DocsOK, UNCHANGED <<files, text, orphans>>,
           open' \subseteq open,
           status' \in [Docs -> SUBSET Flags],
           sync_timeout_id' \in [Docs -> {"none", "armed", "running"}]
    PROVE  DocsOK'
BY DEF DocsOK

LEMMA TimersStay ==
    ASSUME DocsOK
    PROVE  /\ \A d : Armed(d) \in [Docs -> {"none", "armed", "running"}]
           /\ \A ds : Closed(ds) => /\ open' \subseteq open
                                    /\ sync_timeout_id' \in [Docs -> {"none", "armed", "running"}]
           /\ \A d : Forgot(d) => /\ sync_timeout_id' \in [Docs -> {"none", "armed", "running"}]
                                  /\ orphans' \in [Docs -> Nat]
<1>1. \A d : Armed(d) \in [Docs -> {"none", "armed", "running"}]
  BY DEF DocsOK, Armed
<1>2. ASSUME NEW ds, Closed(ds)
      PROVE  open' \subseteq open /\ sync_timeout_id' \in [Docs -> {"none", "armed", "running"}]
  BY <1>2 DEF DocsOK, Closed
<1>3. ASSUME NEW d, Forgot(d)
      PROVE  /\ sync_timeout_id' \in [Docs -> {"none", "armed", "running"}]
             /\ orphans' \in [Docs -> Nat]
  <2>1. \A n \in Nat : n + (IF sync_timeout_id[d] = "armed" THEN 1 ELSE 0) \in Nat
    OBVIOUS
  <2>2. orphans' = [orphans EXCEPT ![d] = @ + (IF sync_timeout_id[d] = "armed" THEN 1 ELSE 0)]
    BY <1>3 DEF Forgot
  <2>3. orphans' \in [Docs -> Nat]
    BY <2>1, <2>2 DEF DocsOK
  <2> QED
    BY <1>3, <2>3 DEF DocsOK, Forgot
<1> QED
  BY <1>1, <1>2, <1>3

LEMMA MarksStay ==
    ASSUME DocsOK, NEW d \in Docs, NEW flag \in Flags
    PROVE  /\ \A reqs, ids : Marked(d, flag, reqs, ids) => status' \in [Docs -> SUBSET Flags]
           /\ [status EXCEPT ![d] = @ \cup {flag}] \in [Docs -> SUBSET Flags]
           /\ [status EXCEPT ![d] = @ \ {flag}] \in [Docs -> SUBSET Flags]
           /\ [status EXCEPT ![d] = {}] \in [Docs -> SUBSET Flags]
           /\ [status EXCEPT ![d] = {flag}] \in [Docs -> SUBSET Flags]
BY DEF DocsOK, Marked

LEMMA SavedType ==
    ASSUME DocsOK, NEW d \in Docs, NEW t \in Texts \cup {0}, Saved(d, t)
    PROVE  /\ disk' \in [Docs -> Texts \cup {0}] /\ known' \in [Docs -> Texts \cup {0}]
           /\ hidden' \in [Docs -> BOOLEAN] /\ status' \in [Docs -> SUBSET Flags]
BY DEF DocsOK, Saved

LEMMA SavingType ==
    ASSUME TypeOK, do_save \/ do_save_utf8
    PROVE  DocsOK'
<1>0. DocsOK
  BY TypeParts
<1> DEFINE d == Top.doc
<1>1. d \in Docs
  BY TheCall DEF do_save, do_save_utf8, OfNoDoc
<1>2. "MODIFIED" \in Flags
  BY DEF Flags
<1>3. ASSUME do_save, UNCHANGED <<text, sync_timeout_id>>,
             Saved(d, text[d]) \/ UNCHANGED <<files, status>>
      PROVE  DocsOK'
  <2>1. text[d] \in Texts \cup {0} /\ UNCHANGED <<orphans, open>>
    BY <1>0, <1>1, <1>3 DEF DocsOK, do_save
  <2> QED
    BY <1>0, <1>1, <1>3, <2>1, SavedType DEF DocsOK
<1>4. ASSUME do_save, Texts \ TextsOf(d) # {},
             text' = [text EXCEPT ![d] = FreshText(d)], sync_timeout_id' = Armed(d),
             Saved(d, FreshText(d)) \/ (UNCHANGED files /\ status' = [status EXCEPT ![d] = @ \cup {"MODIFIED"}])
      PROVE  DocsOK'
  <2>1. FreshText(d) \in Texts /\ UNCHANGED <<orphans, open>>
    BY <1>1, <1>4, Fresh DEF do_save
  <2>2. text' \in [Docs -> Texts \cup {0}] /\ sync_timeout_id' \in [Docs -> {"none", "armed", "running"}]
    BY <1>0, <1>1, <1>4, <2>1, TimersStay DEF DocsOK
  <2>3. CASE Saved(d, FreshText(d))
    BY <1>0, <1>1, <2>1, <2>2, <2>3, SavedType DEF DocsOK
  <2>4. CASE UNCHANGED files /\ status' = [status EXCEPT ![d] = @ \cup {"MODIFIED"}]
    BY <1>0, <1>1, <1>2, <2>1, <2>2, <2>4, MarksStay DEF DocsOK
  <2> QED
    BY <1>4, <2>3, <2>4
<1>5. CASE do_save
  BY <1>3, <1>4, <1>5, Zenon DEF do_save, NotSaved, NotConverted
<1>6. CASE do_save_utf8
  <2>1. text[d] \in Texts \cup {0} /\ UNCHANGED <<text, sync_timeout_id, orphans, open>>
    BY <1>0, <1>1, <1>6 DEF DocsOK, do_save_utf8
  <2>2. CASE Saved(d, text[d])
    BY <1>0, <1>1, <2>1, <2>2, SavedType DEF DocsOK
  <2>3. CASE UNCHANGED <<files, status>>
    BY <1>0, <2>1, <2>3 DEF DocsOK
  <2> QED
    BY <1>6, <2>2, <2>3, Zenon DEF do_save_utf8, NotSaved
<1> QED
  BY <1>5, <1>6

LEMMA DocsStep ==
    ASSUME TypeOK, Next
    PROVE  DocsOK'
<1>0. DocsOK
  BY TypeParts
<1> USE DEF Flags
<1>1. UNCHANGED <<files, buffers>> => DocsOK'
  BY <1>0 DEF DocsOK
<1>2. ASSUME NEW d \in Docs, Typed(d) PROVE DocsOK'
  BY <1>0, <1>2, Fresh, TimersStay, MarksStay DEF Typed, DocsOK
<1>3. ASSUME NEW d \in Docs, DeletedByOthers(d) PROVE DocsOK'
  BY <1>0, <1>3 DEF DeletedByOthers, DocsOK
<1>4. ASSUME NEW d \in Docs, NEW later \in BOOLEAN, WrittenByOthers(d, later) PROVE DocsOK'
  BY <1>0, <1>4, Fresh DEF WrittenByOthers, DocsOK
<1>5. ASSUME NEW d \in Docs, NEW src, Dispatched(d, src) PROVE DocsOK'
  <2>1. UNCHANGED <<files, text, status, open>>
    BY <1>5 DEF Dispatched
  <2>2. sync_timeout_id' \in [Docs -> {"none", "armed", "running"}] /\ orphans' \in [Docs -> Nat]
    <3>1. CASE /\ sync_timeout_id' = [sync_timeout_id EXCEPT ![d] = "running"]
               /\ UNCHANGED orphans
      BY <1>0, <3>1 DEF DocsOK
    <3>2. CASE /\ orphans[d] > 0
               /\ orphans' = [orphans EXCEPT ![d] = @ - 1]
               /\ UNCHANGED sync_timeout_id
      BY <1>0, <3>2 DEF DocsOK
    <3> QED
      BY <1>5, <3>1, <3>2, Zenon DEF Dispatched
  <2> QED
    BY <1>0, <2>1, <2>2 DEF DocsOK
<1>6. Commands \/ do_stat => DocsOK'
  BY <1>1 DEF Commands, do_stat
<1>7. ASSUME moo_editor_load_file PROVE DocsOK'
  <2>1. Top.doc \in Docs
    BY <1>7, TheCall DEF moo_editor_load_file, OfNoDoc
  <2> QED
    <3>1. open' = open \cup {Top.doc} /\ UNCHANGED <<disk, hidden, sync_timeout_id, orphans>>
          /\ text' = [text EXCEPT ![Top.doc] = 0] /\ known' = [known EXCEPT ![Top.doc] = 0]
      BY <1>7 DEF moo_editor_load_file
    <3>2. \/ status' = [status EXCEPT ![Top.doc] = {"NEW"}]
          \/ status' = [status EXCEPT ![Top.doc] = {}]
      BY <1>7, Zenon DEF moo_editor_load_file
    <3>3. status' \in [Docs -> SUBSET Flags]
      BY <1>0, <2>1, <3>2, MarksStay
    <3> QED
      BY <1>0, <2>1, <3>1, <3>3 DEF DocsOK
<1>8. ASSUME moo_editor_load_file_end PROVE DocsOK'
  BY <1>0, <1>8, TimersStay DEF moo_editor_load_file_end, DocsOK
<1>9. moo_editor_reload \/ _moo_edit_load_file \/ moo_editor_save \/ do_stat_end \/ GoesOnWithAClosed
      \/ reload_dialog \/ try_encoding_dialog \/ reload_error_dialog \/ overwrite_dialog
      \/ encoding_dialog \/ save_error_dialog
      => UNCHANGED <<files, buffers>>
  BY Zenon DEF moo_editor_reload, _moo_edit_load_file, moo_editor_save, do_stat_end, GoesOnWithAClosed,
     reload_dialog, try_encoding_dialog, reload_error_dialog, overwrite_dialog, encoding_dialog,
     save_error_dialog
<1>10. ASSUME moo_edit_load_text PROVE DocsOK'
  <2>1. Top.doc \in Docs /\ Top.text \in Texts \cup {0}
    BY <1>10, TheCall DEF moo_edit_load_text, OfNoDoc, Frame
  <2> QED
    BY <1>0, <1>10, <2>1, TimersStay, MarksStay DEF moo_edit_load_text, DocsOK
<1>11. ASSUME _moo_edit_start_file_watch PROVE DocsOK'
  <2>1. Top.doc \in Docs
    BY <1>11, TheCall DEF _moo_edit_start_file_watch, OfNoDoc
  <2>2. status' \in [Docs -> SUBSET Flags] /\ hidden' \in [Docs -> BOOLEAN]
    <3> DEFINE d == Top.doc
    <3>1. \/ status' = [status EXCEPT ![d] = @ \ {"WATCH_FAILED"}]
          \/ status' = [status EXCEPT ![d] = @ \cup {"WATCH_FAILED"}]
      BY <1>11, Zenon DEF _moo_edit_start_file_watch
    <3>2. \/ hidden' = [hidden EXCEPT ![d] = (disk[d] # known[d])]
          \/ UNCHANGED hidden
      BY <1>11, Zenon DEF _moo_edit_start_file_watch
    <3>3. (disk[d] # known[d]) \in BOOLEAN
      BY Zenon
    <3>4. hidden' \in [Docs -> BOOLEAN]
      BY <1>0, <2>1, <3>2, <3>3, Zenon DEF DocsOK
    <3> QED
      BY <1>0, <2>1, <3>1, <3>4, MarksStay
  <2> QED
    BY <1>0, <1>11, <2>2 DEF _moo_edit_start_file_watch, DocsOK
<1>12. ASSUME autosync_callback_end PROVE DocsOK'
  BY <1>0, <1>12, TimersStay DEF autosync_callback_end, DocsOK
<1>13. ASSUME close_docs_real \/ save_changes_dialog \/ close_docs_real_saving PROVE DocsOK'
  <2>1. UNCHANGED <<files, text, status, orphans>>
    BY <1>13 DEF close_docs_real, save_changes_dialog, close_docs_real_saving
  <2>2. UNCHANGED <<open, sync_timeout_id>> \/ \E ds : Closed(ds)
    BY <1>13, Zenon DEF close_docs_real, save_changes_dialog, close_docs_real_saving, CloseAll
  <2> QED
    BY <1>0, <2>1, <2>2, TimersStay DEF DocsOK
<1>14. ASSUME NEW id \in MonitorIds, do_stat_one(id) PROVE DocsOK'
  <2>1. UNCHANGED <<files, text, sync_timeout_id, orphans, open>>
    BY <1>14 DEF do_stat_one
  <2>2. status' \in [Docs -> SUBSET Flags]
    <3>1. CASE UNCHANGED status
      BY <1>0, <3>1 DEF DocsOK
    <3>2. CASE id \in DOMAIN requests
      <4>1. requests[id].doc \in Docs
        BY <3>2 DEF TypeOK, Monitor
      <4> QED
        BY <1>0, <1>14, <4>1, <3>1, MarksStay DEF do_stat_one, Event
    <3> QED
      BY <1>14, <3>1, <3>2 DEF do_stat_one
  <2> QED
    BY <1>0, <2>1, <2>2, DocsUnmoved DEF DocsOK
<1>15. ASSUME file_modified_on_disk \/ file_deleted PROVE DocsOK'
  <2>1. Top.doc \in Docs
    BY <1>15, TheCall DEF file_modified_on_disk, file_deleted, OfNoDoc
  <2>2. UNCHANGED <<files, text, sync_timeout_id, orphans, open>>
    BY <1>15 DEF file_modified_on_disk, file_deleted
  <2>3. status' \in [Docs -> SUBSET Flags]
    BY <1>0, <1>15, <2>1, MarksStay DEF file_modified_on_disk, file_deleted, Tried, DocsOK
  <2> QED
    BY <1>0, <2>2, <2>3, DocsUnmoved DEF DocsOK
<1>16. Answer => DocsOK'
  BY <1>1, <1>9, <1>13 DEF Answer
<1>17. Program => DocsOK'
  BY <1>1, <1>7, <1>8, <1>9, <1>10, <1>11, <1>12, <1>13, <1>14, <1>15, SavingType, Zenon DEF Program
<1> QED
  BY <1>2, <1>3, <1>4, <1>5, <1>6, <1>16, <1>17, Zenon DEF Next

-----------------------------------------------------------------------------
(* The table of the watch *)

\* The poll is done with the monitors it will remove, and no document has them.
GoneAreNobodys ==
    /\ round.ids \cap round.gone = {}
    /\ \A d \in Docs : file_monitor_id[d] \notin round.gone

\* All that is said of the watch, but for the stack.
WatchGood == WatchOK /\ WatchTable /\ GoneAreNobodys

LEMMA WatchUnmoved ==
    ASSUME WatchGood, UNCHANGED watch, open \subseteq open'
    PROVE  WatchGood'
BY DEF WatchGood, WatchOK, WatchTable, GoneAreNobodys

\* The monitor of a document that leaves is taken from the table.
LEMMA WatchStops ==
    ASSUME WatchGood, NEW d \in Docs, StopWatch(d), UNCHANGED open
    PROVE  WatchGood'
<1>1. WatchOK'
  BY DEF WatchGood, WatchOK, StopWatch, Without
<1>2. GoneAreNobodys'
  BY DocFileAssumption DEF WatchGood, WatchOK, GoneAreNobodys, StopWatch
<1>3. \A i \in DOMAIN requests' : i \in DOMAIN requests /\ requests'[i] = requests[i] /\ i # file_monitor_id[d]
  BY DEF StopWatch, Without
<1>4. file_monitor_id' = [file_monitor_id EXCEPT ![d] = 0] /\ UNCHANGED round
      /\ DOMAIN requests' = DOMAIN requests \ {file_monitor_id[d]}
  BY DEF StopWatch, Without
<1>5. WatchTable'
  BY <1>3, <1>4 DEF WatchGood, WatchOK, WatchTable, Monitor
<1> QED
  BY <1>1, <1>2, <1>5 DEF WatchGood

LEMMA WatchCloses ==
    ASSUME WatchGood, NEW ds \in SUBSET Docs, Closed(ds)
    PROVE  WatchGood'
<1>1. WatchOK'
  BY DEF WatchGood, WatchOK, Closed
<1>2. GoneAreNobodys'
  BY DocFileAssumption DEF WatchGood, WatchOK, GoneAreNobodys, Closed
<1>3. /\ DOMAIN requests' = DOMAIN requests \ {file_monitor_id[d] : d \in ds}
      /\ \A i \in DOMAIN requests' : requests'[i] = requests[i]
      /\ open' = open \ ds /\ UNCHANGED round
      /\ \A d \in Docs : file_monitor_id'[d] = IF d \in ds THEN 0 ELSE file_monitor_id[d]
  BY DEF Closed
<1>4. ASSUME NEW d \in Docs, file_monitor_id'[d] # 0
      PROVE  /\ d \in open' /\ file_monitor_id'[d] \in DOMAIN requests'
             /\ requests'[file_monitor_id'[d]].doc = d /\ requests'[file_monitor_id'[d]].alive
  <2>1. d \notin ds /\ file_monitor_id'[d] = file_monitor_id[d]
    BY <1>3, <1>4
  <2>2. d \in open /\ file_monitor_id[d] \in DOMAIN requests
        /\ requests[file_monitor_id[d]].doc = d /\ requests[file_monitor_id[d]].alive
    BY <1>4, <2>1 DEF WatchGood, WatchTable
  <2>3. ASSUME NEW e \in ds, file_monitor_id[e] = file_monitor_id[d] PROVE FALSE
    BY <1>4, <2>1, <2>2, <2>3 DEF WatchGood, WatchTable
  <2> QED
    BY <1>3, <2>1, <2>2, <2>3
<1> QED
  BY <1>1, <1>2, <1>3, <1>4 DEF WatchGood, WatchTable, WatchOK, Monitor

\* The document has a new monitor in the place of the one it had.
LEMMA WatchStarts ==
    ASSUME WatchGood, NEW d \in open, d \in Docs, UNCHANGED <<open, round>>,
           NEW id \in MonitorIds, id \notin Held,
           file_monitor_id' = [file_monitor_id EXCEPT ![d] = id],
           requests' = [i \in DOMAIN Without(file_monitor_id[d]) \cup {id} |->
                           IF i = id THEN [doc |-> d, newer |-> FALSE, alive |-> TRUE]
                           ELSE Without(file_monitor_id[d])[i]]
    PROVE  WatchGood'
<1>1. /\ DOMAIN requests' = (DOMAIN requests \ {file_monitor_id[d]}) \cup {id}
      /\ \A i \in DOMAIN requests' : requests'[i] = IF i = id THEN [doc |-> d, newer |-> FALSE, alive |-> TRUE]
                                                     ELSE requests[i]
      /\ requests' = [i \in DOMAIN requests' |-> requests'[i]]
  BY DEF Without
<1>2. /\ id \notin DOMAIN requests /\ id \notin round.ids /\ id \notin round.gone /\ id # 0
      /\ \A e \in Docs : file_monitor_id[e] # id
  BY DocFileAssumption DEF Held
<1>3. /\ file_monitor_id' \in [Docs -> MonitorIds \cup {0}]
      /\ \A e \in Docs : file_monitor_id'[e] = IF e = d THEN id ELSE file_monitor_id[e]
  BY DEF WatchGood, WatchOK
<1>4. [doc |-> d, newer |-> FALSE, alive |-> TRUE] \in Monitor
  BY DEF Monitor
<1>5. WatchOK'
  BY <1>1, <1>3, <1>4 DEF WatchGood, WatchOK
<1>6. GoneAreNobodys'
  BY <1>2, <1>3 DEF WatchGood, GoneAreNobodys
<1>7. ASSUME NEW e \in Docs, file_monitor_id'[e] # 0
      PROVE  /\ e \in open' /\ file_monitor_id'[e] \in DOMAIN requests'
             /\ requests'[file_monitor_id'[e]].doc = e /\ requests'[file_monitor_id'[e]].alive
  <2>1. CASE e = d
    BY <1>1, <1>3, <2>1
  <2>2. CASE e # d
    <3>1. file_monitor_id[e] # file_monitor_id[d] /\ file_monitor_id'[e] = file_monitor_id[e]
      BY <1>3, <1>7, <2>2 DEF WatchGood, WatchTable
    <3>2. /\ e \in open /\ file_monitor_id[e] \in DOMAIN requests
          /\ requests[file_monitor_id[e]].doc = e /\ requests[file_monitor_id[e]].alive
      BY <1>7, <3>1 DEF WatchGood, WatchTable
    <3>3. file_monitor_id[e] \in DOMAIN requests' /\ requests'[file_monitor_id[e]] = requests[file_monitor_id[e]]
      BY <1>1, <1>2, <3>1, <3>2
    <3> QED
      BY <3>1, <3>2, <3>3
  <2> QED
    BY <2>1, <2>2
<1>8. ASSUME NEW i \in DOMAIN requests', requests'[i].alive, i \notin round'.gone
      PROVE  requests'[i].doc \in open' /\ file_monitor_id'[requests'[i].doc] = i
  <2>1. CASE i = id
    BY <1>1, <1>3, <2>1
  <2>2. CASE i # id
    <3>1. i \in DOMAIN requests /\ requests'[i] = requests[i] /\ i # file_monitor_id[d]
      BY <1>1, <1>8, <2>2
    <3>2. requests[i].doc \in open /\ file_monitor_id[requests[i].doc] = i /\ requests[i].doc \in Docs
      BY <1>8, <3>1 DEF WatchGood, WatchTable, WatchOK, Monitor
    <3> QED
      BY <1>3, <3>1, <3>2
  <2> QED
    BY <2>1, <2>2
<1> QED
  BY <1>5, <1>6, <1>7, <1>8 DEF WatchGood, WatchTable

\* The others write a file: its monitors have something to report.
LEMMA WatchSeesMore ==
    ASSUME WatchGood, NEW d \in Docs, NEW later \in BOOLEAN, WrittenByOthers(d, later)
    PROVE  WatchGood'
<1>1. /\ DOMAIN requests' = DOMAIN requests
      /\ requests' = [i \in DOMAIN requests |->
                         IF requests[i].doc = d /\ later
                         THEN [requests[i] EXCEPT !.newer = TRUE] ELSE requests[i]]
      /\ UNCHANGED <<file_monitor_id, round, open>>
  BY DEF WrittenByOthers
<1>2. \A i \in DOMAIN requests :
        requests'[i] \in Monitor /\ requests'[i].doc = requests[i].doc /\ requests'[i].alive = requests[i].alive
  BY <1>1 DEF WatchGood, WatchOK, Monitor
<1> QED
  BY <1>1, <1>2 DEF WatchGood, WatchOK, WatchTable, GoneAreNobodys

\* The poll has looked at one file.
LEMMA WatchLooks ==
    ASSUME WatchGood, NEW id \in MonitorIds, do_stat_one(id)
    PROVE  WatchGood'
<1>1. id \in round.ids /\ UNCHANGED open /\ round \in [ids : SUBSET MonitorIds, gone : SUBSET MonitorIds]
      /\ id \notin round.gone
  BY DEF do_stat_one, WatchGood, WatchOK, GoneAreNobodys
<1> DEFINE d == requests[id].doc
           zeroed == [file_monitor_id EXCEPT ![d] = 0]
<1>2. ASSUME id \in DOMAIN requests, requests[id].alive
      PROVE  /\ d \in Docs /\ d \in open /\ file_monitor_id[d] = id
             /\ \A e \in Docs : file_monitor_id[e] = id => e = d
  BY <1>1, <1>2, DocFileAssumption DEF WatchGood, WatchOK, WatchTable, Monitor
<1>3. ASSUME NEW f, round' = [ids |-> round.ids \ {id}, gone |-> f], f \in SUBSET MonitorIds
      PROVE  round' \in [ids : SUBSET MonitorIds, gone : SUBSET MonitorIds]
  BY <1>1, <1>3
<1>4. CASE UNCHANGED <<requests, file_monitor_id>> /\ round' = [round EXCEPT !.ids = @ \ {id}]
  BY <1>1, <1>4 DEF WatchGood, WatchOK, WatchTable, GoneAreNobodys
<1>5. ASSUME id \in DOMAIN requests, requests[id].alive,
             round' = [ids |-> round.ids \ {id}, gone |-> round.gone \cup {id}],
             requests' = requests, file_monitor_id' = zeroed
      PROVE  WatchGood'
  <2>1. \A e \in Docs : zeroed[e] = IF e = d THEN 0 ELSE file_monitor_id[e]
    BY <1>2, <1>5 DEF WatchGood, WatchOK
  <2>2. WatchOK'
    BY <1>1, <1>5 DEF WatchGood, WatchOK
  <2>3. GoneAreNobodys'
    BY <1>1, <1>2, <1>5, <2>1, DocFileAssumption DEF WatchGood, WatchOK, GoneAreNobodys
  <2>4. WatchTable'
    BY <1>1, <1>2, <1>5, <2>1 DEF WatchGood, WatchOK, WatchTable, Monitor
  <2> QED
    BY <2>2, <2>3, <2>4 DEF WatchGood
<1>6. ASSUME id \in DOMAIN requests, requests[id].alive, round' = [round EXCEPT !.ids = @ \ {id}],
             \/ requests' = [requests EXCEPT ![id].alive = FALSE] /\ file_monitor_id' = zeroed
             \/ requests' = [requests EXCEPT ![id].newer = FALSE] /\ file_monitor_id' = file_monitor_id
      PROVE  WatchGood'
  <2>1. \A e \in Docs : zeroed[e] = IF e = d THEN 0 ELSE file_monitor_id[e]
    BY <1>2, <1>6 DEF WatchGood, WatchOK
  <2>2. DOMAIN requests' = DOMAIN requests /\ \A i \in DOMAIN requests : i # id => requests'[i] = requests[i]
    BY <1>6
  <2>3. requests'[id] \in Monitor /\ requests'[id].doc = d
        /\ (requests'[id].alive \/ (file_monitor_id' = zeroed /\ ~requests'[id].alive))
    <3>1. requests[id] \in Monitor
      BY <1>6 DEF WatchGood, WatchOK
    <3>2. \/ requests'[id] = [requests[id] EXCEPT !.alive = FALSE] /\ file_monitor_id' = zeroed
          \/ requests'[id] = [requests[id] EXCEPT !.newer = FALSE]
      BY <1>6
    <3>3. CASE requests'[id] = [requests[id] EXCEPT !.alive = FALSE] /\ file_monitor_id' = zeroed
      BY <3>1, <3>3 DEF Monitor
    <3>4. CASE requests'[id] = [requests[id] EXCEPT !.newer = FALSE]
      BY <1>6, <3>1, <3>4 DEF Monitor
    <3> QED
      BY <3>2, <3>3, <3>4
  <2>4. WatchOK'
    BY <1>1, <1>6, <2>2, <2>3 DEF WatchGood, WatchOK
  <2>5. GoneAreNobodys'
    BY <1>1, <1>6, <2>1, DocFileAssumption DEF WatchGood, WatchOK, GoneAreNobodys
  <2>6. WatchTable'
    BY <1>1, <1>2, <1>6, <2>1, <2>2, <2>3 DEF WatchGood, WatchOK, WatchTable, Monitor
  <2> QED
    BY <2>4, <2>5, <2>6 DEF WatchGood
\* ... and marks the document at once.
<1>7. ASSUME id \in DOMAIN requests, requests[id].alive,
             round' = [round EXCEPT !.ids = @ \ {id}],
             requests' = [i \in DOMAIN requests \ {id} |-> requests[i]], file_monitor_id' = zeroed
      PROVE  WatchGood'
  <2>1. \A e \in Docs : zeroed[e] = IF e = d THEN 0 ELSE file_monitor_id[e]
    BY <1>2, <1>7 DEF WatchGood, WatchOK
  <2>2. WatchOK'
    BY <1>1, <1>7 DEF WatchGood, WatchOK
  <2>3. GoneAreNobodys'
    BY <1>1, <1>7, <2>1, DocFileAssumption DEF WatchGood, WatchOK, GoneAreNobodys
  <2>4. WatchTable'
    BY <1>1, <1>2, <1>7, <2>1 DEF WatchGood, WatchOK, WatchTable, Monitor
  <2> QED
    BY <2>2, <2>3, <2>4 DEF WatchGood
<1>8. ASSUME id \in DOMAIN requests, requests[id].alive, NEW flag, NEW callback, NEW callee,
             NEW reqs, DOMAIN reqs = DOMAIN requests, reqs = [i \in DOMAIN requests |-> reqs[i]],
             Event(d, flag, callback, callee, reqs, zeroed)
      PROVE  requests' = reqs /\ file_monitor_id' = zeroed
  <2>1. CASE auto_sync
    BY <1>8, <2>1 DEF Event
  <2>2. CASE ~auto_sync
    <3>1. zeroed[d] = 0 /\ 0 \notin DOMAIN requests /\ [zeroed EXCEPT ![d] = 0] = zeroed
      BY <1>2, <1>8, DocFileAssumption DEF WatchGood, WatchOK
    <3>2. /\ requests' = [i \in DOMAIN reqs \ {zeroed[d]} |-> reqs[i]]
          /\ file_monitor_id' = [zeroed EXCEPT ![d] = 0]
      BY <1>8, <2>2, Zenon DEF Event, Marked
    <3>3. DOMAIN reqs \ {zeroed[d]} = DOMAIN requests
      BY <1>8, <3>1
    <3> QED
      BY <1>8, <3>1, <3>2, <3>3
  <2> QED
    BY <2>1, <2>2
<1>9. ASSUME id \in DOMAIN requests, requests[id].alive, NEW flag, NEW callback, NEW callee,
             Event(d, flag, callback, callee, [requests EXCEPT ![id].newer = FALSE], file_monitor_id)
      PROVE  \/ requests' = [requests EXCEPT ![id].newer = FALSE] /\ file_monitor_id' = file_monitor_id
             \/ requests' = [i \in DOMAIN requests \ {id} |-> requests[i]] /\ file_monitor_id' = zeroed
  <2> DEFINE reqs == [requests EXCEPT ![id].newer = FALSE]
  <2>1. CASE auto_sync
    BY <1>9, <2>1 DEF Event
  <2>2. CASE ~auto_sync
    <3>1. file_monitor_id[d] = id
      BY <1>2, <1>9
    <3>2. /\ requests' = [i \in DOMAIN reqs \ {id} |-> reqs[i]]
          /\ file_monitor_id' = zeroed
      BY <1>9, <2>2, <3>1 DEF Event, Marked
    <3>3. DOMAIN reqs = DOMAIN requests /\ \A i \in DOMAIN requests \ {id} : reqs[i] = requests[i]
      OBVIOUS
    <3> QED
      BY <3>2, <3>3
  <2> QED
    BY <2>1, <2>2
<1> DEFINE watched == id \in DOMAIN requests /\ requests[id].alive
           close   == [Call("close", NoDoc) EXCEPT !.docs = {d}]
           reload  == Call("reload", d)
<1>10. \/ /\ watched
           /\ round' = [ids |-> round.ids \ {id}, gone |-> round.gone \cup {id}]
           /\ Event(d, "DELETED", "file_deleted", close, requests, zeroed)
       \/ /\ watched
           /\ round' = [round EXCEPT !.ids = @ \ {id}]
           /\ Event(d, "MODIFIED_ON_DISK", "file_modified_on_disk", reload,
                    [requests EXCEPT ![id].alive = FALSE], zeroed)
       \/ /\ watched
           /\ round' = [round EXCEPT !.ids = @ \ {id}]
           /\ Event(d, "MODIFIED_ON_DISK", "file_modified_on_disk", reload,
                    [requests EXCEPT ![id].newer = FALSE], file_monitor_id)
       \/ /\ round' = [round EXCEPT !.ids = @ \ {id}]
           /\ UNCHANGED <<requests, file_monitor_id>>
  BY Zenon DEF do_stat_one
<1>11. CASE /\ watched
            /\ round' = [ids |-> round.ids \ {id}, gone |-> round.gone \cup {id}]
            /\ Event(d, "DELETED", "file_deleted", close, requests, zeroed)
  <2>1. requests = [i \in DOMAIN requests |-> requests[i]]
    BY DEF WatchGood, WatchOK
  <2>2. requests' = requests /\ file_monitor_id' = zeroed
    BY <1>8, <1>11, <2>1
  <2> QED
    BY <1>5, <1>11, <2>2
<1>12. CASE /\ watched
            /\ round' = [round EXCEPT !.ids = @ \ {id}]
            /\ Event(d, "MODIFIED_ON_DISK", "file_modified_on_disk", reload,
                     [requests EXCEPT ![id].alive = FALSE], zeroed)
  <2> DEFINE reqs == [requests EXCEPT ![id].alive = FALSE]
  <2>1. DOMAIN reqs = DOMAIN requests /\ reqs = [i \in DOMAIN requests |-> reqs[i]]
    OBVIOUS
  <2>2. requests' = reqs /\ file_monitor_id' = zeroed
    BY <1>8, <1>12, <2>1
  <2> QED
    BY <1>6, <1>12, <2>2
<1>13. CASE /\ watched
            /\ round' = [round EXCEPT !.ids = @ \ {id}]
            /\ Event(d, "MODIFIED_ON_DISK", "file_modified_on_disk", reload,
                     [requests EXCEPT ![id].newer = FALSE], file_monitor_id)
  BY <1>6, <1>7, <1>9, <1>13
<1> QED
  BY <1>4, <1>10, <1>11, <1>12, <1>13

\* What they tried did not work, and the document is marked.
LEMMA WatchTried ==
    ASSUME WatchGood, NEW d \in Docs, NEW flag, NEW r, UNCHANGED <<open, round>>,
           IF r THEN UNCHANGED <<status, requests, file_monitor_id>>
                ELSE Marked(d, flag, requests, file_monitor_id)
    PROVE  WatchGood'
<1>1. CASE UNCHANGED <<requests, file_monitor_id>>
  BY <1>1, WatchUnmoved
<1>2. CASE Marked(d, flag, requests, file_monitor_id)
  <2>1. StopWatch(d)
    BY <1>2 DEF Marked, StopWatch, Without
  <2> QED
    BY <2>1, WatchStops
<1> QED
  BY <1>1, <1>2

\* There is nothing to remove unless a poll is on the stack.
PollOnStack == HasPoll(calls) \/ round.gone = {}

WatchInvariant == TypeOK /\ WatchTable /\ GoneAreNobodys /\ PollOnStack

LEMMA WatchInit == Init => WatchInvariant
<1> SUFFICES ASSUME Init PROVE WatchInvariant
  OBVIOUS
<1> DEFINE ids == CHOOSE f \in [Docs -> MonitorIds] : \A d, e \in Docs : f[d] = f[e] => d = e
<1>1. ids \in [Docs -> MonitorIds] /\ \A d, e \in Docs : ids[d] = ids[e] => d = e
  BY DocFileAssumption
<1> HIDE DEF ids
<1>2. (CHOOSE t \in Texts : TRUE) \in Texts
  BY DocFileAssumption
<1>3. /\ file_monitor_id = ids
      /\ requests = [i \in {ids[d] : d \in Docs} |->
                     [doc |-> CHOOSE d \in Docs : ids[d] = i, newer |-> FALSE, alive |-> TRUE]]
      /\ round = [ids |-> {}, gone |-> {}] /\ open = Docs /\ calls = <<>>
  BY DEF Init, ids
<1>4. \A d \in Docs : (CHOOSE e \in Docs : ids[e] = ids[d]) = d
  BY <1>1
<1>5. \A d \in Docs : ids[d] \in DOMAIN requests
         /\ requests[ids[d]] = [doc |-> d, newer |-> FALSE, alive |-> TRUE]
  BY <1>3, <1>4
<1>6. \A i \in DOMAIN requests : \E d \in Docs : i = ids[d]
  BY <1>3
<1>7. WatchOK
  BY <1>1, <1>3, <1>5, <1>6 DEF WatchOK, Monitor
<1>8. WatchTable /\ GoneAreNobodys /\ PollOnStack
  BY <1>1, <1>3, <1>5, <1>6 DEF WatchTable, GoneAreNobodys, PollOnStack
<1>9. DocsOK
  BY <1>2 DEF Init, DocsOK
<1>10. RestOK /\ calls \in Seq(Frame) /\ ret \in BOOLEAN
  BY DocFileAssumption DEF Init, RestOK
<1> QED
  BY <1>7, <1>8, <1>9, <1>10, TypeParts DEF WatchInvariant

LEMMA WatchStep ==
    ASSUME WatchInvariant, Next
    PROVE  WatchGood'
<1>0. TypeOK /\ WatchGood
  BY TypeParts DEF WatchInvariant, WatchGood
<1>1. ASSUME UNCHANGED watch, UNCHANGED open PROVE WatchGood'
  BY <1>0, <1>1, WatchUnmoved
<1>2. ASSUME NEW d \in Docs, NEW later \in BOOLEAN, WrittenByOthers(d, later) PROVE WatchGood'
  BY <1>0, <1>2, WatchSeesMore
<1>3. \A d \in Docs : Typed(d) \/ DeletedByOthers(d) => WatchGood'
  BY <1>1 DEF Typed, DeletedByOthers
<1>4. \A d \in Docs, src \in {"named", "lost"} : Dispatched(d, src) => WatchGood'
  BY <1>1 DEF Dispatched
<1>5. Commands \/ moo_editor_reload \/ moo_edit_load_text \/ moo_editor_save \/ do_save \/ do_save_utf8
      \/ autosync_callback_end \/ GoesOnWithAClosed
      \/ reload_dialog \/ reload_error_dialog \/ overwrite_dialog \/ encoding_dialog \/ save_error_dialog
      => UNCHANGED watch /\ UNCHANGED open
  BY Zenon DEF Commands, moo_editor_reload, moo_edit_load_text, moo_editor_save, do_save, do_save_utf8,
     autosync_callback_end, GoesOnWithAClosed,
     reload_dialog, reload_error_dialog, overwrite_dialog, encoding_dialog, save_error_dialog
<1>6. ASSUME moo_editor_load_file PROVE WatchGood'
  BY <1>0, <1>6, WatchUnmoved DEF moo_editor_load_file
<1>7. ASSUME NEW ds, UNCHANGED <<open, watch>> \/ (ds \subseteq Docs /\ Closed(ds)) PROVE WatchGood'
  <2>1. CASE UNCHANGED <<open, watch>>
    BY <1>0, <2>1, WatchUnmoved
  <2>2. CASE ds \in SUBSET Docs /\ Closed(ds)
    BY <1>0, <2>2, WatchCloses
  <2> QED
    BY <1>7, <2>1, <2>2
<1>8. ASSUME moo_editor_load_file_end PROVE WatchGood'
  <2>1. Top.doc \in Docs
    BY <1>0, <1>8, TheCall DEF moo_editor_load_file_end, OfNoDoc
  <2> QED
    BY <1>7, <1>8, <2>1 DEF moo_editor_load_file_end
<1>9. ASSUME close_docs_real \/ save_changes_dialog \/ close_docs_real_saving PROVE WatchGood'
  <2>1. Top \in Frame
    BY <1>0, <1>9, TheCall DEF close_docs_real, save_changes_dialog, close_docs_real_saving
  <2>2. Top.docs \subseteq Docs
    BY <2>1 DEF Frame
  <2>3. UNCHANGED <<open, watch>> \/ Closed(Top.docs)
    BY <1>9, Zenon DEF close_docs_real, save_changes_dialog, close_docs_real_saving, CloseAll
  <2> QED
    BY <1>7, <2>2, <2>3
<1>10. ASSUME _moo_edit_load_file \/ try_encoding_dialog PROVE WatchGood'
  <2>1. Top.doc \in Docs
    <3>1. In("read") \/ In("try_encoding_dialog")
      BY <1>10, Zenon DEF _moo_edit_load_file, try_encoding_dialog
    <3>2. "read" \notin OfNoDoc /\ "try_encoding_dialog" \notin OfNoDoc
      BY DEF OfNoDoc
    <3> QED
      BY <1>0, <3>1, <3>2, TheCall
  <2>2. UNCHANGED open /\ (UNCHANGED watch \/ StopWatch(Top.doc))
    BY <1>10, Zenon DEF _moo_edit_load_file, try_encoding_dialog
  <2> QED
    BY <1>0, <1>1, <2>1, <2>2, WatchStops
<1>11. ASSUME _moo_edit_start_file_watch PROVE WatchGood'
  <2> DEFINE d == Top.doc
  <2>1. d \in Docs /\ d \in open
    BY <1>0, <1>11, TheCall DEF _moo_edit_start_file_watch, OfNoDoc
  <2>2. CASE StopWatch(d)
    BY <1>0, <1>11, <2>1, <2>2, WatchStops DEF _moo_edit_start_file_watch
  <2>3. CASE ~StopWatch(d)
    <3>1. /\ MonitorIds \ Held # {} /\ UNCHANGED <<open, round>>
          /\ file_monitor_id' = [file_monitor_id EXCEPT ![d] = FreshId]
          /\ requests' = [i \in DOMAIN Without(file_monitor_id[d]) \cup {FreshId} |->
                           IF i = FreshId THEN [doc |-> d, newer |-> FALSE, alive |-> TRUE]
                           ELSE Without(file_monitor_id[d])[i]]
      BY <1>11, <2>3, Zenon DEF _moo_edit_start_file_watch
    <3>2. FreshId \in MonitorIds /\ FreshId \notin Held
      BY <2>1, <3>1, Fresh
    <3> QED
      BY <1>0, <2>1, <3>1, <3>2, WatchStarts
  <2> QED
    BY <2>2, <2>3
<1>12. ASSUME file_modified_on_disk \/ file_deleted PROVE WatchGood'
  <2>1. Top.doc \in Docs
    BY <1>0, <1>12, TheCall DEF file_modified_on_disk, file_deleted, OfNoDoc
  <2>2. \E flag : Tried(flag) /\ UNCHANGED <<open, round>>
    BY <1>12, Zenon DEF file_modified_on_disk, file_deleted
  <2> QED
    BY <1>0, <2>1, <2>2, WatchTried DEF Tried
<1>13. ASSUME do_stat PROVE WatchGood'
  <2>1. /\ round' = [ids |-> DOMAIN requests, gone |-> {}]
        /\ UNCHANGED <<file_monitor_id, requests, open>>
    BY <1>13 DEF do_stat
  <2>2. round.gone = {}
    BY <1>13 DEF do_stat, HasPoll, WatchInvariant, PollOnStack
  <2> QED
    BY <1>0, <2>1, <2>2 DEF WatchGood, WatchOK, WatchTable, GoneAreNobodys
<1>14. ASSUME do_stat_end PROVE WatchGood'
  <2>1. /\ requests' = [i \in DOMAIN requests \ round.gone |-> requests[i]]
        /\ round' = [ids |-> {}, gone |-> {}] /\ UNCHANGED <<file_monitor_id, open>>
    BY <1>14 DEF do_stat_end
  <2>2. WatchOK'
    BY <1>0, <2>1 DEF WatchGood, WatchOK
  <2>3. GoneAreNobodys' /\ WatchTable'
    BY <1>0, <2>1 DEF WatchGood, WatchOK, WatchTable, GoneAreNobodys, Monitor
  <2> QED
    BY <2>2, <2>3 DEF WatchGood
<1>15. ASSUME NEW id \in MonitorIds, do_stat_one(id) PROVE WatchGood'
  BY <1>0, <1>15, WatchLooks
<1>16. Answer => WatchGood'
  BY <1>1, <1>5, <1>9, <1>10, Zenon DEF Answer
<1>17. Program => WatchGood'
  BY <1>1, <1>5, <1>6, <1>8, <1>9, <1>10, <1>11, <1>12, <1>14, <1>15, Zenon DEF Program
<1> QED
  BY <1>1, <1>2, <1>3, <1>4, <1>5, <1>13, <1>16, <1>17, Zenon DEF Next

LEMMA PollStep ==
    ASSUME WatchInvariant, Next
    PROVE  PollOnStack' /\ calls' \in Seq(Frame) /\ ret' \in BOOLEAN
<1>1. TypeOK
  BY DEF WatchInvariant
<1>2. CASE do_stat_end
  <2>1. In("do_stat") /\ Return(ret) /\ round' = [ids |-> {}, gone |-> {}]
    BY <1>2 DEF do_stat_end
  <2>2. calls # <<>> /\ ret \in BOOLEAN
    BY <1>1, <2>1, TheCall DEF TypeOK
  <2> QED
    BY <1>1, <2>1, <2>2, ReturnKeeps DEF PollOnStack
<1>3. CASE ~do_stat_end
  <2>1. StackKept
    BY <1>1, <1>3, StackStep
  <2>2. HasPoll(calls) \/ UNCHANGED round \/ round'.gone = {}
    <3>1. CASE do_stat
      BY <3>1 DEF do_stat
    <3>2. CASE \E id \in MonitorIds : do_stat_one(id)
      <4>1. calls # <<>> /\ Top.op = "do_stat"
        BY <1>1, <3>2, TheCall DEF do_stat_one
      <4>2. Len(calls) \in DOMAIN calls
        BY <1>1, <4>1 DEF TypeOK
      <4> QED
        BY <4>1, <4>2 DEF HasPoll, Top
    <3>3. CASE ~do_stat /\ ~\E id \in MonitorIds : do_stat_one(id)
      <4>1. Answer => UNCHANGED round
        BY Zenon DEF Answer, reload_dialog, try_encoding_dialog, reload_error_dialog, overwrite_dialog,
           encoding_dialog, save_error_dialog, save_changes_dialog, CloseAll, Closed, StopWatch
      <4>2. Program => UNCHANGED round
        BY <1>3, <3>3, Zenon DEF Program,
           moo_editor_load_file, moo_editor_load_file_end, moo_editor_reload, _moo_edit_load_file,
           moo_edit_load_text, _moo_edit_start_file_watch, moo_editor_save, do_save, do_save_utf8,
           autosync_callback_end, close_docs_real, close_docs_real_saving,
           file_modified_on_disk, file_deleted, GoesOnWithAClosed, CloseAll, Closed, StopWatch
      <4> QED
        BY <3>3, <4>1, <4>2, Zenon DEF Next, Typed, DeletedByOthers, WrittenByOthers, Dispatched, Commands
    <3> QED
      BY <3>1, <3>2, <3>3
  <2> QED
    BY <2>1, <2>2 DEF StackKept, PollOnStack, WatchInvariant
<1> QED
  BY <1>2, <1>3

LEMMA WatchInvariantKept == WatchInvariant /\ [Next]_vars => WatchInvariant'
<1>1. CASE WatchInvariant /\ Next
  <2>1. TypeOK
    BY <1>1 DEF WatchInvariant
  <2>2. WatchGood' /\ PollOnStack' /\ calls' \in Seq(Frame) /\ ret' \in BOOLEAN
    BY <1>1, WatchStep, PollStep
  <2>3. DocsOK' /\ RestOK'
    BY <1>1, <2>1, DocsStep, RestStep
  <2> QED
    BY <2>2, <2>3, TypeParts DEF WatchGood, WatchInvariant
<1>2. CASE WatchInvariant /\ UNCHANGED vars
  <2>1. UNCHANGED <<disk, text, known, hidden, status, file_monitor_id, requests, round,
             sync_timeout_id, orphans, open, calls, ret, auto_sync, acts, failures, broken>>
    BY <1>2 DEF vars
  <2>2. TypeOK'
    BY <1>2, <2>1 DEF WatchInvariant, TypeOK
  <2>3. WatchTable' /\ GoneAreNobodys'
    BY <1>2, <2>1 DEF WatchInvariant, WatchTable, GoneAreNobodys
  <2>4. PollOnStack'
    BY <1>2, <2>1 DEF WatchInvariant, PollOnStack, HasPoll
  <2> QED
    BY <2>2, <2>3, <2>4 DEF WatchInvariant
<1> QED
  BY <1>1, <1>2

(***************************************************************************)
(* Every variable of the documents, of the watch and of the stack of calls *)
(* keeps its type, whatever is opened, saved, reloaded and closed inside   *)
(* whatever else.                                                          *)
(***************************************************************************)
THEOREM DocFileTypeCorrect == Spec => []TypeOK
<1>1. WatchInvariant => TypeOK
  BY DEF WatchInvariant
<1> QED
  BY <1>1, WatchInit, WatchInvariantKept, PTL DEF Spec

(***************************************************************************)
(* file_watch_callback() runs only for open documents, with a monitor that *)
(* is the one the document knows; and a document that has an id has a      *)
(* living monitor under it, which is its own.                              *)
(***************************************************************************)
THEOREM EventsFindTheirDocument == Spec => []WatchTable
<1>1. WatchInvariant => WatchTable
  BY DEF WatchInvariant
<1> QED
  BY <1>1, WatchInit, WatchInvariantKept, PTL DEF Spec

-----------------------------------------------------------------------------
(* The modified flag *)

\* Of every document, open or not, and also when the program is broken.
Honest == \A d \in Docs : "MODIFIED" \notin status[d] => text[d] = known[d]

LEMMA HonestSaving ==
    ASSUME TypeOK, Honest, do_save \/ do_save_utf8
    PROVE  Honest'
<1> DEFINE d == Top.doc
<1>1. d \in Docs
  BY TheCall DEF do_save, do_save_utf8, OfNoDoc
<1>2. ASSUME NEW t, text' = [text EXCEPT ![d] = t], Saved(d, t) PROVE Honest'
  BY <1>1, <1>2 DEF Saved, Honest, TypeOK
<1>3. ASSUME UNCHANGED <<text, known, status>> PROVE Honest'
  BY <1>3 DEF Honest
<1>4. ASSUME UNCHANGED known, NEW t, text' = [text EXCEPT ![d] = t],
             status' = [status EXCEPT ![d] = @ \cup {"MODIFIED"}]
      PROVE  Honest'
  BY <1>1, <1>4 DEF Honest, TypeOK
<1>5. ASSUME UNCHANGED text, Saved(d, text[d]) PROVE Honest'
  <2>1. text' = [text EXCEPT ![d] = text[d]]
    BY <1>1, <1>5 DEF TypeOK
  <2> QED
    BY <1>2, <1>5, <2>1
<1>6. CASE do_save
  BY <1>2, <1>3, <1>4, <1>5, <1>6, Zenon DEF do_save, NotSaved, NotConverted
<1>7. CASE do_save_utf8
  BY <1>3, <1>5, <1>7, Zenon DEF do_save_utf8, NotSaved
<1> QED
  BY <1>6, <1>7

LEMMA HonestStep ==
    ASSUME TypeOK, Honest, Next
    PROVE  Honest'
<1>1. UNCHANGED <<text, known, status>> => Honest'
  BY DEF Honest
<1>2. ASSUME NEW d \in Docs, Typed(d) PROVE Honest'
  BY <1>2 DEF Typed, Honest, TypeOK
<1>3. \A d \in Docs, later \in BOOLEAN, src \in {"named", "lost"} :
         DeletedByOthers(d) \/ WrittenByOthers(d, later) \/ Dispatched(d, src)
         => UNCHANGED <<text, known, status>>
  BY Zenon DEF DeletedByOthers, WrittenByOthers, Dispatched
<1>4. Commands \/ do_stat => UNCHANGED <<text, known, status>>
  BY Zenon DEF Commands, do_stat
<1>5. Answer => UNCHANGED <<text, known, status>>
  BY Zenon DEF Answer, reload_dialog, try_encoding_dialog, reload_error_dialog, overwrite_dialog,
     encoding_dialog, save_error_dialog, save_changes_dialog
<1>6. ASSUME moo_editor_load_file \/ moo_edit_load_text PROVE Honest'
  <2>1. Top.doc \in Docs
    <3>1. In("open") \/ In("load_text")
      BY <1>6, Zenon DEF moo_editor_load_file, moo_edit_load_text
    <3> QED  BY <3>1, TheCall DEF OfNoDoc
  <2>2. \E t : text' = [text EXCEPT ![Top.doc] = t] /\ known' = [known EXCEPT ![Top.doc] = t]
    BY <1>6 DEF moo_editor_load_file, moo_edit_load_text
  <2>3. \E fs : status' = [status EXCEPT ![Top.doc] = fs]
    BY <1>6, Zenon DEF moo_editor_load_file, moo_edit_load_text
  <2> QED
    BY <2>1, <2>2, <2>3 DEF Honest, TypeOK
<1>7. ASSUME NEW d \in Docs, UNCHANGED <<text, known>>, NEW flag \in Flags \ {"MODIFIED"},
             \/ UNCHANGED status
             \/ status' = [status EXCEPT ![d] = @ \ {flag}]
             \/ status' = [status EXCEPT ![d] = @ \cup {flag}]
      PROVE  Honest'
  <2>1. \A e \in Docs : status'[e] \in {status[e], status[e] \ {flag}, status[e] \cup {flag}}
    BY <1>7 DEF TypeOK
  <2>2. \A e \in Docs : "MODIFIED" \notin status'[e] => "MODIFIED" \notin status[e]
    BY <1>7, <2>1
  <2> QED
    BY <1>7, <2>2 DEF Honest
<1>8. ASSUME _moo_edit_start_file_watch PROVE Honest'
  <2>1. Top.doc \in Docs /\ "WATCH_FAILED" \in Flags \ {"MODIFIED"}
    BY <1>8, TheCall DEF _moo_edit_start_file_watch, OfNoDoc, Flags
  <2>2. /\ UNCHANGED <<text, known>>
        /\ \/ status' = [status EXCEPT ![Top.doc] = @ \ {"WATCH_FAILED"}]
           \/ status' = [status EXCEPT ![Top.doc] = @ \cup {"WATCH_FAILED"}]
    BY <1>8, Zenon DEF _moo_edit_start_file_watch
  <2> QED
    BY <1>7, <2>1, <2>2
<1>9. ASSUME file_modified_on_disk \/ file_deleted PROVE Honest'
  <2>1. Top.doc \in Docs
    BY <1>9, TheCall DEF file_modified_on_disk, file_deleted, OfNoDoc
  <2>2. UNCHANGED <<text, known>> /\ \E flag \in {"MODIFIED_ON_DISK", "DELETED"} : Tried(flag)
    BY <1>9, Zenon DEF file_modified_on_disk, file_deleted
  <2> QED
    BY <1>7, <2>1, <2>2 DEF Tried, Marked, Flags
<1>10. ASSUME NEW id \in MonitorIds, do_stat_one(id) PROVE Honest'
  <2>1. UNCHANGED <<text, known>>
    BY <1>10 DEF do_stat_one
  <2>2. CASE id \in DOMAIN requests
    <3>1. requests[id].doc \in Docs
      BY <2>2 DEF TypeOK, Monitor
    <3> QED
      <4>1. \/ UNCHANGED status
            \/ \E flag \in {"MODIFIED_ON_DISK", "DELETED"} :
                  status' = [status EXCEPT ![requests[id].doc] = @ \cup {flag}]
        BY <1>10, Zenon DEF do_stat_one, Event, Marked
      <4>2. {"MODIFIED_ON_DISK", "DELETED"} \subseteq Flags \ {"MODIFIED"}
        BY DEF Flags
      <4> QED
        BY <1>1, <1>7, <2>1, <3>1, <4>1, <4>2
  <2>3. CASE id \notin DOMAIN requests
    BY <1>1, <1>10, <2>1, <2>3 DEF do_stat_one
  <2> QED
    BY <2>2, <2>3
<1>11. moo_editor_load_file_end \/ moo_editor_reload \/ _moo_edit_load_file \/ moo_editor_save
       \/ autosync_callback_end \/ close_docs_real \/ close_docs_real_saving \/ do_stat_end \/ GoesOnWithAClosed
       => UNCHANGED <<text, known, status>>
  BY Zenon DEF moo_editor_load_file_end, moo_editor_reload, _moo_edit_load_file, moo_editor_save,
     autosync_callback_end, close_docs_real, close_docs_real_saving, do_stat_end, GoesOnWithAClosed
<1>12. Program => Honest'
  BY <1>1, <1>6, <1>8, <1>9, <1>10, <1>11, HonestSaving, Zenon DEF Program
<1> QED
  BY <1>1, <1>2, <1>3, <1>4, <1>5, <1>12, Zenon DEF Next

(***************************************************************************)
(* A document not shown as modified holds what is in its file, as far as   *)
(* medit has read and written it: after failed saves, saves inside saves,  *)
(* and reloads of the same document inside a dialog about it.              *)
(***************************************************************************)
THEOREM NothingUnsavedLooksSaved == Spec => []UnmodifiedIsKnown
<1>1. Init => Honest
  BY DEF Init, Honest
<1>2. Honest /\ TypeOK /\ [Next]_vars => Honest'
  <2>1. Honest /\ UNCHANGED vars => Honest'
    BY DEF Honest, vars
  <2> QED
    BY <2>1, HonestStep
<1>3. Honest /\ TypeOK => UnmodifiedIsKnown
  BY DEF Honest, UnmodifiedIsKnown, TypeOK
<1> QED
  BY <1>1, <1>2, <1>3, DocFileTypeCorrect, PTL DEF Spec
=============================================================================
