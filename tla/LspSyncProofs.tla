--------------------------- MODULE LspSyncProofs ---------------------------
(***************************************************************************)
(* Proofs about LspSync, for every set of documents, every server program  *)
(* and every bound: its types, starting, failing and shutting down; then   *)
(* that it implements LspMirror, when the program of the server answers    *)
(* the same at every restart: no process is confused by what it is told, a *)
(* server that is ready mirrors the buffers, and what it has of a document *)
(* is a text that the document had.                                        *)
(***************************************************************************)
EXTENDS LspSync, SequenceTheorems, TLAPS

USE DEF managerVars, paneVars, handVars, stateVars, queueVars, kindVars, docVars

-----------------------------------------------------------------------------
(* Type correctness.  What is sent is a sequence of messages, and what a   *)
(* message makes of a view is a view; the other variables follow from the  *)
(* assignments of each action.                                             *)

\* The part of TypeOK that the messages are built from.
DocsOK ==
    /\ attached \subseteq Doc
    /\ docs \subseteq Doc
    /\ text \in [Doc -> Nat]
    /\ version \in [Doc -> Nat]
    /\ change_timeout \subseteq Doc

\* The part of TypeOK that Send() changes.
SentOK ==
    /\ queued \in Seq(Message)
    /\ seen \in [Doc -> View]

\* The part that nothing but a handful of assignments changes.
RestOK ==
    /\ manager \in Manager
    /\ idle_timeout \in BOOLEAN
    /\ attaches \in Nat
    /\ pane \in Pane
    /\ pane_due \in BOOLEAN
    /\ server \in Holding
    /\ state \in State
    /\ error \in Cause
    /\ client \in Client
    /\ initializing \in BOOLEAN
    /\ init_timeout \in BOOLEAN
    /\ quick_exits \in Nat
    /\ spawned \in Nat
    /\ flushing \in BOOLEAN
    /\ sync_kind \in Sync
    /\ offers \in MayOffer
    /\ phase \in Phase

LEMMA TypeParts == TypeOK <=> DocsOK /\ SentOK /\ RestOK
BY Zenon DEF TypeOK, DocsOK, SentOK, RestOK

LEMMA TypePartsNext == TypeOK' <=> DocsOK' /\ SentOK' /\ RestOK'
BY Zenon DEF TypeOK, DocsOK, SentOK, RestOK

\* A process that reads a message has a view of the document, if a confused one.
LEMMA ReceiveType ==
    ASSUME NEW v \in View, NEW m \in Message
    PROVE  Receive(v, m) \in View
<1>1. [state |-> "open", version |-> m.version, text |-> m.text] \in View
  BY DEF View, Message
<1>2. Closed \in View /\ Confused \in View
  BY DEF View, Closed, Confused
<1> QED  BY <1>1, <1>2 DEF Receive

LEMMA ReceiveAnyType ==
    ASSUME NEW v \in View, NEW ms \in Seq(Message)
    PROVE  ReceiveAny(v, ms) \in View
<1>1. CASE ms = <<>>
  BY <1>1 DEF ReceiveAny
<1>2. CASE ms # <<>>
  <2>1. ms[1] \in Message
    BY <1>2
  <2> QED  BY <1>2, <2>1, ReceiveType DEF ReceiveAny
<1> QED  BY <1>1, <1>2

\* Whatever is given to notify() and lsp_server_call() is queued or read.
LEMMA SendType ==
    ASSUME SentOK, NEW d \in Doc,
           NEW first \in Seq(Message), NEW second \in Seq(Message),
           Send(d, first, second)
    PROVE  SentOK'
<1>1. CASE queued' = queued /\ seen' = seen
  BY <1>1 DEF SentOK
<1>2. CASE queued' = Pushed(first \o second) /\ seen' = seen
  BY <1>2 DEF SentOK, Pushed
<1>3. CASE /\ seen' = [seen EXCEPT ![d] = ReceiveAny(ReceiveAny(@, first), second)]
           /\ queued' = queued
  <2>1. seen[d] \in View
    BY DEF SentOK
  <2>2. ReceiveAny(seen[d], first) \in View
    BY <2>1, ReceiveAnyType
  <2>3. ReceiveAny(ReceiveAny(seen[d], first), second) \in View
    BY <2>2, ReceiveAnyType
  <2> QED  BY <1>3, <2>3 DEF SentOK
<1> QED  BY <1>1, <1>2, <1>3 DEF Send

\* The messages about a document are messages.
LEMMA MessageTypes ==
    ASSUME DocsOK, NEW d \in Doc
    PROVE  /\ <<OpenOf(d)>> \in Seq(Message)
           /\ <<RequestOf(d)>> \in Seq(Message)
           /\ DidChange(d) \in Seq(Message)
           /\ Flushed(d) \in Seq(Message)
           /\ DidSave(d) \in Seq(Message)
           /\ DidClose(d) \in Seq(Message)
           /\ OpenOf(d) \in Message
           /\ CloseOf(d) \in Message
<1>1. /\ OpenOf(d) \in Message
      /\ CloseOf(d) \in Message
      /\ SaveOf(d) \in Message
      /\ RequestOf(d) \in Message
      /\ ChangeOf(d) \in Message
  BY DEF DocsOK, Message, Kind, OpenOf, CloseOf, SaveOf, RequestOf, ChangeOf
<1>2. <<>> \in Seq(Message)
  OBVIOUS
<1>3. ASSUME NEW m \in Message PROVE <<m>> \in Seq(Message)
  OBVIOUS
<1>4. /\ <<OpenOf(d)>> \in Seq(Message)
      /\ <<CloseOf(d)>> \in Seq(Message)
      /\ <<SaveOf(d)>> \in Seq(Message)
      /\ <<RequestOf(d)>> \in Seq(Message)
      /\ <<ChangeOf(d)>> \in Seq(Message)
  BY <1>1, <1>3
<1> QED
  BY <1>1, <1>2, <1>4 DEF DidChange, Flushed, DidSave, DidClose

LEMMA AfterFlushType ==
    ASSUME DocsOK, NEW d \in Doc, AfterFlush(d), UNCHANGED <<attached, docs, text>>
    PROVE  DocsOK'
BY DEF DocsOK, AfterFlush

LEMMA InitType == Init => TypeOK
<1> SUFFICES ASSUME Init PROVE TypeOK
  OBVIOUS
<1>1. DocsOK
  BY DEF Init, DocsOK
<1>2. SentOK
  BY DEF Init, SentOK, View, Closed
<1>3. RestOK
  <2>1. /\ idle_timeout \in BOOLEAN
        /\ pane_due \in BOOLEAN
        /\ initializing \in BOOLEAN
        /\ init_timeout \in BOOLEAN
        /\ flushing \in BOOLEAN
    BY Zenon DEF Init
  <2> QED
    BY <2>1 DEF Init, RestOK, Manager, Cause, Pane, Holding, State, Client, Sync, Phase
<1> QED  BY <1>1, <1>2, <1>3, TypeParts

\* set_failed() with a cause leaves the types of what it changes.
LEMMA SetFailedType ==
    ASSUME RestOK, NEW cause \in Cause, SetFailed(cause)
    PROVE  /\ error' \in Cause
           /\ state' \in State
           /\ docs' \subseteq Doc
           /\ queued' \in Seq(Message)
           /\ pane_due' \in BOOLEAN
<1>1. /\ error' = cause
      /\ state' = "FAILED"
      /\ docs' = {}
      /\ queued' = <<>>
      /\ pane_due' = (pane_due \/ (server = "manager" /\ attached # {}))
  BY DEF SetFailed, TellFailure, TellListeners
<1>2. pane_due' \in BOOLEAN
  BY <1>1, Zenon DEF RestOK
<1> QED  BY <1>1, <1>2 DEF State

\* A step that only talks about document d.
LEMMA TalkType ==
    ASSUME TypeOK, NEW d \in Doc,
           TimerFires(d) \/ Save(d) \/ Ask(d)
    PROVE  TypeOK'
<1>1. DocsOK /\ SentOK /\ RestOK
  BY TypeParts
<1>2. AfterFlush(d) /\ UNCHANGED <<attached, docs, text>>
  BY DEF TimerFires, Save, Ask
<1>3. DocsOK'
  BY <1>1, <1>2, AfterFlushType
<1>4. PICK first \in Seq(Message), second \in Seq(Message) : Send(d, first, second)
  <2>1. <<>> \in Seq(Message)
    OBVIOUS
  <2> QED
    BY <1>1, <2>1, MessageTypes DEF TimerFires, Save, Ask
<1>5. SentOK'
  BY <1>1, <1>4, SendType
<1>6. RestOK'
  <2>1. UNCHANGED <<managerVars, paneVars, handVars, stateVars, docs, flushing, kindVars, text>>
    BY DEF TimerFires, Save, Ask
  <2> QED  BY <1>1, <2>1, Zenon DEF RestOK
<1> QED  BY <1>3, <1>5, <1>6, TypePartsNext

LEMMA EditType ==
    ASSUME TypeOK, NEW d \in Doc, Edit(d)
    PROVE  TypeOK'
<1>1. DocsOK /\ SentOK /\ RestOK
  BY TypeParts
<1>2. /\ text' = [text EXCEPT ![d] = @ + 1]
      /\ change_timeout' \subseteq change_timeout \cup {d}
      /\ UNCHANGED <<managerVars, paneVars, handVars, stateVars, queueVars, kindVars, version, seen>>
  BY DEF Edit
<1>3. DocsOK'
  BY <1>1, <1>2 DEF DocsOK
<1>4. SentOK'
  BY <1>1, <1>2 DEF SentOK
<1>5. RestOK'
  BY <1>1, <1>2, Zenon DEF RestOK
<1> QED  BY <1>3, <1>4, <1>5, TypePartsNext

LEMMA AddFirstDocType ==
    ASSUME TypeOK, NEW d \in Doc, AddFirstDoc(d)
    PROVE  TypeOK'
<1>1. DocsOK /\ SentOK /\ RestOK
  BY TypeParts
<1>2. /\ attaches' = attaches + 1
      /\ attached' = {d}
      /\ idle_timeout' = (attached' = {})
      /\ pane_due' \in {TRUE, pane_due} /\ pane' \in {pane, "stale"}
      /\ server' = "manager"
      /\ docs' = {d}
      /\ version' = [version EXCEPT ![d] = 1]
      /\ spawned' = spawned + 1
      /\ seen' = [e \in Doc |-> Closed]
      /\ UNCHANGED <<manager, quick_exits, flushing, kindVars, text, change_timeout>>
  BY DEF AddFirstDoc, UpdateIdleTimeout, ActiveDocChanges, PaneIsLeft, Spawned, NotSpawned
<1>3. DocsOK'
  BY <1>1, <1>2 DEF DocsOK
<1>4. SentOK'
  <2>1. queued' \in Seq(Message)
    <3>1. queued' = <<OpenOf(d)>> \/ queued' = <<>>
      BY DEF AddFirstDoc
    <3>2. <<OpenOf(d)>> \in Seq(Message)
      BY <1>1, MessageTypes
    <3>3. <<>> \in Seq(Message)
      OBVIOUS
    <3> QED  BY <3>1, <3>2, <3>3
  <2>2. Closed \in View
    BY DEF Closed, View
  <2> QED  BY <1>2, <2>1, <2>2 DEF SentOK
<1>5. RestOK'
  <2>1. /\ idle_timeout' \in BOOLEAN
        /\ pane_due' \in BOOLEAN
        /\ flushing' \in BOOLEAN
    BY <1>1, <1>2, Zenon DEF RestOK
  <2>2. /\ initializing' \in BOOLEAN
        /\ init_timeout' \in BOOLEAN
    BY Zenon DEF AddFirstDoc, Spawned, NotSpawned, Deadline
  <2>3. /\ client' \in Client
        /\ phase' \in Phase
        /\ state' \in State
        /\ error' \in Cause
    BY <1>1 DEF AddFirstDoc, Spawned, NotSpawned, RestOK, Client, Phase, State, Cause
  <2> QED
    BY <1>1, <1>2, <2>1, <2>2, <2>3 DEF RestOK, Holding, Pane
<1> QED  BY <1>3, <1>4, <1>5, TypePartsNext

LEMMA AddDocType ==
    ASSUME TypeOK, NEW d \in Doc, AddDoc(d)
    PROVE  TypeOK'
<1>1. DocsOK /\ SentOK /\ RestOK
  BY TypeParts
<1>2. /\ attaches' = attaches + 1
      /\ attached' = attached \cup {d}
      /\ idle_timeout' = (attached' = {})
      /\ pane_due' \in {TRUE, pane_due} /\ pane' \in {pane, "stale"}
      /\ version' = [version EXCEPT ![d] = 1]
      /\ docs' \subseteq docs \cup {d}
      /\ UNCHANGED <<manager, handVars, stateVars, flushing, kindVars, text, change_timeout>>
  BY DEF AddDoc, UpdateIdleTimeout, ActiveDocChanges, PaneIsLeft, DidOpen
<1>3. DocsOK'
  BY <1>1, <1>2 DEF DocsOK
<1>4. SentOK'
  <2>1. CASE UNCHANGED <<queued, seen>>
    BY <1>1, <2>1 DEF SentOK
  <2>2. CASE Send(d, <<OpenOf(d)>>, <<>>)
    <3>1. <<>> \in Seq(Message) /\ <<OpenOf(d)>> \in Seq(Message)
      BY <1>1, MessageTypes
    <3> QED  BY <1>1, <2>2, <3>1, SendType
  <2> QED  BY <2>1, <2>2 DEF AddDoc, DidOpen
<1>5. RestOK'
  <2>1. /\ idle_timeout' \in BOOLEAN
        /\ pane_due' \in BOOLEAN
        /\ initializing' \in BOOLEAN
        /\ init_timeout' \in BOOLEAN
        /\ flushing' \in BOOLEAN
    BY <1>1, <1>2, Zenon DEF RestOK
  <2> QED  BY <1>1, <1>2, <2>1 DEF RestOK, Pane
<1> QED  BY <1>3, <1>4, <1>5, TypePartsNext

LEMMA RemoveDocType ==
    ASSUME TypeOK, NEW d \in Doc, RemoveDoc(d)
    PROVE  TypeOK'
<1>1. DocsOK /\ SentOK /\ RestOK
  BY TypeParts
<1>2. /\ attached' = attached \ {d}
      /\ idle_timeout' = (attached' = {})
      /\ pane_due' \in {TRUE, pane_due} /\ pane' \in {pane, "stale"}
      /\ change_timeout' = change_timeout \ {d}
      /\ docs' = docs \ {d}
      /\ Send(d, DidClose(d), <<>>)
      /\ UNCHANGED <<manager, attaches, handVars, stateVars, flushing, kindVars, text, version>>
  BY DEF RemoveDoc, UpdateIdleTimeout, ActiveDocChanges
<1>3. DocsOK'
  BY <1>1, <1>2 DEF DocsOK
<1>4. SentOK'
  <2>1. <<>> \in Seq(Message) /\ DidClose(d) \in Seq(Message)
    BY <1>1, MessageTypes
  <2> QED  BY <1>1, <1>2, <2>1, SendType
<1>5. RestOK'
  <2>1. /\ idle_timeout' \in BOOLEAN
        /\ pane_due' \in BOOLEAN
        /\ initializing' \in BOOLEAN
        /\ init_timeout' \in BOOLEAN
        /\ flushing' \in BOOLEAN
    BY <1>1, <1>2, Zenon DEF RestOK
  <2> QED  BY <1>1, <1>2, <2>1 DEF RestOK, Pane
<1> QED  BY <1>3, <1>4, <1>5, TypePartsNext

\* The handshake.
LEMMA HandshakeType ==
    ASSUME TypeOK, InitializeReply \/ InitializeRefused \/ InitializeTimedOut
    PROVE  TypeOK'
<1>1. DocsOK /\ SentOK /\ RestOK
  BY TypeParts
<1>2. CASE InitializeReply
  <2>1. /\ initializing' = FALSE
        /\ init_timeout' = FALSE
        /\ sync_kind' \in offers
        /\ phase' = IF phase = "exit" THEN phase ELSE "initialized"
        /\ state' = "READY"
        /\ docs' = docs \cup Reopened
        /\ seen' = [d \in Doc |-> IF d \in Reopened THEN Receive(seen[d], OpenOf(d)) ELSE seen[d]]
        /\ version' = [d \in Doc |-> IF d \in Reopened THEN 1 ELSE version[d]]
        /\ flushing' = (queued # <<>>)
        /\ UNCHANGED <<managerVars, paneVars, client, quick_exits, spawned, server, error, queued,
                       offers, text, change_timeout>>
    BY <1>2 DEF InitializeReply
  <2>2. Reopened \subseteq Doc
    BY <1>1 DEF Reopened, DocsOK
  <2>3. DocsOK'
    BY <1>1, <2>1, <2>2 DEF DocsOK
  <2>4. SentOK'
    <3>1. ASSUME NEW d \in Doc PROVE seen[d] \in View /\ Receive(seen[d], OpenOf(d)) \in View
      <4>1. seen[d] \in View
        BY <1>1 DEF SentOK
      <4> QED  BY <1>1, <4>1, MessageTypes, ReceiveType
    <3> QED  BY <1>1, <2>1, <3>1 DEF SentOK
  <2>5. RestOK'
    <3>1. /\ idle_timeout' \in BOOLEAN
          /\ pane_due' \in BOOLEAN
          /\ initializing' \in BOOLEAN
          /\ init_timeout' \in BOOLEAN
          /\ flushing' \in BOOLEAN
      BY <1>1, <2>1, Zenon DEF RestOK
    <3>2. offers \subseteq Sync
      BY <1>1, SyncAssumption DEF RestOK
    <3> QED  BY <1>1, <2>1, <3>1, <3>2 DEF RestOK, State, Phase
  <2> QED  BY <2>3, <2>4, <2>5, TypePartsNext
<1>3. CASE InitializeRefused \/ InitializeTimedOut
  <2>1. PICK cause \in Cause : SetFailed(cause)
    BY <1>3 DEF InitializeRefused, InitializeTimedOut, Cause
  <2>2. /\ initializing' = FALSE
        /\ init_timeout' = FALSE
        /\ client' \in {client, "none"}
        /\ UNCHANGED <<managerVars, pane, quick_exits, spawned, phase, server, flushing,
                       kindVars, docVars, seen>>
    BY <1>3 DEF InitializeRefused, InitializeTimedOut
  <2>3. DocsOK'
    BY <1>1, <2>1, <2>2, SetFailedType DEF DocsOK
  <2>4. SentOK'
    BY <1>1, <2>1, <2>2, SetFailedType DEF SentOK
  <2>5. RestOK'
    <3>1. /\ idle_timeout' \in BOOLEAN
          /\ initializing' \in BOOLEAN
          /\ init_timeout' \in BOOLEAN
          /\ flushing' \in BOOLEAN
      BY <1>1, <2>2, Zenon DEF RestOK
    <3>2. error' \in Cause /\ state' \in State /\ pane_due' \in BOOLEAN
      BY <1>1, <2>1, SetFailedType
    <3> QED  BY <1>1, <2>2, <3>1, <3>2 DEF RestOK, Client
  <2> QED  BY <2>3, <2>4, <2>5, TypePartsNext
<1> QED  BY <1>2, <1>3

LEMMA FlushStepType ==
    ASSUME TypeOK, FlushStep, queued # <<>>
    PROVE  TypeOK'
<1>1. DocsOK /\ SentOK /\ RestOK
  BY TypeParts
<1>2. /\ seen' = [seen EXCEPT ![Head(queued).doc] = Receive(@, Head(queued))]
      /\ queued' = Tail(queued)
      /\ flushing' = (queued' # <<>>)
      /\ UNCHANGED <<managerVars, paneVars, handVars, stateVars, docs, kindVars, docVars>>
  BY DEF FlushStep
<1>3. DocsOK'
  BY <1>1, <1>2 DEF DocsOK
<1>4. SentOK'
  <2>1. Head(queued) \in Message /\ Tail(queued) \in Seq(Message)
    BY <1>1 DEF SentOK
  <2>2. Head(queued).doc \in Doc
    BY <2>1 DEF Message
  <2>3. seen[Head(queued).doc] \in View
    BY <1>1, <2>2 DEF SentOK
  <2>4. Receive(seen[Head(queued).doc], Head(queued)) \in View
    BY <2>1, <2>3, ReceiveType
  <2> QED  BY <1>1, <1>2, <2>1, <2>4 DEF SentOK
<1>5. RestOK'
  <2>1. /\ idle_timeout' \in BOOLEAN
        /\ pane_due' \in BOOLEAN
        /\ initializing' \in BOOLEAN
        /\ init_timeout' \in BOOLEAN
        /\ flushing' \in BOOLEAN
    BY <1>1, <1>2, Zenon DEF RestOK
  <2> QED  BY <1>1, <1>2, <2>1 DEF RestOK
<1> QED  BY <1>3, <1>4, <1>5, TypePartsNext

\* The end of the process.
LEMMA ExitType ==
    ASSUME TypeOK, NEW quick \in BOOLEAN,
           ExitOfReleased \/ GiveUp(quick) \/ Restart(quick)
    PROVE  TypeOK'
<1>1. DocsOK /\ SentOK /\ RestOK
  BY TypeParts
<1>2. QuickExits(quick) \in Nat
  BY <1>1 DEF QuickExits, RestOK
<1>3. /\ initializing' \in BOOLEAN
      /\ init_timeout' \in BOOLEAN
  BY Zenon DEF ExitOfReleased, GiveUp, Restart, Spawned, NotSpawned, Deadline
<1>4. UNCHANGED <<managerVars, pane, server, flushing, kindVars, docVars>>
  BY DEF ExitOfReleased, GiveUp, Restart
<1>5. /\ idle_timeout' \in BOOLEAN
      /\ flushing' \in BOOLEAN
  BY <1>1, <1>4, Zenon DEF RestOK
<1>6. ASSUME UNCHANGED seen,
             docs' \subseteq Doc, queued' \in Seq(Message), pane_due' \in BOOLEAN,
             error' \in Cause, state' \in State, client' \in Client, phase' \in Phase,
             quick_exits' \in Nat, spawned' \in Nat
      PROVE  TypeOK'
  <2>1. DocsOK'
    BY <1>1, <1>4, <1>6 DEF DocsOK
  <2>2. SentOK'
    BY <1>1, <1>6 DEF SentOK
  <2>3. RestOK'
    BY <1>1, <1>3, <1>4, <1>5, <1>6 DEF RestOK
  <2> QED  BY <2>1, <2>2, <2>3, TypePartsNext
<1>7. CASE ExitOfReleased
  <2>1. client' = "down" /\ UNCHANGED <<quick_exits, spawned, phase, seen>>
    BY <1>7 DEF ExitOfReleased
  <2>2. CASE SetFailed("exited")
    <3>1. "exited" \in Cause
      BY DEF Cause
    <3>2. /\ error' \in Cause /\ state' \in State /\ docs' \subseteq Doc
          /\ queued' \in Seq(Message) /\ pane_due' \in BOOLEAN
      BY <1>1, <2>2, <3>1, SetFailedType
    <3> QED  BY <1>1, <1>6, <2>1, <3>2 DEF RestOK, Client
  <2>3. CASE UNCHANGED <<error, state, docs, queued, pane_due>>
    <3>1. pane_due' \in BOOLEAN
      BY <1>1, <2>3, Zenon DEF RestOK
    <3> QED  BY <1>1, <1>6, <2>1, <2>3, <3>1 DEF RestOK, DocsOK, SentOK, Client
  <2> QED  BY <1>7, <2>2, <2>3 DEF ExitOfReleased
<1>8. CASE GiveUp(quick)
  <2>1. "quick" \in Cause
    BY DEF Cause
  <2>2. /\ error' \in Cause /\ state' \in State /\ docs' \subseteq Doc
        /\ queued' \in Seq(Message) /\ pane_due' \in BOOLEAN
    BY <1>1, <1>8, <2>1, SetFailedType DEF GiveUp
  <2>3. /\ client' = "down" /\ quick_exits' = QuickExits(quick)
        /\ UNCHANGED <<spawned, phase, seen>>
    BY <1>8 DEF GiveUp
  <2> QED  BY <1>1, <1>2, <1>6, <2>2, <2>3 DEF RestOK, Client
<1>9. CASE Restart(quick)
  <2>1. /\ spawned' = spawned + 1
        /\ quick_exits' = QuickExits(quick)
        /\ queued' = <<>>
        /\ docs' = {}
        /\ seen' = [d \in Doc |-> Closed]
    BY <1>9 DEF Restart, Spawned, NotSpawned, DocsOfNewProcess
  <2>2. pane_due' \in BOOLEAN
    BY <1>1, <1>9, Zenon DEF Restart, TellFailure, TellListeners, RestOK
  <2>3. error' \in Cause /\ state' \in State /\ client' \in Client /\ phase' \in Phase
    BY <1>1, <1>9 DEF Restart, Spawned, NotSpawned, RestOK, Cause, State, Client, Phase
  <2>4. DocsOK'
    BY <1>1, <1>4, <2>1 DEF DocsOK
  <2>5. SentOK'
    BY <2>1 DEF SentOK, Closed, View
  <2>6. RestOK'
    BY <1>1, <1>2, <1>3, <1>4, <1>5, <2>1, <2>2, <2>3 DEF RestOK
  <2> QED  BY <2>4, <2>5, <2>6, TypePartsNext
<1> QED  BY <1>7, <1>8, <1>9

\* Shutting down.
LEMMA ShutdownType ==
    ASSUME TypeOK,
           IdleExpired \/ ManagerStops \/ ManagerStopped \/ ExitTimedOut \/ FillPane \/ PaneOpened
    PROVE  TypeOK'
<1>1. DocsOK /\ SentOK /\ RestOK
  BY TypeParts
<1>2. ASSUME Release
      PROVE  /\ idle_timeout' \in BOOLEAN /\ init_timeout' \in BOOLEAN
             /\ docs' \subseteq Doc /\ queued' \in Seq(Message)
             /\ server' \in Holding /\ client' \in Client /\ phase' \in Phase
  <2>1. idle_timeout' \in BOOLEAN /\ init_timeout' \in BOOLEAN
    BY <1>2, Zenon DEF Release
  <2> QED  BY <1>1, <1>2, <2>1 DEF Release, Holding, Client, Phase, RestOK
<1>3. CASE IdleExpired
  <2>1. /\ Release
        /\ UNCHANGED <<manager, attached, attaches, paneVars, initializing, quick_exits, spawned,
                       state, error, flushing, kindVars, docVars, seen>>
    BY <1>3 DEF IdleExpired
  <2>2. /\ pane_due' \in BOOLEAN /\ initializing' \in BOOLEAN /\ flushing' \in BOOLEAN
    BY <1>1, <2>1, Zenon DEF RestOK
  <2>3. DocsOK' /\ SentOK'
    BY <1>1, <1>2, <2>1 DEF DocsOK, SentOK
  <2>4. RestOK'
    BY <1>1, <1>2, <2>1, <2>2 DEF RestOK
  <2> QED  BY <2>3, <2>4, TypePartsNext
<1>4. CASE ManagerStops
  <2>1. DocsOK' /\ SentOK'
    BY <1>1, <1>4 DEF ManagerStops, DocsOK, SentOK
  <2>2. RestOK'
    <3>1. manager' = "stopping" /\ UNCHANGED <<idle_timeout, attaches, paneVars, handVars, stateVars,
                                               flushing, kindVars>>
      BY <1>4 DEF ManagerStops
    <3>2. manager' \in Manager
      BY <3>1 DEF Manager
    <3> QED  BY <1>1, <3>1, <3>2, Zenon DEF RestOK
  <2> QED  BY <2>1, <2>2, TypePartsNext
<1>5. CASE ManagerStopped
  <2>1. /\ manager' = "stopped"
        /\ attached' = {}
        /\ change_timeout' = {}
        /\ seen' = [d \in Doc |-> IF state = "READY" /\ d \in attached \cap docs
                                  THEN Receive(seen[d], CloseOf(d)) ELSE seen[d]]
        /\ \/ Release
           \/ UNCHANGED <<idle_timeout, init_timeout, docs, queued, server, client, phase>>
        /\ UNCHANGED <<attaches, paneVars, initializing, quick_exits, spawned, state, error,
                       flushing, kindVars, text, version>>
    BY <1>5 DEF ManagerStopped
  <2>2. /\ idle_timeout' \in BOOLEAN /\ init_timeout' \in BOOLEAN
        /\ docs' \subseteq Doc /\ queued' \in Seq(Message)
        /\ server' \in Holding /\ client' \in Client /\ phase' \in Phase
    <3>1. CASE Release
      BY <1>2, <3>1
    <3>2. CASE UNCHANGED <<idle_timeout, init_timeout, docs, queued, server, client, phase>>
      <4>1. idle_timeout' \in BOOLEAN /\ init_timeout' \in BOOLEAN
        BY <1>1, <3>2, Zenon DEF RestOK
      <4> QED  BY <1>1, <3>2, <4>1 DEF RestOK, DocsOK, SentOK
    <3> QED  BY <2>1, <3>1, <3>2
  <2>3. DocsOK'
    BY <1>1, <2>1, <2>2 DEF DocsOK
  <2>4. SentOK'
    <3>1. ASSUME NEW d \in Doc PROVE seen[d] \in View /\ Receive(seen[d], CloseOf(d)) \in View
      <4>1. seen[d] \in View
        BY <1>1 DEF SentOK
      <4> QED  BY <1>1, <4>1, MessageTypes, ReceiveType
    <3> QED  BY <1>1, <2>1, <2>2, <3>1 DEF SentOK
  <2>5. RestOK'
    <3>1. /\ pane_due' \in BOOLEAN /\ initializing' \in BOOLEAN /\ flushing' \in BOOLEAN
      BY <1>1, <2>1, Zenon DEF RestOK
    <3> QED  BY <1>1, <2>1, <2>2, <3>1 DEF RestOK, Manager
  <2> QED  BY <2>3, <2>4, <2>5, TypePartsNext
<1>6. CASE ExitTimedOut
  <2>1. /\ server' = "freed"
        /\ client' = "none"
        /\ initializing' = FALSE
        /\ SetFailed("disconnected") \/ UNCHANGED <<error, state, docs, queued, pane_due>>
        /\ UNCHANGED <<managerVars, pane, init_timeout, quick_exits, spawned, phase, flushing,
                       kindVars, docVars, seen>>
    BY <1>6 DEF ExitTimedOut
  <2>2. /\ error' \in Cause /\ state' \in State /\ docs' \subseteq Doc
        /\ queued' \in Seq(Message) /\ pane_due' \in BOOLEAN
    <3>1. CASE SetFailed("disconnected")
      <4>1. "disconnected" \in Cause
        BY DEF Cause
      <4> QED  BY <1>1, <3>1, <4>1, SetFailedType
    <3>2. CASE UNCHANGED <<error, state, docs, queued, pane_due>>
      <4>1. pane_due' \in BOOLEAN
        BY <1>1, <3>2, Zenon DEF RestOK
      <4> QED  BY <1>1, <3>2, <4>1 DEF RestOK, DocsOK, SentOK
    <3> QED  BY <2>1, <3>1, <3>2
  <2>3. DocsOK' /\ SentOK'
    BY <1>1, <2>1, <2>2 DEF DocsOK, SentOK
  <2>4. RestOK'
    <3>1. /\ idle_timeout' \in BOOLEAN /\ init_timeout' \in BOOLEAN
          /\ initializing' \in BOOLEAN /\ flushing' \in BOOLEAN
      BY <1>1, <2>1, Zenon DEF RestOK
    <3> QED  BY <1>1, <2>1, <2>2, <3>1 DEF RestOK, Holding, Client
  <2> QED  BY <2>3, <2>4, TypePartsNext
<1>7. CASE FillPane \/ PaneOpened
  <2>1. /\ pane_due' \in BOOLEAN
        /\ pane' \in {error, "none", pane}
        /\ UNCHANGED <<managerVars, handVars, stateVars, queueVars, kindVars, docVars, seen>>
    BY <1>7 DEF FillPane, PaneOpened
  <2>2. DocsOK' /\ SentOK'
    BY <1>1, <2>1 DEF DocsOK, SentOK
  <2>3. RestOK'
    <3>1. /\ idle_timeout' \in BOOLEAN /\ init_timeout' \in BOOLEAN /\ pane_due' \in BOOLEAN
          /\ initializing' \in BOOLEAN /\ flushing' \in BOOLEAN
      BY <1>1, <2>1, Zenon DEF RestOK
    <3> QED  BY <1>1, <2>1, <3>1 DEF RestOK, Cause, Pane
  <2> QED  BY <2>2, <2>3, TypePartsNext
<1> QED  BY <1>3, <1>4, <1>5, <1>6, <1>7

-----------------------------------------------------------------------------
(* What is true of the lifecycle in every reachable state.                 *)

\* The loop of flush_queue() is entered, and left, with messages to send.
FlushGuarded == flushing => queued # <<>>

\* The invariant: none of its parts is enough for the others, and TypeOK needs
\* FlushGuarded for the message that flush_queue() takes.
SyncInvariant == TypeOK /\ FlushGuarded /\ HandshakeGuarded /\ FailureIsShown

LEMMA SyncInit == Init => SyncInvariant
<1>1. Init => FlushGuarded /\ HandshakeGuarded /\ FailureIsShown
  BY DEF Init, FlushGuarded, HandshakeGuarded, FailureIsShown, FailureToShow
<1> QED  BY <1>1, InitType DEF SyncInvariant

\* Everything but flush_queue() waits for flush_queue().
LEMMA FlushGuardedStep ==
    ASSUME FlushGuarded, [Next]_vars
    PROVE  FlushGuarded'
<1>1. CASE UNCHANGED vars
  BY <1>1 DEF FlushGuarded, vars
<1>2. CASE InitializeReply
  BY <1>2 DEF InitializeReply, FlushGuarded
<1>3. CASE FlushStep
  BY <1>3 DEF FlushStep, FlushGuarded
<1>4. CASE Next /\ ~InitializeReply /\ ~FlushStep
  <2>1. ~flushing /\ flushing' = flushing
    BY <1>4 DEF Next, Edit, TimerFires, Save, Ask, AddFirstDoc, AddDoc, RemoveDoc,
                InitializeRefused, InitializeTimedOut, GiveUp, Restart, ExitOfReleased, FillPane, PaneOpened,
                IdleExpired, ManagerStops, ManagerStopped, ExitTimedOut
  <2> QED  BY <2>1 DEF FlushGuarded
<1> QED  BY <1>1, <1>2, <1>3, <1>4

\* A step that leaves a server starting is one that starts it or leaves the
\* handshake alone.
LEMMA HandshakeStep ==
    ASSUME HandshakeGuarded, [Next]_vars
    PROVE  HandshakeGuarded'
<1>1. CASE UNCHANGED vars
  BY <1>1 DEF HandshakeGuarded, vars
<1>2. CASE \E d \in Doc : AddFirstDoc(d)
  BY <1>2 DEF AddFirstDoc, Spawned, NotSpawned, HandshakeGuarded, Deadline
<1>3. CASE \E quick \in BOOLEAN : Restart(quick)
  BY <1>3 DEF Restart, Spawned, NotSpawned, HandshakeGuarded, Deadline
<1>4. CASE InitializeReply \/ InitializeRefused \/ InitializeTimedOut
           \/ \E quick \in BOOLEAN : GiveUp(quick)
  BY <1>4 DEF InitializeReply, InitializeRefused, InitializeTimedOut, GiveUp, SetFailed,
              HandshakeGuarded
<1>5. CASE ExitOfReleased \/ IdleExpired \/ ExitTimedOut
  BY <1>5 DEF ExitOfReleased, Restarts, IdleExpired, ExitTimedOut, Release, HandshakeGuarded
<1>6. CASE ManagerStopped
  BY <1>6 DEF ManagerStopped, Release, HandshakeGuarded
<1>7. CASE FlushStep \/ FillPane \/ PaneOpened \/ ManagerStops
           \/ \E d \in Doc : Edit(d) \/ TimerFires(d) \/ Save(d) \/ Ask(d) \/ AddDoc(d) \/ RemoveDoc(d)
  <2>1. UNCHANGED <<handVars, stateVars>>
    BY <1>7 DEF FlushStep, FillPane, PaneOpened, ManagerStops, Edit, TimerFires, Save, Ask, AddDoc,
                RemoveDoc
  <2> QED  BY <2>1 DEF HandshakeGuarded
<1> QED  BY <1>1, <1>2, <1>3, <1>4, <1>5, <1>6, <1>7 DEF Next

\* set_failed() makes the pane due whenever it has a new message for it.
LEMMA FailureStep ==
    ASSUME FailureIsShown, [Next]_vars
    PROVE  FailureIsShown'
<1>1. CASE UNCHANGED vars
  BY <1>1 DEF FailureIsShown, FailureToShow, vars
<1>2. CASE \E d \in Doc : AddFirstDoc(d) \/ AddDoc(d) \/ RemoveDoc(d)
  BY <1>2 DEF AddFirstDoc, AddDoc, RemoveDoc, ActiveDocChanges, PaneIsLeft, FailureIsShown,
              FailureToShow
<1>3. CASE \E quick \in BOOLEAN : Restart(quick)
  BY <1>3 DEF Restart, Spawned, NotSpawned, TellListeners, FailureIsShown, FailureToShow
<1>4. CASE InitializeRefused \/ InitializeTimedOut \/ \E quick \in BOOLEAN : GiveUp(quick)
  BY <1>4 DEF InitializeRefused, InitializeTimedOut, GiveUp, SetFailed, TellFailure,
              TellListeners, FailureIsShown, FailureToShow
<1>5. CASE InitializeReply
  BY <1>5 DEF InitializeReply, FailureIsShown, FailureToShow
<1>6. CASE ExitOfReleased \/ IdleExpired \/ ExitTimedOut
  BY <1>6 DEF ExitOfReleased, Restarts, IdleExpired, ExitTimedOut, Release, FailureIsShown,
              FailureToShow
<1>7. CASE ManagerStopped
  BY <1>7 DEF ManagerStopped, FailureIsShown, FailureToShow
<1>8. CASE FillPane \/ PaneOpened
  BY <1>8 DEF FillPane, PaneOpened, FailureIsShown, FailureToShow
<1>9. CASE FlushStep \/ ManagerStops
           \/ \E d \in Doc : Edit(d) \/ TimerFires(d) \/ Save(d) \/ Ask(d)
  <2>1. UNCHANGED <<attached, paneVars, stateVars>>
    BY <1>9 DEF FlushStep, ManagerStops, Edit, TimerFires, Save, Ask
  <2> QED  BY <2>1 DEF FailureIsShown, FailureToShow
<1> QED  BY <1>1, <1>2, <1>3, <1>4, <1>5, <1>6, <1>7, <1>8, <1>9 DEF Next

LEMMA TypeStep ==
    ASSUME TypeOK, FlushGuarded, [Next]_vars
    PROVE  TypeOK'
<1>1. CASE UNCHANGED vars
  BY <1>1, Zenon DEF TypeOK, vars
<1>2. ASSUME NEW d \in Doc,
             \/ Edit(d) \/ TimerFires(d) \/ Save(d) \/ Ask(d)
             \/ AddFirstDoc(d) \/ AddDoc(d) \/ RemoveDoc(d)
      PROVE  TypeOK'
  BY <1>2, EditType, TalkType, AddFirstDocType, AddDocType, RemoveDocType
<1>3. CASE InitializeReply \/ InitializeRefused \/ InitializeTimedOut
  BY <1>3, HandshakeType
<1>4. CASE FlushStep
  <2>1. queued # <<>>
    BY <1>4 DEF FlushStep, FlushGuarded
  <2> QED  BY <1>4, <2>1, FlushStepType
<1>5. ASSUME NEW quick \in BOOLEAN, GiveUp(quick) \/ Restart(quick)
      PROVE  TypeOK'
  BY <1>5, ExitType
<1>6. CASE ExitOfReleased
  <2>1. TRUE \in BOOLEAN
    OBVIOUS
  <2> QED  BY <1>6, <2>1, ExitType
<1>7. CASE IdleExpired \/ ManagerStops \/ ManagerStopped \/ ExitTimedOut \/ FillPane \/ PaneOpened
  BY <1>7, ShutdownType
<1> QED  BY <1>1, <1>2, <1>3, <1>4, <1>5, <1>6, <1>7 DEF Next

\* Init and every step keep the invariant.
THEOREM SyncIsInvariant == Spec => []SyncInvariant
<1>1. SyncInvariant /\ [Next]_vars => SyncInvariant'
  BY TypeStep, FlushGuardedStep, HandshakeStep, FailureStep DEF SyncInvariant
<1> QED  BY SyncInit, <1>1, PTL DEF Spec

\* Every variable of the server, the manager and the documents keeps its type.
THEOREM SyncTypeCorrect == Spec => []TypeOK
<1>1. SyncInvariant => TypeOK
  BY DEF SyncInvariant
<1> QED  BY SyncIsInvariant, <1>1, PTL

\* A server that is starting has a process, an initialize call that is not
\* answered and a deadline: start_process() and initialize_reply() leave no
\* other way to be in that state.
THEOREM NeverStuckStarting == Spec => []HandshakeGuarded
<1>1. SyncInvariant => HandshakeGuarded
  BY DEF SyncInvariant
<1> QED  BY SyncIsInvariant, <1>1, PTL

\* The pane that is up to date shows the last message of set_failed(), but for
\* a document attached again under it.
THEOREM LastFailureIsShown == Spec => []FailureIsShown
<1>1. SyncInvariant => FailureIsShown
  BY DEF SyncInvariant
<1> QED  BY SyncIsInvariant, <1>1, PTL

-----------------------------------------------------------------------------
(* The idle timeout.                                                       *)

\* A document that is attached has stopped the timer: this is what the timer
\* that expires finds, and UsedIsNotIdle is not enough for it.
IdleInvariant == UsedIsNotIdle /\ (idle_timeout => attached = {})

LEMMA IdleStep ==
    ASSUME IdleInvariant, [Next]_vars
    PROVE  IdleInvariant'
<1>1. CASE \E d \in Doc : AddFirstDoc(d)
  BY <1>1 DEF IdleInvariant, UsedIsNotIdle, AddFirstDoc, UpdateIdleTimeout
<1>2. CASE \E d \in Doc : AddDoc(d) \/ RemoveDoc(d)
  BY <1>2 DEF IdleInvariant, UsedIsNotIdle, AddDoc, RemoveDoc, UpdateIdleTimeout
<1>3. CASE IdleExpired
  BY <1>3 DEF IdleInvariant, UsedIsNotIdle, IdleExpired, Release
<1>4. CASE ManagerStopped
  BY <1>4 DEF IdleInvariant, UsedIsNotIdle, ManagerStopped
<1>5. CASE ExitTimedOut
  BY <1>5 DEF IdleInvariant, UsedIsNotIdle, ExitTimedOut
<1>6. CASE \/ UNCHANGED vars \/ FlushStep \/ InitializeReply \/ InitializeRefused \/ InitializeTimedOut
           \/ ExitOfReleased \/ FillPane \/ PaneOpened \/ ManagerStops
           \/ \E quick \in BOOLEAN : GiveUp(quick) \/ Restart(quick)
           \/ \E d \in Doc : Edit(d) \/ TimerFires(d) \/ Save(d) \/ Ask(d)
  <2>1. UNCHANGED <<idle_timeout, server, attached>>
    BY <1>6 DEF vars, Edit, TimerFires, Save, Ask, InitializeReply, FlushStep, InitializeRefused,
                InitializeTimedOut, GiveUp, Restart, ExitOfReleased, FillPane, PaneOpened, ManagerStops
  <2> QED  BY <2>1 DEF IdleInvariant, UsedIsNotIdle
<1> QED  BY <1>1, <1>2, <1>3, <1>4, <1>5, <1>6 DEF Next

\* update_idle_timeout() and lsp_manager_shutdown() leave no document with a
\* server that nobody owns.
THEOREM DocumentsKeepTheirServer == Spec => []UsedIsNotIdle
<1>1. Init => IdleInvariant
  BY DEF Init, IdleInvariant, UsedIsNotIdle
<1>2. IdleInvariant /\ [Next]_vars => IdleInvariant'
  BY IdleStep
<1>3. IdleInvariant => UsedIsNotIdle
  BY DEF IdleInvariant
<1> QED  BY <1>1, <1>2, <1>3, PTL DEF Spec

-----------------------------------------------------------------------------
(* The mirror.  What is waiting in the queue of a server that is starting  *)
(* decides what the process will believe, so the invariant speaks of the   *)
(* view that a process has at the end of the queue: of each document a run *)
(* of views, one for each message, that begins with the view of now.       *)

\* The program of a server answers the same at every restart.  Without it the
\* queue of a process may have been written for a server that wanted nothing.
OneKind == \A o \in MayOffer : \E k \in Sync : o = {k}

-----------------------------------------------------------------------------
(* Reading the queue, without the state: f says that the server follows    *)
(* the text, n bounds the texts of the document.                           *)

\* A process with view v takes m as the protocol has it, and has view w then.
Understands(f, v, m, w) ==
    \/ /\ m.kind = "open"
       /\ v.state = "closed"
       /\ w = [state |-> "open", version |-> m.version, text |-> m.text]
    \/ /\ m.kind = "change"
       /\ v.state = "open"
       /\ m.version > v.version
       /\ m.text >= v.text
       /\ w = [state |-> "open", version |-> m.version, text |-> m.text]
    \/ /\ m.kind = "save"
       /\ f => v.state = "open" /\ v.text = m.text
       /\ w = v
    \/ /\ m.kind = "close"
       /\ v.state = "open"
       /\ w = Closed

\* What message m of the queue makes of the view of document d.
Reads(f, d, v, m, w) ==
    IF m.doc = d /\ m.kind # "request" THEN Understands(f, v, m, w) ELSE w = v

\* A picture of a text that the document may have had.
Known(v, n) ==
    /\ v \in View
    /\ v.state # "confused"
    /\ v.state = "open" => v.text <= n

\* h has the view of d after each message of q.
Run(f, n, d, h, q) ==
    /\ h \in [0 .. Len(q) -> View]
    /\ \A i \in 0 .. Len(q) : Known(h[i], n)
    /\ \A i \in 1 .. Len(q) : Reads(f, d, h[i - 1], q[i], h[i])

\* A process with view v of d that reads q without confusion has view w then.
Leads(f, n, d, v, q, w) ==
    \E h : Run(f, n, d, h, q) /\ h[0] = v /\ h[Len(q)] = w

\* Nothing in q changes the view of d.
Silent(q, d) == \A i \in 1 .. Len(q) : q[i].doc = d => q[i].kind = "request"

LEMMA LeadsNowhere ==
    ASSUME NEW f \in BOOLEAN, NEW n \in Nat, NEW d, NEW v
    PROVE  /\ Known(v, n) => Leads(f, n, d, v, <<>>, v)
           /\ \A w : Leads(f, n, d, v, <<>>, w) => w = v /\ Known(v, n)
<1>1. ASSUME Known(v, n) PROVE Leads(f, n, d, v, <<>>, v)
  <2> DEFINE h == [i \in 0 .. 0 |-> v]
  <2>1. Run(f, n, d, h, <<>>) /\ h[0] = v
    BY <1>1 DEF Run, Known
  <2>2. h[Len(<<>>)] = v
    OBVIOUS
  <2> QED  BY <2>1, <2>2 DEF Leads
<1>2. ASSUME NEW w, Leads(f, n, d, v, <<>>, w) PROVE w = v /\ Known(v, n)
  BY <1>2 DEF Leads, Run
<1> QED  BY <1>1, <1>2

LEMMA LeadsOn ==
    ASSUME NEW f \in BOOLEAN, NEW n \in Nat, NEW d, NEW v, NEW w, NEW u,
           NEW q \in Seq(Message), NEW m \in Message,
           Leads(f, n, d, v, q, w), Reads(f, d, w, m, u), Known(u, n)
    PROVE  Leads(f, n, d, v, Append(q, m), u)
<1>1. PICK h : Run(f, n, d, h, q) /\ h[0] = v /\ h[Len(q)] = w
  BY DEF Leads
<1> DEFINE r == Append(q, m)
           g == [i \in 0 .. Len(r) |-> IF i <= Len(q) THEN h[i] ELSE u]
<1>2. /\ r \in Seq(Message)
      /\ Len(r) = Len(q) + 1
      /\ \A i \in 1 .. Len(q) : r[i] = q[i]
      /\ r[Len(q) + 1] = m
      /\ Len(q) \in Nat
  BY AppendProperties
<1> HIDE DEF r
<1>3. \A i \in 0 .. Len(r) : i <= Len(q) \/ i = Len(q) + 1
  BY <1>2
<1>4. g \in [0 .. Len(r) -> View] /\ \A i \in 0 .. Len(r) : Known(g[i], n)
  BY <1>1, <1>2, <1>3 DEF Run, Known
<1>5. ASSUME NEW i \in 1 .. Len(r)
      PROVE  Reads(f, d, g[i - 1], r[i], g[i])
  <2>1. CASE i <= Len(q)
    <3>1. i \in 1 .. Len(q) /\ i - 1 \in 0 .. Len(r) /\ i \in 0 .. Len(r) /\ i - 1 <= Len(q)
      BY <1>2, <2>1
    <3>2. g[i - 1] = h[i - 1] /\ g[i] = h[i] /\ r[i] = q[i]
      BY <1>2, <2>1, <3>1
    <3>3. Reads(f, d, h[i - 1], q[i], h[i])
      BY <1>1, <3>1 DEF Run
    <3> QED  BY <3>2, <3>3
  <2>2. CASE i = Len(q) + 1
    <3>1. g[i - 1] = w /\ g[i] = u /\ r[i] = m
      BY <1>1, <1>2, <2>2
    <3> QED  BY <3>1
  <2> QED  BY <1>2, <1>3, <2>1, <2>2
<1>6. Run(f, n, d, g, r)
  BY <1>4, <1>5 DEF Run
<1>7. g[0] = v /\ g[Len(r)] = u
  BY <1>1, <1>2
<1> HIDE DEF g
<1>8. Leads(f, n, d, v, r, u)
  BY <1>6, <1>7 DEF Leads
<1> QED  BY <1>8 DEF r

LEMMA LeadsFromNext ==
    ASSUME NEW f \in BOOLEAN, NEW n \in Nat, NEW d, NEW v, NEW w,
           NEW q \in Seq(Message), q # <<>>, Leads(f, n, d, v, q, w)
    PROVE  \E u : /\ Known(v, n) /\ Known(u, n)
                  /\ Reads(f, d, v, Head(q), u)
                  /\ Leads(f, n, d, u, Tail(q), w)
<1>1. PICK h : Run(f, n, d, h, q) /\ h[0] = v /\ h[Len(q)] = w
  BY DEF Leads
<1> DEFINE r == Tail(q)
           g == [i \in 0 .. Len(r) |-> h[i + 1]]
           u == h[1]
<1>2. /\ r \in Seq(Message)
      /\ Len(r) = Len(q) - 1
      /\ \A i \in 1 .. Len(r) : r[i] = q[i + 1]
      /\ Len(q) \in Nat \ {0}
      /\ Head(q) = q[1]
  BY HeadTailProperties, EmptySeq
<1> HIDE DEF r
<1>3. Known(v, n) /\ Known(u, n) /\ Reads(f, d, v, Head(q), u)
  BY <1>1, <1>2 DEF Run
<1>4. g \in [0 .. Len(r) -> View] /\ \A i \in 0 .. Len(r) : Known(g[i], n)
  BY <1>1, <1>2 DEF Run
<1>5. ASSUME NEW i \in 1 .. Len(r) PROVE Reads(f, d, g[i - 1], r[i], g[i])
  <2>1. i + 1 \in 1 .. Len(q) /\ i - 1 \in 0 .. Len(r) /\ i \in 0 .. Len(r)
    BY <1>2
  <2>2. g[i - 1] = h[(i + 1) - 1] /\ g[i] = h[i + 1] /\ r[i] = q[i + 1]
    BY <1>2, <2>1
  <2>3. Reads(f, d, h[(i + 1) - 1], q[i + 1], h[i + 1])
    BY <1>1, <2>1 DEF Run
  <2> QED  BY <2>2, <2>3
<1>6. Run(f, n, d, g, r)
  BY <1>4, <1>5 DEF Run
<1>7. g[0] = u /\ g[Len(r)] = w
  BY <1>1, <1>2
<1> HIDE DEF g, u
<1>8. Leads(f, n, d, u, r, w)
  BY <1>6, <1>7 DEF Leads
<1> QED  BY <1>3, <1>8 DEF r

\* Nothing in the queue is about d.
LEMMA LeadsAround ==
    ASSUME NEW f \in BOOLEAN, NEW n \in Nat, NEW d, NEW v, NEW q \in Seq(Message),
           Known(v, n), Silent(q, d)
    PROVE  Leads(f, n, d, v, q, v)
<1> DEFINE h == [i \in 0 .. Len(q) |-> v]
<1>1. Len(q) \in Nat
  OBVIOUS
<1>2. h \in [0 .. Len(q) -> View] /\ \A i \in 0 .. Len(q) : Known(h[i], n)
  BY <1>1 DEF Known
<1>3. \A i \in 1 .. Len(q) : Reads(f, d, h[i - 1], q[i], h[i])
  BY <1>1 DEF Reads, Silent
<1>4. h[0] = v /\ h[Len(q)] = v
  BY <1>1
<1> HIDE DEF h
<1> QED  BY <1>2, <1>3, <1>4 DEF Leads, Run

\* A later text, or a server that turns out to want nothing, is no obstacle.
LEMMA LeadsLater ==
    ASSUME NEW f \in BOOLEAN, NEW g \in BOOLEAN, NEW n \in Nat, NEW k \in Nat,
           NEW d, NEW v, NEW w, NEW q \in Seq(Message),
           g => f, n <= k, Leads(f, n, d, v, q, w)
    PROVE  Leads(g, k, d, v, q, w)
<1>1. PICK h : Run(f, n, d, h, q) /\ h[0] = v /\ h[Len(q)] = w
  BY DEF Leads
<1>2. ASSUME NEW x, Known(x, n) PROVE Known(x, k)
  BY <1>2 DEF Known, View
<1>3. ASSUME NEW x, NEW y, NEW m, Reads(f, d, x, m, y) PROVE Reads(g, d, x, m, y)
  BY <1>3 DEF Reads, Understands
<1>4. Run(g, k, d, h, q)
  BY <1>1, <1>2, <1>3 DEF Run
<1> QED  BY <1>1, <1>4 DEF Leads

LEMMA SilentTogether ==
    ASSUME NEW q \in Seq(Message), NEW r \in Seq(Message), NEW d, Silent(q, d), Silent(r, d)
    PROVE  Silent(q \o r, d)
<1>1. /\ Len(q \o r) = Len(q) + Len(r)
      /\ \A i \in 1 .. Len(q) + Len(r) :
            (q \o r)[i] = IF i <= Len(q) THEN q[i] ELSE r[i - Len(q)]
      /\ Len(q) \in Nat /\ Len(r) \in Nat
  BY ConcatProperties
<1> SUFFICES ASSUME NEW i \in 1 .. Len(q) + Len(r), (q \o r)[i].doc = d
             PROVE  (q \o r)[i].kind = "request"
  BY <1>1 DEF Silent
<1>2. CASE i <= Len(q)
  BY <1>1, <1>2 DEF Silent
<1>3. CASE ~(i <= Len(q))
  <2>1. i - Len(q) \in 1 .. Len(r) /\ (q \o r)[i] = r[i - Len(q)]
    BY <1>1, <1>3
  <2> QED  BY <2>1 DEF Silent
<1> QED  BY <1>2, <1>3

-----------------------------------------------------------------------------
(* The lifecycle of a server, as far as its documents depend on it.        *)

\* Only attached documents are open or have a timer.
OnlyAttached == docs \subseteq attached /\ change_timeout \subseteq attached

\* Before lsp_server_new() there is nothing.
NobodyYet ==
    server = "nobody" =>
        /\ state = "STARTING" /\ client = "none" /\ ~initializing /\ ~init_timeout
        /\ queued = <<>> /\ attached = {}

\* A server that is idle or given up has no documents.
NobodyLeft == (idle_timeout \/ server \in {"timeout", "freed"}) => attached = {}

\* Messages wait for the handshake, or for flush_queue() to send them.
QueueWaits ==
    /\ ~flushing /\ state # "STARTING" => queued = <<>>
    /\ flushing => state = "READY"

\* The initialize call is made by a server that starts.
CallIsOfStart == initializing => state = "STARTING"

\* A process that has not answered was told nothing.
NothingTold == state = "STARTING" => \A d \in Doc : seen[d] = Closed

\* A server that wants the text has every attached document open.
AllOpen == state = "READY" /\ Follows => attached \subseteq docs

\* A document that is open elsewhere only has requests in the queue: it is
\* opened by server_state_changed(), before the queue is flushed.
OpenedLater ==
    state = "STARTING" => \A d \in attached \ docs : Silent(queued, d)

KindKept == sync_kind = "none" => offers = {"none"}

Life ==
    /\ OnlyAttached
    /\ NobodyYet
    /\ NobodyLeft
    /\ QueueWaits
    /\ CallIsOfStart
    /\ NothingTold
    /\ AllOpen
    /\ OpenedLater
    /\ KindKept

LEMMA LifeInit == Init => Life
<1> SUFFICES ASSUME Init PROVE Life
  OBVIOUS
<1>1. OnlyAttached /\ NobodyYet /\ NobodyLeft /\ QueueWaits /\ CallIsOfStart /\ AllOpen
  BY DEF Init, OnlyAttached, NobodyYet, NobodyLeft, QueueWaits, CallIsOfStart, AllOpen
<1>2. NothingTold /\ OpenedLater /\ KindKept
  BY DEF Init, NothingTold, OpenedLater, Silent, KindKept
<1> QED  BY <1>1, <1>2 DEF Life

\* Without an owner that lives there are no attached documents.
LEMMA NobodyHasDocuments ==
    ASSUME TypeOK, Life
    PROVE  server # "manager" => attached = {} /\ docs = {} /\ change_timeout = {}
BY DEF TypeOK, Holding, Life, OnlyAttached, NobodyYet, NobodyLeft

LEMMA OnlyAttachedStep ==
    ASSUME TypeOK, Life, [Next]_vars
    PROVE  OnlyAttached'
<1>0. OnlyAttached
  BY DEF Life
<1>1. CASE \E d \in Doc : Edit(d) \/ TimerFires(d) \/ Save(d) \/ Ask(d)
  BY <1>0, <1>1 DEF OnlyAttached, Edit, TimerFires, Save, Ask, AfterFlush
<1>2. CASE \E d \in Doc : AddDoc(d) \/ RemoveDoc(d)
  BY <1>0, <1>2 DEF OnlyAttached, AddDoc, DidOpen, RemoveDoc
<1>3. CASE InitializeReply
  BY <1>0, <1>3 DEF OnlyAttached, InitializeReply, Reopened
<1>4. CASE ManagerStopped
  <2>1. docs' = {} /\ change_timeout' = {}
    BY <1>4, NobodyHasDocuments DEF ManagerStopped, Release
  <2> QED  BY <2>1 DEF OnlyAttached
<1>5. CASE \/ UNCHANGED vars \/ FlushStep \/ InitializeRefused \/ InitializeTimedOut
           \/ ExitOfReleased \/ FillPane \/ PaneOpened \/ IdleExpired \/ ManagerStops \/ ExitTimedOut
           \/ \E quick \in BOOLEAN : GiveUp(quick) \/ Restart(quick)
  <2>1. docs' \in {docs, {}} /\ attached' = attached /\ change_timeout' = change_timeout
    BY <1>5 DEF vars, FlushStep, InitializeRefused, InitializeTimedOut, GiveUp, SetFailed, Restart,
                DocsOfNewProcess, ExitOfReleased, FillPane, PaneOpened, IdleExpired, Release, ManagerStops,
                ExitTimedOut
  <2> QED  BY <1>0, <2>1 DEF OnlyAttached
<1>6. CASE \E d \in Doc : AddFirstDoc(d)
  <2>1. change_timeout = {}
    BY <1>6, NobodyHasDocuments DEF AddFirstDoc
  <2> QED  BY <1>6, <2>1 DEF OnlyAttached, AddFirstDoc
<1> QED  BY <1>1, <1>2, <1>3, <1>4, <1>5, <1>6 DEF Next

\* lsp_server_new() is the only way out of having no server, and nobody goes back.
LEMMA NobodyYetStep ==
    ASSUME Life, [Next]_vars
    PROVE  NobodyYet'
<1> SUFFICES ASSUME server' = "nobody" PROVE NobodyYet'
  BY DEF NobodyYet
<1>1. server = "nobody"
  BY DEF Next, vars, Edit, TimerFires, Save, Ask, AddFirstDoc, AddDoc, RemoveDoc, InitializeReply,
         FlushStep, InitializeRefused, InitializeTimedOut, GiveUp, Restart, ExitOfReleased, FillPane, PaneOpened,
         IdleExpired, Release, ManagerStops, ManagerStopped, ExitTimedOut
<1>2. /\ state = "STARTING" /\ client = "none" /\ ~initializing /\ ~init_timeout
      /\ queued = <<>> /\ attached = {}
      /\ ~flushing
  BY <1>1 DEF Life, NobodyYet, QueueWaits
<1>3. CASE \E d \in Doc : Edit(d)
  BY <1>2, <1>3 DEF Edit, NobodyYet
<1>4. CASE ManagerStops \/ ManagerStopped \/ FillPane \/ PaneOpened \/ UNCHANGED vars
  BY <1>1, <1>2, <1>4 DEF ManagerStops, ManagerStopped, FillPane, PaneOpened, vars, NobodyYet
<1>5. ~ \E d \in Doc : TimerFires(d) \/ Save(d) \/ Ask(d) \/ AddFirstDoc(d) \/ AddDoc(d) \/ RemoveDoc(d)
  BY <1>1, <1>2 DEF TimerFires, Save, Ask, AddFirstDoc, AddDoc, RemoveDoc, Life, OnlyAttached
<1>6. ~ \/ InitializeReply \/ FlushStep \/ InitializeRefused \/ InitializeTimedOut \/ ExitOfReleased
        \/ ExitTimedOut \/ IdleExpired \/ \E quick \in BOOLEAN : GiveUp(quick) \/ Restart(quick)
  BY <1>1, <1>2 DEF InitializeReply, FlushStep, InitializeRefused, InitializeTimedOut, GiveUp, Restart,
                Restarts, ExitOfReleased, ExitTimedOut, IdleExpired, Release
<1> QED  BY <1>3, <1>4, <1>5, <1>6 DEF Next

LEMMA NobodyLeftStep ==
    ASSUME TypeOK, Life, [Next]_vars
    PROVE  NobodyLeft'
<1>0. NobodyLeft
  BY DEF Life
<1>1. CASE \E d \in Doc : AddFirstDoc(d) \/ AddDoc(d) \/ RemoveDoc(d)
  BY <1>0, <1>1 DEF NobodyLeft, AddFirstDoc, AddDoc, RemoveDoc, UpdateIdleTimeout
<1>2. CASE IdleExpired \/ ManagerStopped
  BY <1>0, <1>2 DEF NobodyLeft, IdleExpired, ManagerStopped, Release
<1>3. CASE ExitTimedOut
  BY <1>0, <1>3 DEF NobodyLeft, ExitTimedOut
<1>4. CASE \/ UNCHANGED vars \/ FlushStep \/ InitializeReply \/ InitializeRefused \/ InitializeTimedOut
           \/ ExitOfReleased \/ FillPane \/ PaneOpened \/ ManagerStops
           \/ \E quick \in BOOLEAN : GiveUp(quick) \/ Restart(quick)
           \/ \E d \in Doc : Edit(d) \/ TimerFires(d) \/ Save(d) \/ Ask(d)
  <2>1. UNCHANGED <<idle_timeout, server, attached>>
    BY <1>4 DEF vars, Edit, TimerFires, Save, Ask, InitializeReply, FlushStep, InitializeRefused,
                InitializeTimedOut, GiveUp, Restart, ExitOfReleased, FillPane, PaneOpened, ManagerStops
  <2> QED  BY <1>0, <2>1 DEF NobodyLeft
<1> QED  BY <1>1, <1>2, <1>3, <1>4 DEF Next

\* Send() leaves nothing in the queue unless the server starts.
LEMMA QueueWaitsStep ==
    ASSUME TypeOK, Life, FlushGuarded, [Next]_vars
    PROVE  QueueWaits'
<1>0. QueueWaits /\ NobodyYet /\ CallIsOfStart
  BY DEF Life
<1>1. CASE \E d \in Doc : TimerFires(d) \/ Save(d) \/ Ask(d) \/ AddDoc(d) \/ RemoveDoc(d)
  <2>1. ~flushing /\ ~flushing' /\ state' = state /\ (state # "STARTING" => queued' = queued)
    BY <1>1 DEF TimerFires, Save, Ask, AddDoc, DidOpen, RemoveDoc, Send
  <2> QED  BY <1>0, <2>1 DEF QueueWaits
<1>2. CASE \E d \in Doc : AddFirstDoc(d)
  BY <1>0, <1>2 DEF QueueWaits, NobodyYet, AddFirstDoc, Spawned, NotSpawned
<1>3. CASE \E d \in Doc : Edit(d)
  BY <1>0, <1>3 DEF QueueWaits, Edit
<1>4. CASE InitializeReply
  BY <1>0, <1>4 DEF QueueWaits, InitializeReply
<1>5. CASE FlushStep
  BY <1>0, <1>5 DEF QueueWaits, FlushStep
<1>6. CASE \/ InitializeRefused \/ InitializeTimedOut \/ ExitOfReleased
           \/ ExitTimedOut \/ \E quick \in BOOLEAN : GiveUp(quick) \/ Restart(quick)
  <2>1. /\ ~flushing /\ ~flushing'
        /\ queued' = <<>> \/ (queued' = queued /\ state' = state)
    BY <1>6 DEF InitializeRefused, InitializeTimedOut, ExitOfReleased, ExitTimedOut, GiveUp,
                Restart, SetFailed
  <2> QED  BY <1>0, <2>1 DEF QueueWaits
<1>7. CASE UNCHANGED vars \/ FillPane \/ PaneOpened \/ ManagerStops
  BY <1>0, <1>7 DEF QueueWaits, vars, FillPane, PaneOpened, ManagerStops
<1>8. CASE IdleExpired \/ ManagerStopped
  <2>1. ~flushing /\ ~flushing' /\ state' = state /\ queued' \in {queued, <<>>}
    BY <1>8 DEF IdleExpired, ManagerStopped, Release
  <2> QED  BY <1>0, <2>1 DEF QueueWaits
<1> QED  BY <1>1, <1>2, <1>3, <1>4, <1>5, <1>6, <1>7, <1>8 DEF Next

LEMMA CallIsOfStartStep ==
    ASSUME TypeOK, Life, [Next]_vars
    PROVE  CallIsOfStart'
<1>0. CallIsOfStart /\ NobodyYet
  BY DEF Life
<1>1. CASE \E d \in Doc : AddFirstDoc(d)
  BY <1>0, <1>1 DEF CallIsOfStart, NobodyYet, AddFirstDoc, Spawned, NotSpawned
<1>2. CASE \E quick \in BOOLEAN : Restart(quick)
  BY <1>2 DEF CallIsOfStart, Restart, Spawned, NotSpawned
<1>3. CASE \/ InitializeReply \/ InitializeRefused \/ InitializeTimedOut \/ ExitOfReleased
           \/ ExitTimedOut \/ \E quick \in BOOLEAN : GiveUp(quick)
  BY <1>3 DEF CallIsOfStart, InitializeReply, InitializeRefused, InitializeTimedOut,
              ExitOfReleased, ExitTimedOut, GiveUp
<1>4. CASE \/ UNCHANGED vars \/ FlushStep \/ FillPane \/ PaneOpened \/ ManagerStops \/ IdleExpired \/ ManagerStopped
           \/ \E d \in Doc : \/ Edit(d) \/ TimerFires(d) \/ Save(d) \/ Ask(d)
                             \/ AddDoc(d) \/ RemoveDoc(d)
  <2>1. UNCHANGED <<initializing, state>>
    BY <1>4 DEF vars, Edit, TimerFires, Save, Ask, AddDoc, RemoveDoc, FlushStep, FillPane, PaneOpened,
                ManagerStops, IdleExpired, ManagerStopped
  <2> QED  BY <1>0, <2>1 DEF CallIsOfStart
<1> QED  BY <1>1, <1>2, <1>3, <1>4 DEF Next

\* A server that starts sends nothing but initialize.
LEMMA NothingToldStep ==
    ASSUME TypeOK, Life, [Next]_vars
    PROVE  NothingTold'
<1>0. NothingTold /\ QueueWaits
  BY DEF Life
<1>1. CASE \/ \E d \in Doc : AddFirstDoc(d)
           \/ \E quick \in BOOLEAN : Restart(quick)
  BY <1>1 DEF NothingTold, AddFirstDoc, Restart, Spawned, NotSpawned
<1>2. CASE \/ InitializeReply \/ InitializeRefused \/ InitializeTimedOut
           \/ \E quick \in BOOLEAN : GiveUp(quick)
  BY <1>2 DEF NothingTold, InitializeReply, InitializeRefused, InitializeTimedOut, GiveUp, SetFailed
<1>3. CASE FlushStep
  BY <1>0, <1>3 DEF NothingTold, QueueWaits, FlushStep
<1>4. CASE \E d \in Doc : TimerFires(d) \/ Save(d) \/ Ask(d) \/ AddDoc(d) \/ RemoveDoc(d)
  <2>1. state' = state /\ (state = "STARTING" => seen' = seen)
    BY <1>4 DEF TimerFires, Save, Ask, AddDoc, DidOpen, RemoveDoc, Send
  <2> QED  BY <1>0, <2>1 DEF NothingTold
<1>5. CASE ManagerStopped
  <2>1. state' = state /\ (state = "STARTING" => \A d \in Doc : seen'[d] = seen[d])
    BY <1>5 DEF ManagerStopped
  <2> QED  BY <1>0, <2>1 DEF NothingTold
<1>6. CASE \/ UNCHANGED vars \/ FillPane \/ PaneOpened \/ ManagerStops \/ IdleExpired
           \/ ExitOfReleased \/ ExitTimedOut \/ \E d \in Doc : Edit(d)
  <2>1. seen' = seen /\ (state' = state \/ state' = "FAILED")
    BY <1>6 DEF vars, FillPane, PaneOpened, ManagerStops, IdleExpired, ExitOfReleased, ExitTimedOut,
                Edit, SetFailed
  <2> QED  BY <1>0, <2>1 DEF NothingTold
<1> QED  BY <1>1, <1>2, <1>3, <1>4, <1>5, <1>6 DEF Next

LEMMA AllOpenStep ==
    ASSUME TypeOK, Life, [Next]_vars
    PROVE  AllOpen'
<1>0. AllOpen /\ NobodyYet
  BY DEF Life
<1>1. CASE \E d \in Doc : AddFirstDoc(d)
  BY <1>0, <1>1 DEF AllOpen, NobodyYet, AddFirstDoc
<1>2. CASE \E d \in Doc : AddDoc(d)
  BY <1>0, <1>2 DEF AllOpen, AddDoc, DidOpen, Follows
<1>3. CASE \E d \in Doc : RemoveDoc(d)
  BY <1>0, <1>3 DEF AllOpen, RemoveDoc, Follows
<1>4. CASE InitializeReply
  <2>1. CASE server = "manager"
    BY <1>4, <2>1 DEF AllOpen, InitializeReply, Reopened, Follows
  <2>2. CASE server # "manager"
    BY <1>4, <2>2, NobodyHasDocuments DEF AllOpen, InitializeReply
  <2> QED  BY <2>1, <2>2
<1>5. CASE ManagerStopped
  BY <1>5 DEF AllOpen, ManagerStopped
<1>6. CASE IdleExpired
  <2>1. attached = {}
    BY <1>6 DEF IdleExpired, Life, NobodyLeft
  <2> QED  BY <1>6, <2>1 DEF AllOpen, IdleExpired
<1>7. CASE \/ InitializeRefused \/ InitializeTimedOut
           \/ \E quick \in BOOLEAN : GiveUp(quick) \/ Restart(quick)
  BY <1>7 DEF AllOpen, InitializeRefused, InitializeTimedOut, GiveUp, Restart, Spawned, NotSpawned,
              SetFailed
<1>8. CASE \/ UNCHANGED vars \/ FlushStep \/ FillPane \/ PaneOpened \/ ManagerStops \/ ExitOfReleased \/ ExitTimedOut
           \/ \E d \in Doc : Edit(d) \/ TimerFires(d) \/ Save(d) \/ Ask(d)
  <2>1. state' = "FAILED" \/ UNCHANGED <<state, docs, attached, sync_kind>>
    BY <1>8 DEF vars, Edit, TimerFires, Save, Ask, FlushStep, FillPane, PaneOpened, ManagerStops,
                ExitOfReleased, ExitTimedOut, SetFailed
  <2> QED  BY <1>0, <2>1 DEF AllOpen, Follows
<1> QED  BY <1>1, <1>2, <1>3, <1>4, <1>5, <1>6, <1>7, <1>8 DEF Next

\* The messages about one document do not speak of another, and those about a
\* document that is not open are requests.
LEMMA SilentMessages ==
    ASSUME NEW d \in Doc
    PROVE  /\ \A e : e # d => /\ Silent(DidChange(d), e) /\ Silent(Flushed(d), e)
                              /\ Silent(DidSave(d), e) /\ Silent(DidClose(d), e)
                              /\ Silent(<<OpenOf(d)>>, e)
           /\ \A e : Silent(<<RequestOf(d)>>, e) /\ Silent(<<>>, e)
           /\ d \notin docs =>
                 Silent(DidChange(d), d) /\ Silent(Flushed(d), d) /\ Silent(DidSave(d), d)
<1>1. \A m, e : (m.doc = e => m.kind = "request") => Silent(<<m>>, e)
  BY DEF Silent
<1>2. \A e : Silent(<<>>, e)
  BY DEF Silent
<1>3. /\ ChangeOf(d).doc = d /\ SaveOf(d).doc = d /\ CloseOf(d).doc = d /\ OpenOf(d).doc = d
      /\ RequestOf(d).kind = "request"
  BY DEF ChangeOf, SaveOf, CloseOf, OpenOf, RequestOf
<1> QED
  BY <1>1, <1>2, <1>3 DEF DidChange, Flushed, DidSave, DidClose

LEMMA OpenedLaterStep ==
    ASSUME TypeOK, Life, [Next]_vars
    PROVE  OpenedLater'
<1>0. OpenedLater /\ OnlyAttached /\ QueueWaits /\ queued \in Seq(Message)
  BY DEF Life, TypeOK
<1>10. DocsOK
  BY TypeParts
<1>1. CASE \E d \in Doc : AddFirstDoc(d)
  BY <1>1 DEF OpenedLater, AddFirstDoc
<1>2. ASSUME NEW d \in Doc, NEW first \in Seq(Message), NEW second \in Seq(Message),
             NEW e \in attached \ docs,
             Silent(first, e), Silent(second, e), Send(d, first, second), state = "STARTING"
      PROVE  Silent(queued', e)
  <2>1. queued' = queued \o (first \o second)
    BY <1>2 DEF Send, Pushed
  <2>2. Silent(queued, e)
    BY <1>0, <1>2 DEF OpenedLater
  <2>3. first \o second \in Seq(Message)
    BY ConcatProperties
  <2>4. Silent(first \o second, e)
    BY <1>2, SilentTogether
  <2> QED  BY <1>0, <2>1, <2>2, <2>3, <2>4, SilentTogether
<1>3. ASSUME NEW d \in Doc, TimerFires(d) \/ Save(d) \/ Ask(d)
      PROVE  OpenedLater'
  <2>1. UNCHANGED <<attached, docs, state>>
    BY <1>3 DEF TimerFires, Save, Ask
  <2> SUFFICES ASSUME state = "STARTING", NEW e \in attached \ docs PROVE Silent(queued', e)
    BY <2>1 DEF OpenedLater
  <2>2. /\ <<>> \in Seq(Message) /\ <<RequestOf(d)>> \in Seq(Message)
        /\ DidChange(d) \in Seq(Message) /\ Flushed(d) \in Seq(Message) /\ DidSave(d) \in Seq(Message)
    BY <1>10, MessageTypes, EmptySeq
  <2>3. /\ Silent(<<>>, e) /\ Silent(<<RequestOf(d)>>, e) /\ Silent(DidChange(d), e)
        /\ Silent(Flushed(d), e) /\ Silent(DidSave(d), e)
    BY SilentMessages
  <2>4. CASE TimerFires(d)
    BY <1>2, <2>2, <2>3, <2>4 DEF TimerFires
  <2>5. CASE Save(d)
    BY <1>2, <2>2, <2>3, <2>5 DEF Save
  <2>6. CASE Ask(d)
    BY <1>2, <2>2, <2>3, <2>6 DEF Ask
  <2> QED  BY <1>3, <2>4, <2>5, <2>6
<1>4. ASSUME NEW d \in Doc, AddDoc(d) \/ RemoveDoc(d)
      PROVE  OpenedLater'
  <2> SUFFICES ASSUME state' = "STARTING", NEW e \in attached' \ docs' PROVE Silent(queued', e)
    BY DEF OpenedLater
  <2>1. state = "STARTING" /\ e \in attached \ docs /\ e # d
    BY <1>0, <1>4 DEF AddDoc, DidOpen, RemoveDoc, OnlyAttached
  <2>2. <<>> \in Seq(Message) /\ <<OpenOf(d)>> \in Seq(Message) /\ DidClose(d) \in Seq(Message)
    BY <1>10, MessageTypes, EmptySeq
  <2>3. Silent(<<>>, e) /\ Silent(<<OpenOf(d)>>, e) /\ Silent(DidClose(d), e)
    BY <2>1, SilentMessages
  <2>4. CASE AddDoc(d)
    <3>1. CASE queued' = queued
      BY <1>0, <2>1, <3>1 DEF OpenedLater
    <3>2. CASE Send(d, <<OpenOf(d)>>, <<>>)
      BY <1>2, <2>1, <2>2, <2>3, <3>2
    <3> QED  BY <2>4, <3>1, <3>2 DEF AddDoc, DidOpen
  <2>5. CASE RemoveDoc(d)
    BY <1>2, <2>1, <2>2, <2>3, <2>5 DEF RemoveDoc
  <2> QED  BY <1>4, <2>4, <2>5
<1>5. CASE \/ InitializeReply \/ InitializeRefused \/ InitializeTimedOut
           \/ \E quick \in BOOLEAN : GiveUp(quick)
  BY <1>5 DEF OpenedLater, InitializeReply, InitializeRefused, InitializeTimedOut, GiveUp, SetFailed
<1>6. CASE \E quick \in BOOLEAN : Restart(quick)
  BY <1>6 DEF OpenedLater, Restart, Silent
<1>7. CASE FlushStep
  BY <1>0, <1>7 DEF OpenedLater, QueueWaits, FlushStep
<1>8. CASE IdleExpired \/ ManagerStopped
  <2>1. attached' = {}
    BY <1>8 DEF IdleExpired, ManagerStopped, Life, NobodyLeft
  <2> QED  BY <2>1 DEF OpenedLater
<1>9. CASE \/ UNCHANGED vars \/ FillPane \/ PaneOpened \/ ManagerStops \/ ExitOfReleased \/ ExitTimedOut
           \/ \E d \in Doc : Edit(d)
  <2>1. state' = "FAILED" \/ UNCHANGED <<state, docs, attached, queued>>
    BY <1>9 DEF vars, Edit, FillPane, PaneOpened, ManagerStops, ExitOfReleased, ExitTimedOut, SetFailed
  <2> QED  BY <1>0, <2>1 DEF OpenedLater
<1> QED  BY <1>1, <1>3, <1>4, <1>5, <1>6, <1>7, <1>8, <1>9 DEF Next

\* initialize_reply() of the same program.
LEMMA KindOfReply ==
    ASSUME OneKind, TypeOK, Life, InitializeReply
    PROVE  offers = {sync_kind'} /\ (sync_kind' = "full" => sync_kind = "full")
<1>1. PICK k \in Sync : offers = {k}
  BY DEF OneKind, TypeOK
<1>2. sync_kind' = k
  BY <1>1 DEF InitializeReply
<1>3. sync_kind = "none" => offers = {"none"}
  BY DEF Life, KindKept
<1>4. sync_kind \in {"full", "none"}
  BY DEF TypeOK, Sync
<1> QED  BY <1>1, <1>2, <1>3, <1>4

LEMMA KindKeptStep ==
    ASSUME OneKind, TypeOK, Life, [Next]_vars
    PROVE  KindKept'
<1>1. CASE InitializeReply
  BY <1>1, KindOfReply DEF KindKept, InitializeReply
<1>2. CASE ~InitializeReply
  <2>1. UNCHANGED <<sync_kind, offers>>
    BY <1>2 DEF Next, vars, Edit, TimerFires, Save, Ask, AddFirstDoc, AddDoc, RemoveDoc,
                FlushStep, InitializeRefused, InitializeTimedOut, GiveUp, Restart, ExitOfReleased,
                FillPane, PaneOpened, IdleExpired, ManagerStops, ManagerStopped, ExitTimedOut
  <2> QED  BY <2>1 DEF Life, KindKept
<1> QED  BY <1>1, <1>2

LEMMA LifeStep ==
    ASSUME OneKind, TypeOK, FlushGuarded, Life, [Next]_vars
    PROVE  Life'
BY OnlyAttachedStep, NobodyYetStep, NobodyLeftStep, QueueWaitsStep, CallIsOfStartStep,
   NothingToldStep, AllOpenStep, OpenedLaterStep, KindKeptStep DEF Life

-----------------------------------------------------------------------------
(* What is told of a document, and what it makes the process believe.      *)

LEMMA LeadsEnds ==
    ASSUME NEW f, NEW n, NEW d, NEW v, NEW w, NEW q \in Seq(Message), Leads(f, n, d, v, q, w)
    PROVE  Known(v, n) /\ Known(w, n)
BY DEF Leads, Run

\* At most one message, about d, that a process with view v takes, having
\* view w then.
Takes(f, n, d, ms, v, w) ==
    /\ Known(w, n)
    /\ \/ ms = <<>> /\ w = v
       \/ \E m \in Message :
             /\ ms = <<m>>
             /\ m.doc = d
             /\ \/ m.kind # "request" /\ Understands(f, v, m, w)
                \/ m.kind = "request" /\ w = v

\* The picture a process has never becomes older without being forgotten.
Grows(v, w) == v.state = "open" /\ w.state = "open" => v.text <= w.text

LEMMA TakenFromQueue ==
    ASSUME NEW f \in BOOLEAN, NEW n \in Nat, NEW d, NEW v, NEW w, NEW u,
           NEW q \in Seq(Message), NEW ms \in Seq(Message),
           Leads(f, n, d, v, q, w), Takes(f, n, d, ms, w, u)
    PROVE  Leads(f, n, d, v, q \o ms, u)
<1>1. CASE ms = <<>> /\ u = w
  BY <1>1, ConcatEmptySeq
<1>2. ASSUME NEW m \in Message, ms = <<m>>, Reads(f, d, w, m, u)
      PROVE  Leads(f, n, d, v, q \o ms, u)
  <2>1. Known(u, n)
    BY DEF Takes
  <2>2. q \o ms = Append(q, m)
    BY <1>2, AppendIsConcat
  <2> QED  BY <1>2, <2>1, <2>2, LeadsOn
<1> QED  BY <1>1, <1>2 DEF Takes, Reads

\* The same message does nothing to the view of another document.
LEMMA OthersNotTold ==
    ASSUME NEW f \in BOOLEAN, NEW g, NEW n \in Nat, NEW k, NEW d, NEW e,
           NEW v, NEW w, NEW x, NEW u,
           NEW q \in Seq(Message), NEW ms \in Seq(Message), e # d,
           Leads(f, n, e, v, q, x), Takes(g, k, d, ms, w, u)
    PROVE  Leads(f, n, e, v, q \o ms, x)
<1>1. CASE ms = <<>>
  BY <1>1, ConcatEmptySeq
<1>2. ASSUME NEW m \in Message, ms = <<m>>, m.doc = d
      PROVE  Leads(f, n, e, v, q \o ms, x)
  <2>1. Known(x, n)
    BY LeadsEnds
  <2>2. q \o ms = Append(q, m)
    BY <1>2, AppendIsConcat
  <2>3. Reads(f, e, x, m, x)
    BY <1>2 DEF Reads
  <2> QED  BY <2>1, <2>2, <2>3, LeadsOn
<1> QED  BY <1>1, <1>2 DEF Takes

\* Reading as the protocol has it is what Receive() says.
LEMMA UnderstoodIsReceived ==
    ASSUME NEW v \in View, NEW m \in Message, NEW w, Understands(Follows, v, m, w)
    PROVE  Receive(v, m) = w /\ Grows(v, w)
<1>1. CASE m.kind = "open"
  BY <1>1 DEF Understands, Receive, Grows
<1>2. CASE m.kind = "change"
  BY <1>2 DEF Understands, Receive, Grows
<1>3. CASE m.kind = "save"
  BY <1>3 DEF Understands, Receive, HasText, Grows, View
<1>4. CASE m.kind = "close"
  BY <1>4 DEF Understands, Receive, Grows, Closed
<1> QED  BY <1>1, <1>2, <1>3, <1>4 DEF Understands

LEMMA TakenAtOnce ==
    ASSUME NEW n \in Nat, NEW d, NEW v \in View, NEW w, NEW ms \in Seq(Message),
           Takes(Follows, n, d, ms, v, w)
    PROVE  ReceiveAny(v, ms) = w /\ Grows(v, w)
<1>1. CASE ms = <<>> /\ w = v
  BY <1>1 DEF ReceiveAny, Grows, View
<1>2. ASSUME NEW m \in Message, ms = <<m>>, Understands(Follows, v, m, w)
      PROVE  ReceiveAny(v, ms) = w /\ Grows(v, w)
  BY <1>2, UnderstoodIsReceived DEF ReceiveAny
<1>3. ASSUME NEW m \in Message, ms = <<m>>, m.kind = "request", w = v
      PROVE  ReceiveAny(v, ms) = w /\ Grows(v, w)
  BY <1>3 DEF ReceiveAny, Receive, Grows, View
<1> QED  BY <1>1, <1>2, <1>3 DEF Takes

-----------------------------------------------------------------------------
(* The invariant.                                                          *)

\* View w of d agrees with what the editor believes the process has.
Current(w, d) ==
    /\ w.state = "open" <=> d \in docs
    /\ w.state = "open" =>
          /\ w.version <= version[d]
          /\ Follows => d \in change_timeout \/ w.text = text[d]

\* No process is confused, and what it has is not newer than the buffer.
AllKnown == \A d \in Doc : Known(seen[d], text[d])

\* At the end of the queue the process agrees with the editor.
WillAgree ==
    state # "FAILED" =>
        \A d \in Doc : \E w : /\ Leads(Follows, text[d], d, seen[d], queued, w)
                              /\ Current(w, d)

MirrorInvariant == SyncInvariant /\ Life /\ AllKnown /\ WillAgree

\* What a step has to do for the invariant and for LspMirror.
Faithful == AllKnown' /\ WillAgree' /\ \A d \in Doc : Grows(seen[d], seen'[d])

LEMMA MirrorInit == Init => MirrorInvariant
<1> SUFFICES ASSUME Init PROVE MirrorInvariant
  OBVIOUS
<1>1. \A d \in Doc : seen[d] = Closed /\ text[d] = 0 /\ d \notin docs
  BY DEF Init
<1>2. \A d \in Doc : Known(seen[d], text[d])
  BY <1>1 DEF Known, Closed, View
<1>3. ASSUME NEW d \in Doc
      PROVE  Leads(Follows, text[d], d, seen[d], <<>>, seen[d]) /\ Current(seen[d], d)
  <2>1. Follows \in BOOLEAN /\ text[d] \in Nat
    BY <1>1 DEF Follows
  <2>2. Current(seen[d], d)
    BY <1>1 DEF Current, Closed
  <2> QED  BY <1>2, <2>1, <2>2, LeadsNowhere
<1>4. queued = <<>>
  BY DEF Init
<1> QED  BY <1>2, <1>3, <1>4, SyncInit, LifeInit DEF MirrorInvariant, AllKnown, WillAgree

\* A step that tells the process nothing and puts nothing into the queue.
LEMMA NothingSaid ==
    ASSUME MirrorInvariant, TypeOK', UNCHANGED <<seen, queued, sync_kind>>,
           \A d \in Doc : text[d] <= text'[d],
           state' = state \/ state' = "FAILED",
           \A d \in Doc : \A w : Known(w, text[d]) /\ Current(w, d) => Current(w, d)'
    PROVE  Faithful
<1>1. \A d \in Doc : text[d] \in Nat /\ text'[d] \in Nat /\ seen[d] \in View
  BY DEF MirrorInvariant, SyncInvariant, TypeOK
<1>2. Follows' = Follows /\ Follows \in BOOLEAN
  BY DEF Follows
<1>3. AllKnown'
  BY <1>1 DEF MirrorInvariant, AllKnown, Known, View
<1>4. \A d \in Doc : Grows(seen[d], seen'[d])
  BY <1>1 DEF Grows, View
<1>5. WillAgree'
  <2> SUFFICES ASSUME state' # "FAILED", NEW d \in Doc
               PROVE  \E w : Leads(Follows', text'[d], d, seen'[d], queued', w) /\ Current(w, d)'
    BY DEF WillAgree
  <2>1. PICK w : Leads(Follows, text[d], d, seen[d], queued, w) /\ Current(w, d)
    BY DEF MirrorInvariant, WillAgree
  <2>2. queued \in Seq(Message)
    BY DEF MirrorInvariant, SyncInvariant, TypeOK
  <2>3. Known(w, text[d])
    BY <2>1, <2>2, LeadsEnds
  <2>4. Leads(Follows', text'[d], d, seen'[d], queued', w)
    BY <1>1, <1>2, <2>1, <2>2, LeadsLater
  <2> QED  BY <2>1, <2>3, <2>4
<1> QED  BY <1>3, <1>4, <1>5 DEF Faithful

\* A step after which the process knows nothing and the queue is empty, or
\* the server has failed.
LEMMA AllForgotten ==
    ASSUME TypeOK', \A d \in Doc : seen'[d] = Closed,
           state' # "FAILED" => queued' = <<>> /\ docs' = {}
    PROVE  Faithful
<1>1. \A d \in Doc : text'[d] \in Nat
  BY DEF TypeOK
<1>2. \A n \in Nat : Known(Closed, n)
  BY DEF Known, Closed, View
<1>3. AllKnown'
  BY <1>1, <1>2 DEF AllKnown
<1>4. \A d \in Doc : Grows(seen[d], seen'[d])
  BY DEF Grows, Closed
<1>5. WillAgree'
  <2> SUFFICES ASSUME state' # "FAILED", NEW d \in Doc
               PROVE  Leads(Follows', text'[d], d, seen'[d], queued', Closed) /\ Current(Closed, d)'
    BY DEF WillAgree
  <2>1. Follows' \in BOOLEAN
    BY DEF Follows
  <2>2. Current(Closed, d)'
    BY DEF Current, Closed
  <2> QED  BY <1>1, <1>2, <2>1, <2>2, LeadsNowhere
<1> QED  BY <1>3, <1>4, <1>5 DEF Faithful

\* A step that only tells the server of d.
LEMMA OneTold ==
    ASSUME MirrorInvariant, NEW d \in Doc, ~flushing, state # "FAILED",
           NEW first \in Seq(Message), NEW second \in Seq(Message), NEW w, NEW u,
           Leads(Follows, text[d], d, seen[d], queued, w),
           Takes(Follows, text[d], d, first, w, u),
           Takes(Follows, text[d], d, second, u, u),
           Send(d, first, second),
           UNCHANGED <<state, text, sync_kind>>,
           Current(u, d)',
           \A e \in Doc \ {d} : \A x : Current(x, e) => Current(x, e)'
    PROVE  Faithful
<1>1. /\ \A e \in Doc : text[e] \in Nat /\ seen[e] \in View
      /\ queued \in Seq(Message) /\ state \in State /\ seen \in [Doc -> View]
  BY DEF MirrorInvariant, SyncInvariant, TypeOK
<1>2. Follows' = Follows /\ Follows \in BOOLEAN
  BY DEF Follows
<1>3. Known(w, text[d])
  BY <1>1, LeadsEnds
<1>4. CASE state = "STARTING"
  <2>1. queued' = queued \o (first \o second) /\ seen' = seen
    BY <1>4 DEF Send, Pushed
  <2>2. queued' = (queued \o first) \o second /\ queued \o first \in Seq(Message)
    BY <1>1, <2>1, ConcatAssociative, ConcatProperties
  <2>4. Takes(Follows, text[d], d, first, w, u) /\ Takes(Follows, text[d], d, second, u, u)
    OBVIOUS
  <2>5. Leads(Follows, text[d], d, seen[d], queued \o first, u)
    BY <1>1, <1>2, <2>4, TakenFromQueue
  <2>6. Leads(Follows, text[d], d, seen[d], queued', u)
    BY <1>1, <1>2, <2>2, <2>4, <2>5, TakenFromQueue
  <2>7. ASSUME NEW e \in Doc \ {d}, NEW x, Leads(Follows, text[e], e, seen[e], queued, x)
        PROVE  Leads(Follows, text[e], e, seen[e], queued', x)
    <3>1. Leads(Follows, text[e], e, seen[e], queued \o first, x)
      BY <1>1, <1>2, <2>4, <2>7, OthersNotTold
    <3> QED  BY <1>1, <1>2, <2>2, <2>4, <3>1, OthersNotTold
  <2>8. WillAgree'
    <3> SUFFICES ASSUME NEW e \in Doc
                 PROVE  \E x : Leads(Follows', text'[e], e, seen'[e], queued', x) /\ Current(x, e)'
      BY DEF WillAgree
    <3>1. CASE e = d
      BY <1>2, <2>1, <2>6, <3>1
    <3>2. CASE e # d
      <4>1. PICK x : Leads(Follows, text[e], e, seen[e], queued, x) /\ Current(x, e)
        BY DEF MirrorInvariant, WillAgree
      <4>2. Leads(Follows, text[e], e, seen[e], queued', x) /\ Current(x, e)'
        BY <2>7, <3>2, <4>1
      <4> QED  BY <1>2, <2>1, <4>2
    <3> QED  BY <3>1, <3>2
  <2>9. AllKnown'
    BY <2>1 DEF MirrorInvariant, AllKnown
  <2>10. \A e \in Doc : Grows(seen[e], seen'[e])
    BY <1>1, <2>1 DEF Grows, View
  <2> QED  BY <2>8, <2>9, <2>10 DEF Faithful
<1>5. CASE state = "READY"
  <2>1. /\ seen' = [seen EXCEPT ![d] = ReceiveAny(ReceiveAny(@, first), second)]
        /\ queued' = queued
    BY <1>5 DEF Send
  <2>2. queued = <<>>
    BY <1>5 DEF MirrorInvariant, Life, QueueWaits
  <2>3. w = seen[d]
    BY <1>1, <1>2, <2>2, LeadsNowhere
  <2>4. Takes(Follows, text[d], d, first, w, u) /\ Takes(Follows, text[d], d, second, u, u)
    OBVIOUS
  <2>5. u \in View /\ Known(u, text[d])
    BY <2>4 DEF Takes, Known
  <2>6. w \in View /\ text[d] \in Nat
    BY <1>1, <2>3
  <2>7. ReceiveAny(w, first) = u /\ Grows(w, u)
    BY <2>4, <2>6, TakenAtOnce, Zenon
  <2>8. ReceiveAny(u, second) = u /\ Grows(u, u)
    BY <2>4, <2>5, <2>6, TakenAtOnce, Zenon
  <2>9. seen' = [seen EXCEPT ![d] = u]
    BY <2>1, <2>3, <2>7, <2>8
  <2>10. seen'[d] = u /\ \A e \in Doc \ {d} : seen'[e] = seen[e]
    BY <1>1, <2>9
  <2>11. AllKnown'
    BY <2>5, <2>10 DEF MirrorInvariant, AllKnown
  <2>12. ASSUME NEW e \in Doc PROVE Grows(seen[e], seen'[e])
    <3>1. CASE e = d
      BY <2>3, <2>7, <2>10, <3>1
    <3>2. CASE e # d
      BY <1>1, <2>10, <3>2 DEF Grows, View
    <3> QED  BY <3>1, <3>2
  <2>13. WillAgree'
    <3> SUFFICES ASSUME NEW e \in Doc
                 PROVE  \E x : Leads(Follows', text'[e], e, seen'[e], queued', x) /\ Current(x, e)'
      BY DEF WillAgree
    <3>1. CASE e = d
      <4>1. Leads(Follows, text[d], d, u, <<>>, u)
        BY <1>1, <1>2, <2>5, LeadsNowhere
      <4> QED  BY <1>2, <2>1, <2>2, <2>10, <3>1, <4>1
    <3>2. CASE e # d
      <4>1. PICK x : Leads(Follows, text[e], e, seen[e], queued, x) /\ Current(x, e)
        BY DEF MirrorInvariant, WillAgree
      <4> QED  BY <1>2, <2>1, <2>10, <3>2, <4>1
    <3> QED  BY <3>1, <3>2
  <2> QED  BY <2>11, <2>12, <2>13 DEF Faithful
<1> QED  BY <1>1, <1>4, <1>5 DEF State

\* lsp_doc_flush(): the process then has the text of the buffer.
LEMMA FlushTaken ==
    ASSUME TypeOK, NEW d \in Doc, NEW w, Known(w, text[d]), Current(w, d)
    PROVE  \E u : /\ Takes(Follows, text[d], d, Flushed(d), w, u)
                  /\ u.state = w.state
                  /\ u.state = "open" =>
                        /\ Follows => u.text = text[d]
                        /\ u.version <= IF d \in change_timeout THEN version[d] + 1 ELSE version[d]
<1>1. /\ text[d] \in Nat /\ version[d] \in Nat
      /\ w \in View
      /\ Follows <=> sync_kind # "none"
  BY DEF TypeOK, Known, Sync, Follows
<1>2. CASE d \in change_timeout /\ d \in docs /\ Follows
  <2> DEFINE m == ChangeOf(d)
             u == [state |-> "open", version |-> version[d] + 1, text |-> text[d]]
  <2>1. m \in Message /\ m.kind = "change" /\ m.doc = d /\ m.version = version[d] + 1 /\ m.text = text[d]
    BY <1>1 DEF ChangeOf, Message, Kind
  <2>2. Flushed(d) = <<m>>
    BY <1>1, <1>2 DEF Flushed, DidChange
  <2>3. /\ w.state = "open" /\ w.version <= version[d] /\ w.text <= text[d]
        /\ w.version \in Nat /\ w.text \in Nat
    BY <1>1, <1>2 DEF Current, Known, View
  <2>4. u \in View /\ u.state = "open" /\ u.version = version[d] + 1 /\ u.text = text[d]
    BY <1>1 DEF View
  <2> HIDE DEF m, u
  <2>5. Known(u, text[d])
    BY <1>1, <2>4 DEF Known
  <2>6. Understands(Follows, w, m, u)
    <3>1. m.version > w.version /\ m.text >= w.text
      BY <1>1, <2>1, <2>3
    <3>2. u = [state |-> "open", version |-> m.version, text |-> m.text]
      BY <2>1 DEF u
    <3> QED  BY <2>1, <2>3, <3>1, <3>2 DEF Understands
  <2>7. Takes(Follows, text[d], d, Flushed(d), w, u)
    BY <2>1, <2>2, <2>5, <2>6 DEF Takes
  <2>8. /\ u.state = w.state
        /\ u.state = "open" =>
              /\ Follows => u.text = text[d]
              /\ u.version <= IF d \in change_timeout THEN version[d] + 1 ELSE version[d]
    BY <1>1, <1>2, <2>3, <2>4
  <2> QED  BY <2>7, <2>8
<1>3. CASE ~(d \in change_timeout /\ d \in docs /\ Follows)
  <2>1. Flushed(d) = <<>>
    BY <1>1, <1>3 DEF Flushed, DidChange
  <2>2. Takes(Follows, text[d], d, Flushed(d), w, w)
    BY <2>1 DEF Takes
  <2>3. w.state = "open" =>
           /\ Follows => w.text = text[d]
           /\ w.version <= IF d \in change_timeout THEN version[d] + 1 ELSE version[d]
    BY <1>1, <1>3 DEF Current, View
  <2> QED  BY <2>2, <2>3
<1> QED  BY <1>2, <1>3

\* The timer, a save and a question, each after what lsp_doc_flush() sends.
LEMMA TalkFaithful ==
    ASSUME MirrorInvariant, TypeOK', NEW d \in Doc, TimerFires(d) \/ Save(d) \/ Ask(d)
    PROVE  Faithful
<1>1. TypeOK /\ DocsOK /\ Life
  BY TypeParts DEF MirrorInvariant, SyncInvariant
<1>2. /\ ~flushing /\ AfterFlush(d)
      /\ UNCHANGED <<server, state, attached, docs, sync_kind, text>>
  BY DEF TimerFires, Save, Ask
<1>3. PICK second \in {<<>>, DidSave(d), <<RequestOf(d)>>} :
         /\ Send(d, Flushed(d), second)
         /\ second # <<>> => d \in attached
  BY DEF TimerFires, Save, Ask, Flushed
<1>4. second \in Seq(Message) /\ Flushed(d) \in Seq(Message)
  BY <1>1, MessageTypes, EmptySeq
<1>5. text[d] \in Nat /\ version[d] \in Nat /\ queued \in Seq(Message)
  BY <1>1 DEF TypeOK
<1>6. CASE state = "FAILED"
  <2>1. UNCHANGED <<seen, queued>>
    BY <1>3, <1>6 DEF Send
  <2>2. AllKnown'
    BY <1>2, <2>1 DEF MirrorInvariant, AllKnown
  <2>3. \A e \in Doc : Grows(seen[e], seen'[e])
    BY <1>1, <2>1 DEF Grows, TypeOK, View
  <2> QED  BY <1>2, <1>6, <2>2, <2>3 DEF Faithful, WillAgree
<1>7. CASE state # "FAILED"
  <2>1. PICK w : Leads(Follows, text[d], d, seen[d], queued, w) /\ Current(w, d)
    BY <1>7 DEF MirrorInvariant, WillAgree
  <2>2. Known(w, text[d])
    BY <1>5, <2>1, LeadsEnds
  <2>4. PICK u : /\ Takes(Follows, text[d], d, Flushed(d), w, u)
                 /\ u.state = w.state
                 /\ u.state = "open" =>
                       /\ Follows => u.text = text[d]
                       /\ u.version <= IF d \in change_timeout THEN version[d] + 1 ELSE version[d]
    BY <1>1, <2>1, <2>2, FlushTaken
  <2>5. Known(u, text[d]) /\ (u.state = "open" <=> d \in docs)
    BY <2>1, <2>4 DEF Takes, Current
  <2>6. Takes(Follows, text[d], d, second, u, u)
    <3>1. CASE second = <<>>
      BY <2>5, <3>1 DEF Takes
    <3>2. CASE second = DidSave(d) /\ second # <<>>
      <4>1. second = <<SaveOf(d)>> /\ d \in docs
        BY <3>2 DEF DidSave
      <4>2. SaveOf(d) \in Message /\ SaveOf(d).kind = "save" /\ SaveOf(d).doc = d /\ SaveOf(d).text = text[d]
        BY <1>5 DEF SaveOf, Message, Kind
      <4>3. Understands(Follows, u, SaveOf(d), u)
        BY <2>4, <2>5, <4>1, <4>2 DEF Understands
      <4> QED  BY <2>5, <4>1, <4>2, <4>3 DEF Takes
    <3>3. CASE second = <<RequestOf(d)>>
      <4>1. /\ RequestOf(d) \in Message /\ RequestOf(d).kind = "request"
            /\ RequestOf(d).doc = d
        BY <1>5 DEF RequestOf, Message, Kind
      <4> QED  BY <2>5, <3>3, <4>1 DEF Takes
    <3> QED  BY <1>3, <3>1, <3>2, <3>3
  <2>7. Current(u, d)'
    <3>1. /\ version'[d] = IF d \in change_timeout THEN version[d] + 1 ELSE version[d]
          /\ docs' = docs /\ text' = text /\ Follows' = Follows
      BY <1>1, <1>2 DEF AfterFlush, TypeOK, Follows
    <3> QED  BY <2>4, <2>5, <3>1 DEF Current
  <2>8. \A e \in Doc \ {d} : \A x : Current(x, e) => Current(x, e)'
    <3>1. /\ \A e \in Doc \ {d} : version'[e] = version[e] /\ (e \in change_timeout' <=> e \in change_timeout)
          /\ docs' = docs /\ text' = text /\ Follows' = Follows
      BY <1>1, <1>2 DEF AfterFlush, TypeOK, Follows
    <3> QED  BY <3>1 DEF Current
  <2>9. UNCHANGED <<state, text, sync_kind>>
    BY <1>2
  <2> QED  BY <1>2, <1>3, <1>4, <1>7, <2>1, <2>4, <2>6, <2>7, <2>8, <2>9, OneTold
<1> QED  BY <1>6, <1>7

\* A server that has failed is told nothing, and its queue does not matter.
LEMMA FailedFaithful ==
    ASSUME MirrorInvariant, UNCHANGED <<seen, text>>, state' = "FAILED"
    PROVE  Faithful
<1>1. AllKnown'
  BY DEF MirrorInvariant, AllKnown
<1>2. \A d \in Doc : Grows(seen[d], seen'[d])
  BY DEF MirrorInvariant, SyncInvariant, Grows, TypeOK, View
<1> QED  BY <1>1, <1>2 DEF Faithful, WillAgree

LEMMA AddDocFaithful ==
    ASSUME MirrorInvariant, TypeOK', NEW d \in Doc, AddDoc(d)
    PROVE  Faithful
<1>1. TypeOK /\ DocsOK /\ Life
  BY TypeParts DEF MirrorInvariant, SyncInvariant
<1>2. /\ ~flushing /\ d \notin attached /\ d \notin docs
      /\ version' = [version EXCEPT ![d] = 1]
      /\ DidOpen(d)
      /\ UNCHANGED <<state, sync_kind, text, change_timeout>>
  BY <1>1 DEF AddDoc, Life, OnlyAttached
<1>3. text[d] \in Nat /\ queued \in Seq(Message) /\ Follows' = Follows
  BY <1>1, <1>2 DEF TypeOK, Follows
<1>4. /\ version'[d] = 1 /\ \A e \in Doc \ {d} : version'[e] = version[e]
      /\ \A e \in Doc : text'[e] = text[e] /\ text[e] \in Nat
  BY <1>1, <1>2 DEF TypeOK
<1>5. CASE state = "FAILED"
  <2>1. UNCHANGED <<seen, queued>>
    BY <1>2, <1>5 DEF DidOpen, Send
  <2> QED  BY <1>2, <1>5, <2>1, FailedFaithful
<1>6. CASE state # "FAILED" /\ UNCHANGED <<docs, queued, seen>>
  <2>1. \A e \in Doc : \A w : Current(w, e) => Current(w, e)'
    BY <1>2, <1>3, <1>4, <1>6 DEF Current
  <2>2. \A e \in Doc : text[e] <= text'[e]
    BY <1>4
  <2> QED  BY <1>2, <1>6, <2>1, <2>2, NothingSaid
<1>7. CASE state # "FAILED" /\ docs' = docs \cup {d} /\ Send(d, <<OpenOf(d)>>, <<>>)
  <2>1. PICK w : Leads(Follows, text[d], d, seen[d], queued, w) /\ Current(w, d)
    BY <1>7 DEF MirrorInvariant, WillAgree
  <2>2. Known(w, text[d])
    BY <1>3, <2>1, LeadsEnds
  <2>3. w.state = "closed"
    BY <1>2, <2>1, <2>2 DEF Current, Known, View
  <2>4. PICK u : u = [state |-> "open", version |-> 1, text |-> text[d]]
    OBVIOUS
  <2>5. u \in View /\ u.state = "open" /\ u.version = 1 /\ u.text = text[d]
    BY <1>3, <2>4 DEF View
  <2>6. /\ OpenOf(d) \in Message /\ OpenOf(d).kind = "open" /\ OpenOf(d).doc = d
        /\ OpenOf(d).version = 1 /\ OpenOf(d).text = text[d]
    BY <1>3 DEF OpenOf, Message, Kind
  <2>7. Understands(Follows, w, OpenOf(d), u)
    BY <2>3, <2>6, <2>4 DEF Understands
  <2>8. Known(u, text[d])
    BY <1>3, <2>5 DEF Known
  <2>9. /\ Takes(Follows, text[d], d, <<OpenOf(d)>>, w, u)
        /\ Takes(Follows, text[d], d, <<>>, u, u)
    BY <2>6, <2>7, <2>8 DEF Takes
  <2>10. Current(u, d)'
    BY <1>2, <1>4, <1>7, <2>5 DEF Current
  <2>11. \A e \in Doc \ {d} : \A x : Current(x, e) => Current(x, e)'
    BY <1>2, <1>3, <1>4, <1>7 DEF Current
  <2>12. <<>> \in Seq(Message) /\ <<OpenOf(d)>> \in Seq(Message)
    BY <1>1, MessageTypes, EmptySeq
  <2>13. UNCHANGED <<state, text, sync_kind>>
    BY <1>2
  <2> QED  BY <1>2, <1>7, <2>1, <2>9, <2>10, <2>11, <2>12, <2>13, OneTold
<1> QED  BY <1>2, <1>5, <1>6, <1>7 DEF DidOpen

LEMMA RemoveDocFaithful ==
    ASSUME MirrorInvariant, TypeOK', NEW d \in Doc, RemoveDoc(d)
    PROVE  Faithful
<1>1. TypeOK /\ DocsOK /\ Life
  BY TypeParts DEF MirrorInvariant, SyncInvariant
<1>2. /\ ~flushing
      /\ change_timeout' = change_timeout \ {d}
      /\ docs' = docs \ {d}
      /\ Send(d, DidClose(d), <<>>)
      /\ UNCHANGED <<state, sync_kind, text, version>>
  BY DEF RemoveDoc
<1>3. text[d] \in Nat /\ queued \in Seq(Message) /\ Follows' = Follows
  BY <1>1, <1>2 DEF TypeOK, Follows
<1>4. CASE state = "FAILED"
  <2>1. UNCHANGED <<seen, queued>>
    BY <1>2, <1>4 DEF Send
  <2> QED  BY <1>2, <1>4, <2>1, FailedFaithful
<1>5. CASE state # "FAILED"
  <2>1. PICK w : Leads(Follows, text[d], d, seen[d], queued, w) /\ Current(w, d)
    BY <1>5 DEF MirrorInvariant, WillAgree
  <2>2. Known(w, text[d])
    BY <1>3, <2>1, LeadsEnds
  <2>3. PICK u : /\ Takes(Follows, text[d], d, DidClose(d), w, u)
                 /\ u.state = "closed" /\ Known(u, text[d])
    <3>1. CASE d \in docs
      <4>1. CloseOf(d) \in Message /\ CloseOf(d).kind = "close" /\ CloseOf(d).doc = d
        BY DEF CloseOf, Message, Kind
      <4>2. Understands(Follows, w, CloseOf(d), Closed)
        BY <2>1, <3>1, <4>1 DEF Understands, Current
      <4>3. Known(Closed, text[d]) /\ Closed.state = "closed"
        BY <1>3 DEF Known, Closed, View
      <4>4. DidClose(d) = <<CloseOf(d)>>
        BY <3>1 DEF DidClose
      <4>5. Takes(Follows, text[d], d, DidClose(d), w, Closed)
        BY <4>1, <4>2, <4>3, <4>4 DEF Takes
      <4> QED  BY <4>3, <4>5
    <3>2. CASE d \notin docs
      <4>1. w.state = "closed"
        BY <2>1, <2>2, <3>2 DEF Current, Known, View
      <4>2. Takes(Follows, text[d], d, DidClose(d), w, w)
        BY <2>2, <3>2 DEF Takes, DidClose
      <4> QED  BY <2>2, <4>1, <4>2
    <3> QED  BY <3>1, <3>2
  <2>4. Takes(Follows, text[d], d, <<>>, u, u)
    BY <2>3 DEF Takes
  <2>5. Current(u, d)'
    BY <1>2, <2>3 DEF Current
  <2>6. \A e \in Doc \ {d} : \A x : Current(x, e) => Current(x, e)'
    BY <1>2, <1>3 DEF Current
  <2>7. <<>> \in Seq(Message) /\ DidClose(d) \in Seq(Message)
    BY <1>1, MessageTypes, EmptySeq
  <2>8. UNCHANGED <<state, text, sync_kind>>
    BY <1>2
  <2> QED  BY <1>2, <1>5, <2>1, <2>3, <2>4, <2>5, <2>6, <2>7, <2>8, OneTold
<1> QED  BY <1>4, <1>5

\* server_state_changed() opens what the server does not have, before the
\* queue is flushed, which has nothing to say of those documents.
LEMMA InitializeReplyFaithful ==
    ASSUME OneKind, MirrorInvariant, TypeOK', InitializeReply
    PROVE  Faithful
<1>1. TypeOK /\ DocsOK /\ Life
  BY TypeParts DEF MirrorInvariant, SyncInvariant
<1>2. /\ state = "STARTING" /\ state' = "READY"
      /\ docs' = docs \cup Reopened
      /\ seen' = [d \in Doc |-> IF d \in Reopened THEN Receive(seen[d], OpenOf(d)) ELSE seen[d]]
      /\ version' = [d \in Doc |-> IF d \in Reopened THEN 1 ELSE version[d]]
      /\ UNCHANGED <<queued, text, change_timeout>>
  BY <1>1 DEF InitializeReply, Life, CallIsOfStart
<1>3. Follows' => Follows
  BY <1>1, KindOfReply DEF Follows
<1>4. Follows \in BOOLEAN /\ Follows' \in BOOLEAN /\ queued \in Seq(Message)
  BY <1>1 DEF Follows, TypeOK
<1>5. ASSUME NEW d \in Doc
      PROVE  /\ Known(seen'[d], text'[d]) /\ Grows(seen[d], seen'[d])
             /\ \E w : Leads(Follows', text'[d], d, seen'[d], queued', w) /\ Current(w, d)'
  <2>1. text[d] \in Nat /\ text'[d] = text[d] /\ seen[d] = Closed
    BY <1>1, <1>2 DEF TypeOK, Life, NothingTold
  <2>2. CASE d \in Reopened
    <3>1. PICK v : v = [state |-> "open", version |-> 1, text |-> text[d]]
      OBVIOUS
    <3>2. seen'[d] = v
      BY <1>2, <2>1, <2>2, <3>1 DEF Receive, OpenOf, Closed
    <3>3. v \in View /\ v.state = "open" /\ v.version = 1 /\ v.text = text[d]
      BY <2>1, <3>1 DEF View
    <3>4. Known(v, text[d])
      BY <2>1, <3>3 DEF Known
    <3>5. Silent(queued, d)
      BY <1>1, <1>2, <2>2 DEF Life, OpenedLater, Reopened
    <3>6. Leads(Follows', text[d], d, v, queued, v)
      BY <1>4, <2>1, <3>4, <3>5, LeadsAround
    <3>7. Current(v, d)'
      BY <1>2, <2>1, <2>2, <3>3 DEF Current
    <3>8. Grows(seen[d], v)
      BY <2>1 DEF Grows, Closed
    <3> QED  BY <1>2, <2>1, <3>2, <3>4, <3>6, <3>7, <3>8
  <2>3. CASE d \notin Reopened
    <3>1. seen'[d] = seen[d] /\ version'[d] = version[d] /\ (d \in docs' <=> d \in docs)
      BY <1>2, <2>3
    <3>2. PICK w : Leads(Follows, text[d], d, seen[d], queued, w) /\ Current(w, d)
      BY <1>2 DEF MirrorInvariant, WillAgree
    <3>3. Leads(Follows', text[d], d, seen[d], queued, w)
      BY <1>3, <1>4, <2>1, <3>2, LeadsLater
    <3>4. Current(w, d)'
      BY <1>2, <1>3, <2>1, <3>1, <3>2 DEF Current
    <3>5. Known(seen[d], text[d]) /\ Grows(seen[d], seen[d])
      BY <2>1 DEF Known, Grows, Closed, View
    <3> QED  BY <1>2, <2>1, <3>1, <3>3, <3>4, <3>5
  <2> QED  BY <2>2, <2>3
<1> QED  BY <1>5 DEF Faithful, AllKnown, WillAgree

LEMMA FlushStepFaithful ==
    ASSUME MirrorInvariant, TypeOK', FlushStep
    PROVE  Faithful
<1>1. TypeOK /\ FlushGuarded /\ Life
  BY DEF MirrorInvariant, SyncInvariant
<1> DEFINE m == Head(queued)
<1>2. /\ flushing /\ queued # <<>> /\ state = "READY"
      /\ seen' = [seen EXCEPT ![m.doc] = Receive(@, m)]
      /\ queued' = Tail(queued)
      /\ UNCHANGED <<state, docs, sync_kind, text, version, change_timeout>>
  BY <1>1 DEF FlushStep, FlushGuarded, Life, QueueWaits
<1>3. Follows \in BOOLEAN /\ Follows' = Follows /\ queued \in Seq(Message)
  BY <1>1, <1>2 DEF Follows, TypeOK
<1>4. m \in Message
  BY <1>2, <1>3, HeadTailProperties
<1> HIDE DEF m
<1>5. ASSUME NEW d \in Doc
      PROVE  /\ Known(seen'[d], text'[d]) /\ Grows(seen[d], seen'[d])
             /\ \E w : Leads(Follows', text'[d], d, seen'[d], queued', w) /\ Current(w, d)'
  <2>1. text[d] \in Nat /\ text'[d] = text[d] /\ seen[d] \in View /\ seen \in [Doc -> View]
    BY <1>1, <1>2 DEF TypeOK
  <2>2. PICK w : Leads(Follows, text[d], d, seen[d], queued, w) /\ Current(w, d)
    BY <1>2 DEF MirrorInvariant, WillAgree
  <2>3. PICK u : /\ Known(u, text[d])
                 /\ Reads(Follows, d, seen[d], m, u)
                 /\ Leads(Follows, text[d], d, u, Tail(queued), w)
    BY <1>2, <1>3, <2>1, <2>2, LeadsFromNext DEF m
  <2>4. seen'[d] = u /\ Grows(seen[d], u)
    <3>1. CASE m.doc = d /\ m.kind # "request"
      <4>1. Receive(seen[d], m) = u /\ Grows(seen[d], u)
        BY <1>4, <2>1, <2>3, <3>1, UnderstoodIsReceived DEF Reads
      <4>2. seen'[d] = Receive(seen[d], m)
        BY <1>2, <2>1, <3>1
      <4> QED  BY <4>1, <4>2
    <3>2. CASE ~(m.doc = d /\ m.kind # "request")
      <4>1. u = seen[d]
        BY <2>3, <3>2 DEF Reads
      <4>2. seen'[d] = seen[d]
        <5>1. CASE m.doc = d
          <6>1. m.kind = "request"
            BY <3>2, <5>1
          <6>2. Receive(seen[d], m) = seen[d]
            BY <6>1 DEF Receive
          <6> QED  BY <1>2, <2>1, <5>1, <6>2
        <5>2. CASE m.doc # d
          BY <1>2, <2>1, <5>2
        <5> QED  BY <5>1, <5>2
      <4> QED  BY <2>1, <4>1, <4>2 DEF Grows, View
    <3> QED  BY <3>1, <3>2
  <2>5. Current(w, d)'
    BY <1>2, <1>3, <2>2 DEF Current
  <2> QED  BY <1>2, <1>3, <2>1, <2>3, <2>4, <2>5
<1> QED  BY <1>5 DEF Faithful, AllKnown, WillAgree

LEMMA ManagerStoppedFaithful ==
    ASSUME MirrorInvariant, TypeOK', ManagerStopped
    PROVE  Faithful
<1>1. TypeOK /\ DocsOK /\ Life
  BY TypeParts DEF MirrorInvariant, SyncInvariant
<1>2. /\ ~flushing
      /\ seen' = [d \in Doc |-> IF state = "READY" /\ d \in attached \cap docs
                                THEN Receive(seen[d], CloseOf(d)) ELSE seen[d]]
      /\ UNCHANGED <<state, sync_kind, text, version>>
  BY DEF ManagerStopped
<1>3. docs' = {} /\ (queued' = <<>> \/ (queued' = queued /\ docs = {}))
  BY <1>1, NobodyHasDocuments DEF ManagerStopped, Release
<1>4. Follows \in BOOLEAN /\ Follows' = Follows /\ queued \in Seq(Message)
  BY <1>1, <1>2 DEF Follows, TypeOK
<1>5. ASSUME NEW d \in Doc
      PROVE  /\ Known(seen'[d], text'[d]) /\ Grows(seen[d], seen'[d])
             /\ state' # "FAILED" =>
                   \E w : Leads(Follows', text'[d], d, seen'[d], queued', w) /\ Current(w, d)'
  <2>1. text[d] \in Nat /\ text'[d] = text[d] /\ seen[d] \in View /\ Known(seen[d], text[d])
    BY <1>1, <1>2 DEF TypeOK, MirrorInvariant, AllKnown
  <2>2. Known(Closed, text[d]) /\ Grows(seen[d], Closed) /\ Grows(seen[d], seen[d])
    BY <2>1 DEF Known, Grows, Closed, View
  <2>3. ASSUME state = "READY" PROVE seen'[d].state = "closed" /\ seen'[d] \in {seen[d], Closed}
    <3>1. queued = <<>>
      BY <1>1, <1>2, <2>3 DEF Life, QueueWaits
    <3>2. Current(seen[d], d)
      <4>1. PICK w : Leads(Follows, text[d], d, seen[d], queued, w) /\ Current(w, d)
        BY <2>3 DEF MirrorInvariant, WillAgree
      <4>2. w = seen[d]
        BY <1>4, <2>1, <3>1, <4>1, LeadsNowhere
      <4> QED  BY <4>1, <4>2
    <3>3. CASE d \in docs
      <4>1. seen'[d] = Receive(seen[d], CloseOf(d))
        BY <1>1, <1>2, <2>3, <3>3 DEF Life, OnlyAttached
      <4>2. seen[d].state = "open" /\ CloseOf(d).kind = "close"
        BY <3>2, <3>3 DEF Current, CloseOf
      <4>3. Receive(seen[d], CloseOf(d)) = Closed /\ Closed.state = "closed"
        BY <4>2 DEF Receive, Closed
      <4> QED  BY <4>1, <4>3
    <3>4. CASE d \notin docs
      <4>1. seen'[d] = seen[d]
        BY <1>2, <3>4
      <4>2. seen[d].state = "closed"
        BY <2>1, <3>2, <3>4 DEF Current, Known, View
      <4> QED  BY <4>1, <4>2
    <3> QED  BY <3>3, <3>4
  <2>4. ASSUME state # "READY" PROVE seen'[d] = seen[d]
    BY <1>2, <2>4
  <2>5. Known(seen'[d], text'[d]) /\ Grows(seen[d], seen'[d])
    BY <2>1, <2>2, <2>3, <2>4
  <2>6. ASSUME NEW w, w.state = "closed" PROVE Current(w, d)'
    BY <1>3, <2>6 DEF Current
  <2>7. ASSUME queued' = <<>>, state' # "FAILED"
        PROVE  \E w : Leads(Follows', text'[d], d, seen'[d], queued', w) /\ Current(w, d)'
    <3>1. seen'[d].state = "closed"
      <4>1. CASE state = "READY"
        BY <2>3, <4>1
      <4>2. CASE state = "STARTING"
        BY <1>1, <2>4, <4>2 DEF Life, NothingTold, Closed
      <4> QED  BY <1>1, <1>2, <2>7, <4>1, <4>2 DEF TypeOK, State
    <3>2. Leads(Follows', text'[d], d, seen'[d], <<>>, seen'[d])
      BY <1>4, <2>1, <2>5, LeadsNowhere
    <3>3. PICK v : v = seen'[d]
      OBVIOUS
    <3>4. Current(v, d)'
      BY <2>6, <3>1, <3>3
    <3> QED  BY <2>7, <3>2, <3>3, <3>4
  <2>8. ASSUME queued' = queued, docs = {}, state' # "FAILED"
        PROVE  \E w : Leads(Follows', text'[d], d, seen'[d], queued', w) /\ Current(w, d)'
    <3>1. PICK w : Leads(Follows, text[d], d, seen[d], queued, w) /\ Current(w, d)
      BY <1>2, <2>8 DEF MirrorInvariant, WillAgree
    <3>2. Known(w, text[d])
      BY <1>4, <3>1, LeadsEnds
    <3>3. w.state = "closed"
      BY <2>8, <3>1, <3>2 DEF Current, Known, View
    <3>4. seen'[d] = seen[d]
      BY <1>2, <2>8
    <3> QED  BY <1>4, <2>1, <2>6, <2>8, <3>1, <3>3, <3>4
  <2> QED  BY <1>3, <2>5, <2>7, <2>8
<1> QED  BY <1>5 DEF Faithful, AllKnown, WillAgree

\* The steps that say nothing, and those that forget everything.
LEMMA SilentStepFaithful ==
    ASSUME MirrorInvariant, TypeOK',
           \/ \E d \in Doc : Edit(d) \/ AddFirstDoc(d)
           \/ InitializeRefused \/ InitializeTimedOut
           \/ \E quick \in BOOLEAN : GiveUp(quick) \/ Restart(quick)
           \/ ExitOfReleased \/ FillPane \/ PaneOpened \/ IdleExpired \/ ManagerStops \/ ExitTimedOut
           \/ UNCHANGED vars
    PROVE  Faithful
<1>1. TypeOK /\ Life
  BY DEF MirrorInvariant, SyncInvariant
<1>2. \A d \in Doc : text[d] \in Nat /\ text[d] <= text[d]
  BY <1>1 DEF TypeOK
<1>3. ASSUME UNCHANGED <<queueVars, kindVars, docVars, seen>>, state' = state \/ state' = "FAILED"
      PROVE  Faithful
  <2>1. \A d \in Doc : \A w : Current(w, d) => Current(w, d)'
    BY <1>3 DEF Current, Follows
  <2> QED  BY <1>2, <1>3, <2>1, NothingSaid
<1>4. ASSUME NEW d \in Doc, Edit(d) PROVE Faithful
  <2>1. /\ text' = [text EXCEPT ![d] = @ + 1]
        /\ change_timeout' = IF d \in attached THEN change_timeout \cup {d} ELSE change_timeout
        /\ UNCHANGED <<state, docs, queued, sync_kind, version, seen>>
    BY <1>4 DEF Edit
  <2>2. \A e \in Doc : text[e] <= text'[e] /\ (e # d => text'[e] = text[e])
    BY <1>1, <1>2, <2>1 DEF TypeOK
  <2>3. d \in docs => d \in change_timeout'
    BY <1>1, <2>1 DEF Life, OnlyAttached
  <2>4. \A e \in Doc : \A w : Current(w, e) => Current(w, e)'
    BY <2>1, <2>2, <2>3 DEF Current, Follows
  <2> QED  BY <2>1, <2>2, <2>4, NothingSaid
<1>5. ASSUME NEW d \in Doc, AddFirstDoc(d) PROVE Faithful
  <2>1. /\ state = "STARTING" /\ docs' = {d} /\ version' = [version EXCEPT ![d] = 1]
        /\ seen' = [e \in Doc |-> Closed]
        /\ \/ queued' = <<OpenOf(d)>> /\ state' = state
           \/ state' = "FAILED"
        /\ UNCHANGED <<sync_kind, text, change_timeout>>
    BY <1>1, <1>5 DEF AddFirstDoc, Spawned, NotSpawned, Life, NobodyYet
  <2>2. ASSUME NEW e \in Doc
        PROVE  /\ text[e] \in Nat /\ Known(Closed, text[e]) /\ seen'[e] = Closed
               /\ Grows(seen[e], seen'[e])
    BY <1>2, <2>1 DEF Known, Grows, Closed, View
  <2>3. Follows \in BOOLEAN /\ Follows' = Follows
    BY <2>1 DEF Follows
  <2>4. ASSUME queued' = <<OpenOf(d)>>, NEW e \in Doc
        PROVE  \E w : Leads(Follows', text'[e], e, seen'[e], queued', w) /\ Current(w, e)'
    <3>1. OpenOf(d) \in Message /\ Append(<<>>, OpenOf(d)) = <<OpenOf(d)>> /\ <<>> \in Seq(Message)
      BY <2>2 DEF OpenOf, Message, Kind
    <3>2. Leads(Follows, text[e], e, Closed, <<>>, Closed)
      BY <2>2, <2>3, LeadsNowhere
    <3>3. CASE e = d
      <4>1. PICK u : u = [state |-> "open", version |-> 1, text |-> text[d]]
        OBVIOUS
      <4>2. u \in View /\ u.state = "open" /\ u.version = 1 /\ u.text = text[d]
        BY <2>2, <4>1 DEF View
      <4>3. Known(u, text[d])
        BY <2>2, <4>2 DEF Known
      <4>4. Reads(Follows, d, Closed, OpenOf(d), u)
        BY <4>1 DEF Reads, Understands, OpenOf, Closed
      <4>5. Leads(Follows, text[d], d, Closed, <<OpenOf(d)>>, u)
        BY <2>2, <2>3, <3>1, <3>2, <3>3, <4>3, <4>4, LeadsOn, ZenonT(60)
      <4>6. Current(u, d)'
        <5>1. version'[d] = 1
          BY <1>1, <2>1 DEF TypeOK
        <5> QED  BY <2>1, <4>2, <5>1 DEF Current
      <4> QED  BY <2>1, <2>2, <2>3, <2>4, <3>3, <4>5, <4>6
    <3>4. CASE e # d
      <4>1. Reads(Follows, e, Closed, OpenOf(d), Closed)
        BY <3>4 DEF Reads, OpenOf
      <4>2. Leads(Follows, text[e], e, Closed, <<OpenOf(d)>>, Closed)
        BY <2>2, <2>3, <3>1, <3>2, <4>1, LeadsOn
      <4>3. Current(Closed, e)'
        BY <2>1, <3>4 DEF Current, Closed
      <4> QED  BY <2>1, <2>2, <2>3, <2>4, <4>2, <4>3
    <3> QED  BY <3>3, <3>4
  <2> QED  BY <2>1, <2>2, <2>4 DEF Faithful, AllKnown, WillAgree
<1>6. CASE \E quick \in BOOLEAN : Restart(quick)
  <2>1. /\ queued' = <<>> /\ docs' = {}
        /\ seen' = [d \in Doc |-> Closed]
    BY <1>6 DEF Restart, Spawned, NotSpawned, DocsOfNewProcess
  <2> QED  BY <2>1, AllForgotten
<1>7. CASE InitializeRefused \/ InitializeTimedOut \/ \E quick \in BOOLEAN : GiveUp(quick)
  <2>1. state' = "FAILED" /\ UNCHANGED <<seen, text>>
    BY <1>7 DEF InitializeRefused, InitializeTimedOut, GiveUp, SetFailed
  <2> QED  BY <2>1, FailedFaithful
<1>8. CASE ExitOfReleased \/ ExitTimedOut
  <2>1. \/ state' = "FAILED" /\ UNCHANGED <<seen, text>>
        \/ state' = state /\ UNCHANGED <<queueVars, kindVars, docVars, seen>>
    BY <1>8 DEF ExitOfReleased, ExitTimedOut, SetFailed
  <2> QED  BY <1>3, <2>1, FailedFaithful
<1>9. CASE FillPane \/ PaneOpened \/ ManagerStops \/ UNCHANGED vars
  <2>1. state' = state /\ UNCHANGED <<queueVars, kindVars, docVars, seen>>
    BY <1>9 DEF FillPane, PaneOpened, ManagerStops, vars
  <2> QED  BY <1>3, <2>1
<1>10. CASE IdleExpired
  <2>1. /\ ~flushing /\ attached = {} /\ docs' = {} /\ queued' = <<>>
        /\ UNCHANGED <<state, flushing, kindVars, docVars, seen>>
    BY <1>1, <1>10 DEF IdleExpired, Release, Life, NobodyLeft
  <2>2. CASE state = "STARTING"
    <3>1. \A d \in Doc : seen'[d] = Closed
      BY <1>1, <2>1, <2>2 DEF Life, NothingTold
    <3> QED  BY <2>1, <3>1, AllForgotten
  <2>3. CASE state # "STARTING"
    <3>1. docs = {} /\ queued = <<>>
      BY <1>1, <2>1, <2>3 DEF Life, OnlyAttached, QueueWaits
    <3> QED  BY <1>3, <2>1, <3>1
  <2> QED  BY <2>2, <2>3
<1> QED  BY <1>4, <1>5, <1>6, <1>7, <1>8, <1>9, <1>10

LEMMA MirrorStep ==
    ASSUME OneKind, MirrorInvariant, [Next]_vars
    PROVE  MirrorInvariant' /\ Faithful
<1>1. SyncInvariant'
  BY TypeStep, FlushGuardedStep, HandshakeStep, FailureStep DEF MirrorInvariant, SyncInvariant
<1>2. TypeOK /\ FlushGuarded /\ TypeOK'
  BY <1>1 DEF MirrorInvariant, SyncInvariant
<1>3. Life'
  BY <1>2, LifeStep DEF MirrorInvariant
<1>4. Faithful
  <2>1. ASSUME NEW d \in Doc, TimerFires(d) \/ Save(d) \/ Ask(d) PROVE Faithful
    BY <1>2, <2>1, TalkFaithful
  <2>2. ASSUME NEW d \in Doc, AddDoc(d) \/ RemoveDoc(d) PROVE Faithful
    BY <1>2, <2>2, AddDocFaithful, RemoveDocFaithful
  <2>3. CASE InitializeReply \/ FlushStep \/ ManagerStopped
    BY <1>2, <2>3, InitializeReplyFaithful, FlushStepFaithful, ManagerStoppedFaithful
  <2>4. CASE \/ \E d \in Doc : Edit(d) \/ AddFirstDoc(d)
             \/ InitializeRefused \/ InitializeTimedOut
             \/ \E quick \in BOOLEAN : GiveUp(quick) \/ Restart(quick)
             \/ ExitOfReleased \/ FillPane \/ PaneOpened \/ IdleExpired \/ ManagerStops \/ ExitTimedOut
             \/ UNCHANGED vars
    BY <1>2, <2>4, SilentStepFaithful
  <2> QED  BY <2>1, <2>2, <2>3, <2>4 DEF Next
<1> QED  BY <1>1, <1>3, <1>4 DEF MirrorInvariant, Faithful

\* What is said to a process and what waits for it agree with the buffers in
\* every reachable state.
THEOREM MirrorIsInvariant == OneKind => (Spec => []MirrorInvariant)
<1> SUFFICES ASSUME OneKind PROVE Spec => []MirrorInvariant
  OBVIOUS
<1>1. MirrorInvariant /\ [Next]_vars => MirrorInvariant'
  BY MirrorStep
<1> QED  BY MirrorInit, <1>1, PTL DEF Spec

\* What lsp_server_did_open(), lsp_server_did_change(), lsp_server_did_save() and
\* lsp_server_did_close() notify keeps to the protocol, through restarts and the
\* queue.
THEOREM NobodyIsConfused == OneKind => (Spec => []NobodyConfused)
<1> SUFFICES ASSUME OneKind PROVE Spec => []NobodyConfused
  OBVIOUS
<1>1. MirrorInvariant => NobodyConfused
  BY DEF MirrorInvariant, AllKnown, Known, NobodyConfused
<1> QED  BY MirrorIsInvariant, <1>1, PTL

\* A server that is ready and has read its queue has every attached document
\* open, with the text of the buffer or a didChange on the timer.
THEOREM BuffersAreMirrored == OneKind => (Spec => []Mirrored)
<1> SUFFICES ASSUME OneKind PROVE Spec => []Mirrored
  OBVIOUS
<1>1. ASSUME MirrorInvariant PROVE Mirrored
  <2> SUFFICES ASSUME state = "READY", Follows, ~flushing, NEW d \in attached
               PROVE  seen[d].state = "open" /\ (d \in change_timeout \/ seen[d].text = text[d])
    BY DEF Mirrored
  <2>1. TypeOK /\ Life
    BY <1>1 DEF MirrorInvariant, SyncInvariant
  <2>2. queued = <<>> /\ d \in docs /\ d \in Doc
    BY <2>1 DEF Life, QueueWaits, AllOpen, TypeOK
  <2>3. text[d] \in Nat /\ Follows \in BOOLEAN
    BY <2>1, <2>2 DEF TypeOK, Follows
  <2>4. PICK w : Leads(Follows, text[d], d, seen[d], queued, w) /\ Current(w, d)
    BY <1>1, <2>2 DEF MirrorInvariant, WillAgree
  <2>5. w = seen[d]
    BY <2>2, <2>3, <2>4, LeadsNowhere
  <2> QED  BY <2>2, <2>4, <2>5 DEF Current
<1> QED  BY MirrorIsInvariant, <1>1, PTL

\* lsp_doc_flush() before each request: what a ready server is asked is about
\* the text that it has.
THEOREM AskedAboutItsText == OneKind => (Spec => ReadyHasTheText)
<1> SUFFICES ASSUME OneKind PROVE Spec => ReadyHasTheText
  OBVIOUS
<1>1. ASSUME MirrorInvariant, [Next]_vars,
             NEW d \in Doc, state = "READY", Follows, Ask(d)
      PROVE  HasText(seen'[d], RequestOf(d))
  <2>1. MirrorInvariant'
    BY <1>1, MirrorStep
  <2>2. TypeOK' /\ Life' /\ WillAgree'
    BY <2>1 DEF MirrorInvariant, SyncInvariant
  <2>3. /\ state' = "READY" /\ Follows' /\ ~flushing' /\ text' = text
        /\ d \in attached' /\ d \notin change_timeout'
    BY <1>1 DEF Ask, AfterFlush, Follows
  <2>4. queued' = <<>> /\ d \in docs'
    BY <2>2, <2>3 DEF Life, QueueWaits, AllOpen
  <2>5. text'[d] \in Nat /\ Follows' \in BOOLEAN
    BY <2>2 DEF TypeOK, Follows
  <2>6. PICK w : Leads(Follows', text'[d], d, seen'[d], queued', w) /\ Current(w, d)'
    BY <2>2, <2>3 DEF WillAgree
  <2>7. w = seen'[d]
    BY <2>4, <2>5, <2>6, LeadsNowhere
  <2>8. seen'[d].state = "open" /\ seen'[d].text = text[d]
    BY <2>3, <2>4, <2>6, <2>7 DEF Current
  <2> QED  BY <2>8 DEF HasText, RequestOf
<1>2. MirrorInvariant /\ [Next]_vars =>
         \A d \in Doc : (state = "READY" /\ Follows /\ Ask(d)) => HasText(seen'[d], RequestOf(d))
  BY <1>1
<1> QED  BY MirrorIsInvariant, <1>2, PTL DEF Spec, ReadyHasTheText

-----------------------------------------------------------------------------
(* The refinement: an edit is an edit, everything else is talk.            *)

LEMMA MirrorInitRefined == Init => Mirror!Init
BY DEF Init, Mirror!Init, KnownText, Closed

LEMMA MirrorStepRefined ==
    ASSUME OneKind, MirrorInvariant, [Next]_vars
    PROVE  [Mirror!Next]_(Mirror!vars)
<1>1. Faithful /\ TypeOK
  BY MirrorStep DEF MirrorInvariant, SyncInvariant
<1>2. ASSUME NEW d \in Doc, Edit(d) PROVE Mirror!Edit(d)
  BY <1>2 DEF Edit, Mirror!Edit
<1>3. CASE ~ \E d \in Doc : Edit(d)
  <2>1. text' = text
    BY <1>3 DEF Next, vars, TimerFires, Save, Ask, AddFirstDoc, AddDoc, RemoveDoc, InitializeReply,
                FlushStep, InitializeRefused, InitializeTimedOut, GiveUp, Restart, ExitOfReleased,
                FillPane, PaneOpened, IdleExpired, ManagerStops, ManagerStopped, ExitTimedOut
  <2>2. ASSUME NEW d \in Doc
        PROVE  \/ KnownText(seen'[d]) = <<>>
               \/ \E n \in 0 .. text[d] : /\ KnownText(seen'[d]) = <<n>>
                                          /\ KnownText(seen[d]) # <<>> => KnownText(seen[d])[1] <= n
    <3>1. Known(seen'[d], text[d]) /\ Grows(seen[d], seen'[d]) /\ Known(seen[d], text[d])
      BY <1>1, <2>1 DEF Faithful, AllKnown, MirrorInvariant
    <3>2. seen'[d].state \in {"closed", "open"} /\ seen[d].state \in {"closed", "open"}
      BY <3>1 DEF Known, View
    <3>3. CASE seen'[d].state = "closed"
      BY <3>3 DEF KnownText
    <3>4. CASE seen'[d].state = "open"
      <4>1. seen'[d].text \in 0 .. text[d] /\ KnownText(seen'[d]) = <<seen'[d].text>>
        BY <1>1, <3>1, <3>4 DEF Known, View, KnownText, TypeOK
      <4>2. CASE seen[d].state = "closed"
        BY <4>1, <4>2 DEF KnownText
      <4>3. CASE seen[d].state = "open"
        <5>1. KnownText(seen[d]) = <<seen[d].text>> /\ seen[d].text <= seen'[d].text
          BY <3>1, <3>4, <4>3 DEF Grows, KnownText
        <5> QED  BY <4>1, <5>1
      <4> QED  BY <3>2, <4>2, <4>3
    <3> QED  BY <3>2, <3>3, <3>4
  <2>3. Mirror!Talk
    BY <2>1, <2>2 DEF Mirror!Talk, Mirror!Forgets, Mirror!Learns
  <2> QED  BY <2>3 DEF Mirror!Next
<1> QED  BY <1>2, <1>3 DEF Mirror!Next

\* The documents, the queue, the timers and the restarts of LspSync implement
\* LspMirror: what a server has is a text of the document, and never goes back.
THEOREM SyncImplementsMirror == OneKind => (Spec => FollowsTheText)
<1> SUFFICES ASSUME OneKind PROVE Spec => FollowsTheText
  OBVIOUS
<1>1. MirrorInvariant /\ [Next]_vars => [Mirror!Next]_(Mirror!vars)
  BY MirrorStepRefined
<1> QED  BY MirrorIsInvariant, MirrorInitRefined, <1>1, PTL DEF Spec, FollowsTheText, Mirror!Spec

=============================================================================
