-------------------------- MODULE LspClientProofs --------------------------
(***************************************************************************)
(* Proofs about LspClient, for every set of calls and every bound.         *)
(***************************************************************************)
EXTENDS LspClient, SequenceTheorems, TLAPS

\* Where a message can be lost or doubled: the queues' part of TypeOK.
QueuesOK ==
    /\ out_queue \in Seq(Message)
    /\ writing \in Seq(Message)
    /\ stamp \in Nat
    /\ notes \in Nat
    /\ drain \in Drain

\* start_write() keeps the queue and the write in flight sequences of messages.
LEMMA StartWriteType ==
    ASSUME NEW q \in Seq(Message), StartWrite(q)
    PROVE  out_queue' \in Seq(Message) /\ writing' \in Seq(Message)
<1>1. CASE q = <<>> \/ ~IsRunning
  <2>1. writing' = <<>> /\ out_queue' = q
    BY <1>1 DEF StartWrite
  <2> QED  BY <2>1
<1>2. CASE ~(q = <<>> \/ ~IsRunning)
  <2>1. writing' = <<Head(q)>> /\ out_queue' = Tail(q)
    BY <1>2 DEF StartWrite
  <2>2. Head(q) \in Message /\ Tail(q) \in Seq(Message)
    BY <1>2
  <2> QED  BY <2>1, <2>2
<1> QED  BY <1>1, <1>2

\* So does send_message(), whichever way it sends.
LEMMA SendMessageType ==
    ASSUME QueuesOK, NEW kind \in {"request", "note"}, NEW id \in Nat,
           SendMessage(kind, id)
    PROVE  /\ out_queue' \in Seq(Message)
           /\ writing' \in Seq(Message)
           /\ stamp' \in Nat
           /\ drain' \in Drain
<1> DEFINE m == [kind |-> kind, id |-> id, stamp |-> stamp + 1]
<1>1. m \in Message
  BY DEF Message, QueuesOK
<1>2. Queued(m) \in Seq(Message)
  BY <1>1 DEF Queued, QueuesOK
<1>3. CASE ~sync_writes
  <2>1. stamp' = stamp + 1 /\ drain' = drain
    BY <1>3 DEF SendMessage
  <2>2. CASE writing = <<>>
    <3>1. StartWrite(Queued(m))
      BY <1>3, <2>2 DEF SendMessage
    <3> QED  BY <1>2, <2>1, <3>1, StartWriteType DEF QueuesOK
  <2>3. CASE writing # <<>>
    BY <1>2, <1>3, <2>1, <2>3 DEF SendMessage, QueuesOK
  <2> QED  BY <2>2, <2>3
<1>4. CASE sync_writes
  BY <1>2, <1>4 DEF SendMessage, QueuesOK, Drain
<1> QED  BY <1>3, <1>4

-----------------------------------------------------------------------------
(* Type correctness: every step keeps every variable in its type.  The     *)
(* operations that queue messages come first, the others follow from their *)
(* assignments.                                                            *)

LEMMA InitType == Init => TypeOK
<1> SUFFICES ASSUME Init PROVE TypeOK
  OBVIOUS
<1>1. /\ out_queue \in Seq(Message)
      /\ writing \in Seq(Message)
      /\ pipe \in Seq(Message)
      /\ stdout \in Seq(Answer)
  BY DEF Init
<1>2. /\ running \in BOOLEAN
      /\ disconnected \in BOOLEAN
      /\ sync_writes \in BOOLEAN
      /\ stdin_open \in BOOLEAN
      /\ close_asked \in BOOLEAN
      /\ alive \in BOOLEAN
      /\ hearing \in BOOLEAN
  BY DEF Init
<1>3. /\ call_id \in [Call -> Nat]
      /\ outcome \in [Call -> Outcome]
  BY DEF Init, Outcome
<1>4. /\ holders \subseteq Holder
      /\ handler \in Handler
      /\ exit_told \in Nat
      /\ next_id \in Nat \ {0}
      /\ drain \in Drain
      /\ stamp \in Nat
      /\ notes \in Nat
      /\ heard \in Nat
      /\ asked \subseteq Nat
  BY DEF Init, FirstHolders, FirstId, Handler, Drain
<1>5. pending \subseteq Call /\ sweep \subseteq Call /\ forgotten \subseteq Call
  BY DEF Init
<1> QED  BY <1>1, <1>2, <1>3, <1>4, <1>5 DEF TypeOK

LEMMA MakeCallType ==
    ASSUME TypeOK, NEW c \in Call, MakeCall(c)
    PROVE  TypeOK'
<1>1. CASE IsRunning
  <2>1. SendMessage("request", next_id)
    BY <1>1 DEF MakeCall
  <2>2. /\ out_queue' \in Seq(Message)
        /\ writing' \in Seq(Message)
        /\ stamp' \in Nat
        /\ drain' \in Drain
    BY <2>1, SendMessageType DEF TypeOK, QueuesOK
  <2>3. /\ next_id' \in Nat \ {0}
        /\ call_id' \in [Call -> Nat]
        /\ outcome' \in [Call -> Outcome]
        /\ pending' \subseteq Call
    <3>1. /\ next_id' = next_id + 1
          /\ call_id' = [call_id EXCEPT ![c] = next_id]
          /\ outcome' = [outcome EXCEPT ![c] = "waiting"]
          /\ pending' = pending \cup {c}
      BY <1>1 DEF MakeCall, FollowingId
    <3> QED  BY <3>1 DEF TypeOK, Outcome
  <2> QED
    BY <2>2, <2>3 DEF MakeCall, TypeOK, lifeVars, peerVars
<1>2. CASE ~IsRunning
  BY <1>2 DEF MakeCall, TypeOK, Outcome, lifeVars, peerVars
<1> QED  BY <1>1, <1>2

LEMMA CancelType ==
    ASSUME TypeOK, NEW c \in Call, Cancel(c)
    PROVE  TypeOK'
<1>1. CASE IsRunning
  <2>1. SendMessage("note", call_id[c])
    BY <1>1 DEF Cancel
  <2>2. /\ out_queue' \in Seq(Message)
        /\ writing' \in Seq(Message)
        /\ stamp' \in Nat
        /\ drain' \in Drain
    BY <2>1, SendMessageType DEF TypeOK, QueuesOK
  <2> QED
    BY <1>1, <2>2 DEF Cancel, TypeOK, Outcome, lifeVars, peerVars
<1>2. CASE ~IsRunning
  BY <1>2 DEF Cancel, TypeOK, Outcome, lifeVars, peerVars
<1> QED  BY <1>1, <1>2

LEMMA NotifyType ==
    ASSUME TypeOK, Notify
    PROVE  TypeOK'
<1>1. SendMessage("note", 0)
  BY DEF Notify
<1>2. /\ out_queue' \in Seq(Message)
      /\ writing' \in Seq(Message)
      /\ stamp' \in Nat
      /\ drain' \in Drain
  BY <1>1, SendMessageType DEF TypeOK, QueuesOK
<1> QED
  BY <1>2 DEF Notify, TypeOK, lifeVars, callVars, peerVars

LEMMA WriteReadyType ==
    ASSUME TypeOK, WriteReady
    PROVE  TypeOK'
<1>1. out_queue' \in Seq(Message) /\ writing' \in Seq(Message)
  BY StartWriteType DEF WriteReady, NextWrite, TypeOK
<1>2. Head(writing) \in Message
  BY DEF WriteReady, TypeOK
<1>3. pipe' \in Seq(Message)
  BY <1>2 DEF WriteReady, TypeOK
<1> QED
  BY <1>1, <1>3 DEF WriteReady, TypeOK, lifeVars, callVars, modeVars, peerVars

LEMMA DrainStepType ==
    ASSUME TypeOK, DrainStep
    PROVE  TypeOK'
<1>1. Head(out_queue) \in Message /\ Tail(out_queue) \in Seq(Message)
  BY DEF DrainStep, TypeOK
<1>2. pipe' \in Seq(Message)
  <2>1. CASE writing = <<>> /\ PipeTakes
    <3>1. pipe' = Append(pipe, Head(out_queue))
      BY <2>1 DEF DrainStep
    <3> QED  BY <1>1, <3>1 DEF TypeOK
  <2>2. CASE ~(writing = <<>> /\ PipeTakes)
    BY <2>2 DEF DrainStep, TypeOK
  <2> QED  BY <2>1, <2>2
<1> QED
  BY <1>1, <1>2 DEF DrainStep, TypeOK, lifeVars, callVars, modeVars, peerVars

\* The end of the process leaves an empty pipe behind.
LEMMA DiesType ==
    ASSUME Dies
    PROVE  pipe' \in Seq(Message) /\ alive' \in BOOLEAN /\ hearing' \in BOOLEAN
<1>1. pipe' \in Seq(Message)
  BY DEF Dies
<1>2. alive' \in BOOLEAN /\ hearing' \in BOOLEAN
  BY Zenon DEF Dies
<1> QED  BY <1>1, <1>2

LEMMA ReadGarbageType ==
    ASSUME TypeOK, ReadGarbage
    PROVE  TypeOK'
<1>1. PICK k \in 2 .. Len(stdout) + 1 : stdout' = SubSeq(stdout, k, Len(stdout))
  BY DEF ReadGarbage
<1>2. stdout' \in Seq(Answer)
  BY <1>1, SubSeqProperties DEF TypeOK
<1>3. pipe' \in Seq(Message) /\ alive' \in BOOLEAN /\ hearing' \in BOOLEAN
  <2>1. CASE running
    BY <2>1, DiesType DEF ReadGarbage
  <2>2. CASE ~running
    BY <2>2 DEF ReadGarbage, TypeOK
  <2> QED  BY <2>1, <2>2
<1> QED
  BY <1>2, <1>3 DEF ReadGarbage, TypeOK, lifeVars, callVars, sendVars, modeVars

LEMMA ServerReadsType ==
    ASSUME TypeOK, ServerReads
    PROVE  TypeOK'
<1>1. Head(pipe) \in Message /\ Tail(pipe) \in Seq(Message)
  BY DEF ServerReads, TypeOK
<1>2. Head(pipe).stamp \in Nat /\ Head(pipe).id \in Nat
  BY <1>1 DEF Message
<1> QED
  BY <1>1, <1>2 DEF ServerReads, TypeOK, lifeVars, callVars, sendVars, modeVars

LEMMA StepType == TypeOK /\ [Next]_vars => TypeOK'
<1> SUFFICES ASSUME TypeOK, [Next]_vars PROVE TypeOK'
  OBVIOUS
<1> USE DEF lifeVars, callVars, sendVars, modeVars, peerVars
<1>1. CASE \E c \in Call : MakeCall(c) \/ Cancel(c)
  BY <1>1, MakeCallType, CancelType
<1>2. CASE \E c \in Call : FailPendingCall(c)
  BY <1>2 DEF FailPendingCall, TypeOK, Outcome
<1>3. CASE Notify \/ WriteReady \/ DrainStep \/ ReadGarbage \/ ServerReads
  BY <1>3, NotifyType, WriteReadyType, DrainStepType, ReadGarbageType, ServerReadsType
<1>4. CASE SetSyncWrites \/ CloseStdin \/ DrainLoopEnds \/ DrainDone
  BY <1>4, ZenonT(60) DEF SetSyncWrites, CloseStdin, DrainLoopEnds, DrainDone, TypeOK, Drain
<1>5. CASE ForceExit \/ ServerStopsReading \/ ServerDies
  <2>1. pipe' \in Seq(Message) /\ alive' \in BOOLEAN /\ hearing' \in BOOLEAN
    <3>1. CASE ForceExit \/ ServerDies
      BY <3>1, DiesType DEF ForceExit, ServerDies
    <3>2. CASE ServerStopsReading
      <4>1. pipe' \in Seq(Message) /\ alive' = alive
        BY <3>2 DEF ServerStopsReading
      <4>2. hearing' \in BOOLEAN
        BY <3>2, Zenon DEF ServerStopsReading
      <4> QED  BY <4>1, <4>2 DEF TypeOK
    <3> QED  BY <1>5, <3>1, <3>2
  <2> QED
    BY <1>5, <2>1 DEF ForceExit, ServerStopsReading, ServerDies, TypeOK
<1>6. CASE Disconnect \/ DropOwner \/ ProcessExited \/ TellExit \/ ReleaseWait
            \/ DisconnectDone
  <2>1. running' \in BOOLEAN /\ disconnected' \in BOOLEAN
    BY <1>6, Zenon DEF Disconnect, DropOwner, ProcessExited, TellExit, ReleaseWait,
                       DisconnectDone, TypeOK
  <2>2. holders' \subseteq Holder /\ handler' \in Handler /\ exit_told' \in Nat
    BY <1>6 DEF Disconnect, DropOwner, ProcessExited, TellExit, ReleaseWait,
                DisconnectDone, TypeOK, Handler
  <2>3. pending' \subseteq Call /\ sweep' \subseteq Call
    BY <1>6 DEF Disconnect, DropOwner, ProcessExited, TellExit, ReleaseWait,
                DisconnectDone, TypeOK, StealPending
  <2> QED
    BY <1>6, <2>1, <2>2, <2>3 DEF Disconnect, DropOwner, ProcessExited, TellExit,
                ReleaseWait, DisconnectDone, TypeOK
<1>7. CASE WriteFailed
  BY <1>7 DEF WriteFailed, TypeOK
<1>8. CASE ReadReply
  BY <1>8 DEF ReadReply, TakenOut, TypeOK, Outcome
<1>9. CASE ReadEnds \/ ReadStderrEnds
  BY <1>9 DEF ReadEnds, ReadStderrEnds, TypeOK
<1>10. CASE \E id \in asked : ServerReplies(id)
  BY <1>10 DEF ServerReplies, TypeOK, Answer
<1>11. CASE ServerBabbles
  BY <1>11 DEF ServerBabbles, TypeOK, Answer
<1>12. CASE UNCHANGED vars
  BY <1>12 DEF vars, TypeOK
<1> QED
  BY <1>1, <1>2, <1>3, <1>4, <1>5, <1>6, <1>7, <1>8, <1>9, <1>10, <1>11, <1>12 DEF Next

\* Every variable keeps its type: the table, the queues and the life cycle of
\* lsp-client.cpp, whatever the server does.
THEOREM ClientTypeCorrect == Spec => []TypeOK
BY InitType, StepType, PTL DEF Spec

-----------------------------------------------------------------------------
(* The table.  NobodyLeftWaiting and RepliesFindTheirCall are inductive    *)
(* together with three facts they lean on: what the ids of the calls are,  *)
(* where the answers on their way to medit come from, and which handler is *)
(* running while the process is waited for.                                *)

IdsGiven ==
    /\ \A c \in Call : call_id[c] < next_id
    /\ \A c, d \in Call : call_id[c] = call_id[d] /\ call_id[c] # 0 => c = d

AnswersWereAsked ==
    /\ \A i \in 1 .. Len(stdout) : stdout[i].kind = "reply" => stdout[i].id \in asked
    /\ \A c \in Call : outcome[c] = "answered" => call_id[c] \in asked

WaitedFor ==
    /\ running => "wait" \in holders
    /\ handler \in {"exit", "exiting"} => ~running /\ "wait" \in holders
    /\ handler = "exit" => exit_told = 0
    /\ handler = "disconnect" => disconnected /\ "owner" \in holders
    /\ exit_told # 0 => handler = "exiting" \/ "wait" \notin holders

ClientInv ==
    /\ TypeOK
    /\ NobodyLeftWaiting
    /\ IdsGiven
    /\ AnswersWereAsked
    /\ WaitedFor

LEMMA InitInv == Init => ClientInv
<1> SUFFICES ASSUME Init PROVE ClientInv
  OBVIOUS
<1>1. TypeOK
  BY InitType
<1>2. NobodyLeftWaiting
  BY DEF Init, NobodyLeftWaiting
<1>3. IdsGiven
  BY DEF Init, IdsGiven, FirstId
<1>4. AnswersWereAsked
  BY DEF Init, AnswersWereAsked
<1>5. WaitedFor
  BY DEF Init, WaitedFor, FirstHolders, Holder
<1> QED  BY <1>1, <1>2, <1>3, <1>4, <1>5 DEF ClientInv

\* The steps that touch neither the table nor the handlers.
LEMMA UntouchedInv ==
    ASSUME ClientInv, TypeOK', UNCHANGED <<lifeVars, callVars, asked, stdout>>
    PROVE  ClientInv'
BY DEF ClientInv, NobodyLeftWaiting, IdsGiven, AnswersWereAsked, WaitedFor, lifeVars, callVars

LEMMA MakeCallInv ==
    ASSUME ClientInv, TypeOK', NEW c \in Call, MakeCall(c)
    PROVE  ClientInv'
<1> USE DEF ClientInv
<1>1. AnswersWereAsked'
  <2>1. UNCHANGED <<asked, stdout>>
    BY DEF MakeCall, peerVars
  <2>2. \A d \in Call : outcome'[d] = "answered" =>
                        outcome[d] = "answered" /\ call_id'[d] = call_id[d]
    BY DEF MakeCall, TypeOK
  <2> QED  BY <2>1, <2>2 DEF AnswersWereAsked
<1>2. WaitedFor'
  BY DEF MakeCall, WaitedFor, lifeVars
<1>3. NobodyLeftWaiting'
  <2>1. CASE IsRunning
    <3>1. /\ outcome' = [outcome EXCEPT ![c] = "waiting"]
          /\ pending' = pending \cup {c}
          /\ UNCHANGED <<sweep, running, disconnected, handler>>
      BY <2>1 DEF MakeCall, lifeVars
    <3> QED  BY <2>1, <3>1 DEF NobodyLeftWaiting, TypeOK, IsRunning
  <2>2. CASE ~IsRunning
    <3>1. /\ outcome[c] = "unmade"
          /\ outcome' = [outcome EXCEPT ![c] = "failed"]
          /\ UNCHANGED <<pending, sweep, running, disconnected, handler>>
      BY <2>2 DEF MakeCall, lifeVars
    <3> QED  BY <3>1 DEF NobodyLeftWaiting, TypeOK
  <2> QED  BY <2>1, <2>2
<1>4. IdsGiven'
  <2>1. CASE IsRunning
    <3>1. next_id' = next_id + 1 /\ call_id' = [call_id EXCEPT ![c] = next_id]
      BY <2>1 DEF MakeCall, FollowingId
    <3>2. next_id \in Nat /\ call_id \in [Call -> Nat]
      BY DEF TypeOK
    <3> QED  BY <3>1, <3>2, SMTT(30) DEF IdsGiven
  <2>2. CASE ~IsRunning
    BY <2>2 DEF MakeCall, IdsGiven
  <2> QED  BY <2>1, <2>2
<1> QED  BY <1>1, <1>2, <1>3, <1>4

LEMMA CancelInv ==
    ASSUME ClientInv, TypeOK', NEW c \in Call, Cancel(c)
    PROVE  ClientInv'
<1> USE DEF ClientInv
<1>1. /\ outcome[c] = "waiting"
      /\ pending' = pending \ {c}
      /\ outcome' = IF c \in pending THEN [outcome EXCEPT ![c] = "cancelled"] ELSE outcome
      /\ UNCHANGED <<lifeVars, next_id, call_id, sweep, asked, stdout>>
  BY DEF Cancel, peerVars
<1>2. c \in pending => c \notin sweep
  BY DEF NobodyLeftWaiting, WaitedFor, TypeOK
<1> QED  BY <1>1, <1>2 DEF NobodyLeftWaiting, IdsGiven, AnswersWereAsked, WaitedFor,
                           TypeOK, lifeVars

LEMMA FailPendingCallInv ==
    ASSUME ClientInv, TypeOK', NEW c \in Call, FailPendingCall(c)
    PROVE  ClientInv'
<1> USE DEF ClientInv
<1>1. /\ c \in sweep
      /\ sweep' = sweep \ {c}
      /\ outcome' = [outcome EXCEPT ![c] = "failed"]
      /\ UNCHANGED <<lifeVars, next_id, call_id, pending, asked, stdout>>
  BY DEF FailPendingCall, peerVars
<1>2. c \notin pending
  BY <1>1 DEF NobodyLeftWaiting, WaitedFor, TypeOK
<1> QED  BY <1>1, <1>2 DEF NobodyLeftWaiting, IdsGiven, AnswersWereAsked, WaitedFor,
                           TypeOK, lifeVars

LEMMA ReadReplyInv ==
    ASSUME ClientInv, TypeOK', ReadReply
    PROVE  ClientInv'
<1> USE DEF ClientInv
<1> DEFINE found == {c \in pending : call_id[c] = Head(stdout).id}
<1>1. /\ stdout # <<>>
      /\ Head(stdout).kind = "reply"
      /\ pending' = pending \ found
      /\ outcome' = [c \in Call |-> IF c \in found THEN "answered" ELSE outcome[c]]
      /\ stdout' = Tail(stdout)
      /\ handler = "none"
      /\ UNCHANGED <<lifeVars, next_id, call_id, sweep, asked>>
  BY DEF ReadReply, TakenOut, MainLoop
<1>2. Head(stdout).id \in asked
  BY <1>1 DEF AnswersWereAsked, TypeOK
<1>3. AnswersWereAsked'
  <2>1. \A i \in 1 .. Len(stdout') : stdout'[i] = stdout[i + 1] /\ i + 1 \in 1 .. Len(stdout)
    BY <1>1 DEF TypeOK
  <2>2. \A c \in Call : outcome'[c] = "answered" => call_id[c] \in asked
    BY <1>1, <1>2 DEF AnswersWereAsked
  <2> QED  BY <1>1, <2>1, <2>2 DEF AnswersWereAsked
<1>4. NobodyLeftWaiting'
  BY <1>1 DEF NobodyLeftWaiting, TypeOK, lifeVars
<1> QED  BY <1>1, <1>3, <1>4 DEF IdsGiven, WaitedFor, lifeVars

LEMMA ReadGarbageInv ==
    ASSUME ClientInv, TypeOK', ReadGarbage
    PROVE  ClientInv'
<1> USE DEF ClientInv
<1>1. PICK k \in 2 .. Len(stdout) + 1 : stdout' = SubSeq(stdout, k, Len(stdout))
  BY DEF ReadGarbage
<1>2. UNCHANGED <<lifeVars, callVars, asked>>
  BY DEF ReadGarbage
<1>3. \A i \in 1 .. Len(stdout') : /\ stdout'[i] = stdout[k + i - 1]
                                   /\ k + i - 1 \in 1 .. Len(stdout)
  BY <1>1, SubSeqProperties DEF TypeOK
<1>4. AnswersWereAsked'
  BY <1>2, <1>3 DEF AnswersWereAsked, callVars
<1> QED  BY <1>2, <1>4 DEF NobodyLeftWaiting, IdsGiven, WaitedFor, lifeVars, callVars

LEMMA AnswerAppended ==
    ASSUME NEW s \in Seq(Answer), NEW a \in Answer
    PROVE  \A i \in 1 .. Len(Append(s, a)) :
              \/ i \in 1 .. Len(s) /\ Append(s, a)[i] = s[i]
              \/ Append(s, a)[i] = a
BY AppendProperties

LEMMA ServerInv ==
    ASSUME ClientInv, TypeOK',
           ServerReads \/ ServerBabbles \/ \E id \in asked : ServerReplies(id)
    PROVE  ClientInv'
<1> USE DEF ClientInv
<1>1. UNCHANGED <<lifeVars, callVars>> /\ asked \subseteq asked'
  BY DEF ServerReads, ServerBabbles, ServerReplies
<1>2. AnswersWereAsked'
  <2>1. CASE ServerReads
    BY <1>1, <2>1 DEF ServerReads, AnswersWereAsked, callVars
  <2>2. CASE ServerBabbles
    <3>1. PICK a \in Answer : a.kind = "garbage" /\ stdout' = Append(stdout, a)
      BY <2>2 DEF ServerBabbles, Answer
    <3>2. \A i \in 1 .. Len(stdout') : (i \in 1 .. Len(stdout) /\ stdout'[i] = stdout[i]) \/ stdout'[i] = a
      BY <3>1, AnswerAppended DEF TypeOK
    <3>3. UNCHANGED <<outcome, call_id>>
      BY <1>1 DEF callVars
    <3> QED  BY <1>1, <3>1, <3>2, <3>3 DEF AnswersWereAsked
  <2>3. CASE \E id \in asked : ServerReplies(id)
    <3>1. PICK a \in Answer : a.id \in asked /\ stdout' = Append(stdout, a)
      <4>1. PICK id \in asked : stdout' = Append(stdout, [kind |-> "reply", id |-> id])
        BY <2>3 DEF ServerReplies
      <4> QED  BY <4>1 DEF TypeOK, Answer
    <3>2. \A i \in 1 .. Len(stdout') : (i \in 1 .. Len(stdout) /\ stdout'[i] = stdout[i]) \/ stdout'[i] = a
      BY <3>1, AnswerAppended DEF TypeOK
    <3>3. UNCHANGED <<outcome, call_id>>
      BY <1>1 DEF callVars
    <3> QED  BY <1>1, <3>1, <3>2, <3>3 DEF AnswersWereAsked
  <2> QED  BY <2>1, <2>2, <2>3
<1> QED  BY <1>1, <1>2 DEF NobodyLeftWaiting, IdsGiven, WaitedFor, lifeVars, callVars

LEMMA HandlerInv ==
    ASSUME ClientInv, TypeOK',
           \/ Disconnect \/ DropOwner \/ ProcessExited \/ TellExit \/ ReleaseWait
           \/ DisconnectDone
    PROVE  ClientInv'
<1> USE DEF ClientInv
<1>1. UNCHANGED <<next_id, call_id, outcome, asked, stdout>>
  BY DEF Disconnect, DropOwner, ProcessExited, TellExit, ReleaseWait, DisconnectDone,
         callVars, peerVars
<1>2. IdsGiven' /\ AnswersWereAsked'
  BY <1>1 DEF IdsGiven, AnswersWereAsked
<1>3. NobodyLeftWaiting' /\ WaitedFor'
  <2>1. CASE Disconnect
    BY <1>1, <2>1 DEF Disconnect, StealPending, Program, NobodyLeftWaiting, WaitedFor, TypeOK,
                      Handler
  <2>2. CASE DropOwner
    BY <2>2 DEF DropOwner, NobodyLeftWaiting, WaitedFor, callVars
  <2>3. CASE ProcessExited
    BY <1>1, <2>3 DEF ProcessExited, StealPending, MainLoop, NobodyLeftWaiting, WaitedFor
  <2>4. CASE TellExit
    BY <2>4 DEF TellExit, NobodyLeftWaiting, WaitedFor, callVars
  <2>5. CASE ReleaseWait
    BY <2>5 DEF ReleaseWait, NobodyLeftWaiting, WaitedFor, callVars
  <2>6. CASE DisconnectDone
    BY <2>6 DEF DisconnectDone, NobodyLeftWaiting, WaitedFor, callVars
  <2> QED  BY <2>1, <2>2, <2>3, <2>4, <2>5, <2>6
<1> QED  BY <1>2, <1>3

LEMMA ReadEndsInv ==
    ASSUME ClientInv, TypeOK', ReadEnds \/ ReadStderrEnds
    PROVE  ClientInv'
<1>1. /\ \A h \in {"owner", "wait"} : h \in holders' <=> h \in holders
      /\ UNCHANGED <<running, disconnected, handler, exit_told, callVars, asked, stdout>>
  BY DEF ReadEnds, ReadStderrEnds, peerVars
<1> QED  BY <1>1 DEF ClientInv, NobodyLeftWaiting, IdsGiven, AnswersWereAsked, WaitedFor,
                     callVars

LEMMA StepInv == ClientInv /\ [Next]_vars => ClientInv'
<1> SUFFICES ASSUME ClientInv, [Next]_vars PROVE ClientInv'
  OBVIOUS
<1>1. TypeOK'
  BY StepType DEF ClientInv
<1>2. CASE \E c \in Call : MakeCall(c) \/ Cancel(c) \/ FailPendingCall(c)
  BY <1>1, <1>2, MakeCallInv, CancelInv, FailPendingCallInv
<1>3. CASE ReadReply \/ ReadGarbage \/ ReadEnds \/ ReadStderrEnds
  BY <1>1, <1>3, ReadReplyInv, ReadGarbageInv, ReadEndsInv
<1>4. CASE ServerReads \/ ServerBabbles \/ \E id \in asked : ServerReplies(id)
  BY <1>1, <1>4, ServerInv
<1>5. CASE Disconnect \/ DropOwner \/ ProcessExited \/ TellExit \/ ReleaseWait
            \/ DisconnectDone
  BY <1>1, <1>5, HandlerInv
<1>6. CASE \/ Notify \/ SetSyncWrites \/ CloseStdin \/ ForceExit
           \/ WriteReady \/ WriteFailed \/ DrainLoopEnds \/ DrainStep \/ DrainDone
           \/ ServerStopsReading \/ ServerDies
  <2>1. UNCHANGED <<lifeVars, callVars, asked, stdout>>
    BY <1>6 DEF Notify, SetSyncWrites, CloseStdin, ForceExit, WriteReady, WriteFailed,
                DrainLoopEnds, DrainStep, DrainDone, ServerStopsReading, ServerDies, peerVars
  <2> QED  BY <1>1, <2>1, UntouchedInv
<1>7. CASE UNCHANGED vars
  <2>1. UNCHANGED <<lifeVars, callVars, asked, stdout>>
    BY <1>7 DEF vars, peerVars
  <2> QED  BY <1>1, <2>1, UntouchedInv
<1> QED  BY <1>2, <1>3, <1>4, <1>5, <1>6, <1>7 DEF Next

THEOREM ClientInvariant == Spec => []ClientInv
BY InitInv, StepInv, PTL DEF Spec

\* A call that waits is in the table or in the hands of fail_pending_calls(),
\* and the table of a client that is gone is empty.
THEOREM NoCallIsLost == Spec => []NobodyLeftWaiting
<1>1. ClientInv => NobodyLeftWaiting
  BY DEF ClientInv
<1> QED  BY <1>1, ClientInvariant, PTL

\* Ids are never shared, and a call is answered only if its own request was
\* read by the server.
THEOREM EachReplyIsForItsCall == Spec => []RepliesFindTheirCall
<1>1. ClientInv => RepliesFindTheirCall
  BY DEF ClientInv, RepliesFindTheirCall, IdsGiven, AnswersWereAsked
<1> QED  BY <1>1, ClientInvariant, PTL

\* lsp_client_unref() never frees a client whose process is not waited for, or
\* one of whose calls is waiting.
THEOREM FreedWhenDone == Spec => []FreedInPeace
<1>1. ClientInv => FreedInPeace
  BY DEF ClientInv, FreedInPeace, Freed, NobodyLeftWaiting, WaitedFor
<1> QED  BY <1>1, ClientInvariant, PTL

-----------------------------------------------------------------------------
(* The two action properties follow from the same invariant.               *)

SettlesOnceStep ==
    \A c \in Call : outcome[c] \notin {"unmade", "waiting"} => outcome'[c] = outcome[c]

LEMMA StepSettlesOnce == ClientInv /\ [Next]_vars => SettlesOnceStep
<1> SUFFICES ASSUME ClientInv, [Next]_vars,
                    NEW d \in Call, outcome[d] \notin {"unmade", "waiting"}
             PROVE  outcome'[d] = outcome[d]
  BY DEF SettlesOnceStep
<1>1. d \notin pending \cup sweep
  BY DEF ClientInv, NobodyLeftWaiting
<1>2. outcome \in [Call -> Outcome]
  BY DEF ClientInv, TypeOK
<1>3. CASE \E c \in Call : MakeCall(c) \/ Cancel(c) \/ FailPendingCall(c)
  <2>1. PICK c \in Call : MakeCall(c) \/ Cancel(c) \/ FailPendingCall(c)
    BY <1>3
  <2>2. c # d
    BY <1>1, <2>1 DEF MakeCall, Cancel, FailPendingCall
  <2>3. \/ outcome' = outcome
        \/ \E o \in Outcome : outcome' = [outcome EXCEPT ![c] = o]
    BY <2>1 DEF MakeCall, Cancel, FailPendingCall, Outcome
  <2> QED  BY <1>2, <2>2, <2>3
<1>4. CASE ReadReply
  BY <1>1, <1>4 DEF ReadReply
<1>5. CASE ~ReadReply /\ ~\E c \in Call : MakeCall(c) \/ Cancel(c) \/ FailPendingCall(c)
  BY <1>5 DEF Next, vars, callVars, Notify, SetSyncWrites, CloseStdin, ForceExit, Disconnect,
              DropOwner, WriteReady, WriteFailed, DrainLoopEnds, DrainStep, DrainDone,
              ProcessExited, TellExit, ReleaseWait, DisconnectDone, ReadGarbage, ReadEnds,
              ReadStderrEnds, ServerReplies, ServerReads, ServerBabbles, ServerStopsReading,
              ServerDies
<1> QED  BY <1>3, <1>4, <1>5

\* Every callback of lsp_client_call() runs at most once, and not at all once
\* lsp_client_cancel() took its call out of the table.
THEOREM EachCallSettlesOnce == Spec => SettledOnce
<1>1. ClientInv /\ [Next]_vars =>
        [\A c \in Call : outcome[c] \notin {"unmade", "waiting"} => outcome'[c] = outcome[c]]_vars
  BY StepSettlesOnce DEF SettlesOnceStep
<1> QED  BY <1>1, ClientInvariant, PTL DEF Spec, SettledOnce

ExitToldStep ==
    exit_told' # exit_told =>
       exit_told = 0 /\ ~disconnected /\ \A c \in Call : outcome[c] # "waiting"

LEMMA StepExitTold == ClientInv /\ [Next]_vars => ExitToldStep
<1> SUFFICES ASSUME ClientInv, [Next]_vars, exit_told' # exit_told PROVE ExitToldStep
  BY DEF ExitToldStep
<1>1. TellExit
  BY DEF Next, vars, lifeVars, MakeCall, Cancel, FailPendingCall, ReadReply,
         Notify, SetSyncWrites, CloseStdin, ForceExit, Disconnect,
         DropOwner, WriteReady, WriteFailed, DrainLoopEnds, DrainStep, DrainDone,
         ProcessExited, ReleaseWait, DisconnectDone, ReadGarbage, ReadEnds,
         ReadStderrEnds, ServerReplies, ServerReads, ServerBabbles, ServerStopsReading,
         ServerDies
<1>2. handler = "exit" /\ sweep = {} /\ ~disconnected
  BY <1>1 DEF TellExit, ExitListener
<1>3. exit_told = 0 /\ pending = {}
  BY <1>2 DEF ClientInv, WaitedFor, NobodyLeftWaiting
<1> QED  BY <1>2, <1>3 DEF ExitToldStep, ClientInv, NobodyLeftWaiting

\* process_exited() tells the owner of the exit once, last of all, and not
\* after lsp_client_disconnect().
THEOREM ExitIsToldLast == Spec => ExitToldLast
<1>1. ClientInv /\ [Next]_vars =>
        [exit_told' # exit_told =>
           exit_told = 0 /\ ~disconnected /\ \A c \in Call : outcome[c] # "waiting"]_vars
  BY StepExitTold DEF ExitToldStep
<1> QED  BY <1>1, ClientInvariant, PTL DEF Spec, ExitToldLast

-----------------------------------------------------------------------------
(* The order of the messages.  Line is made of three sequences, and each   *)
(* step moves one message from one to the next, adds one at the end or     *)
(* loses some, so what is kept is said of the three sequences.             *)

Sorted(s) == \A i, j \in 1 .. Len(s) : i < j => s[i].stamp < s[j].stamp

Before(s, t) == \A i \in 1 .. Len(s), j \in 1 .. Len(t) : s[i].stamp < t[j].stamp

Between(s, h, n) == \A i \in 1 .. Len(s) : h < s[i].stamp /\ s[i].stamp <= n

\* p, w and q hold messages in the order of their stamps, which are after h and
\* not after n.
Lined(p, w, q, h, n) ==
    /\ h <= n /\ Len(w) <= 1
    /\ Sorted(p) /\ Sorted(w) /\ Sorted(q)
    /\ Before(p, w) /\ Before(p, q) /\ Before(w, q)
    /\ Between(p, h, n) /\ Between(w, h, n) /\ Between(q, h, n)

\* The facts about the sequences that change.
LEMMA LastOfAppend ==
    ASSUME NEW s \in Seq(Message), NEW m \in Message
    PROVE  /\ Append(s, m) \in Seq(Message)
           /\ \A i \in 1 .. Len(Append(s, m)) :
                 \/ i \in 1 .. Len(s) /\ Append(s, m)[i] = s[i]
                 \/ i = Len(s) + 1 /\ Append(s, m)[i] = m
BY AppendProperties

LEMMA AfterTheHead ==
    ASSUME NEW s \in Seq(Message), s # <<>>
    PROVE  /\ Head(s) \in Message /\ Tail(s) \in Seq(Message)
           /\ Head(s) = s[1] /\ 1 \in 1 .. Len(s)
           /\ \A i \in 1 .. Len(Tail(s)) : i + 1 \in 1 .. Len(s) /\ Tail(s)[i] = s[i + 1]
BY HeadTailProperties, EmptySeq

LEMMA StampsAreNumbers ==
    ASSUME NEW s \in Seq(Message), NEW i \in 1 .. Len(s)
    PROVE  s[i] \in Message /\ s[i].stamp \in Nat
<1>1. s[i] \in Message
  OBVIOUS
<1> QED  BY <1>1 DEF Message

\* What comes after the head is later, and in order.
LEMMA TailIsSorted ==
    ASSUME NEW s \in Seq(Message), s # <<>>, Sorted(s)
    PROVE  /\ Sorted(Tail(s))
           /\ \A i \in 1 .. Len(Tail(s)) : Head(s).stamp < Tail(s)[i].stamp
<1> DEFINE r == Tail(s)
<1>1. /\ Head(s) = s[1] /\ 1 \in 1 .. Len(s)
      /\ \A i \in 1 .. Len(r) : i + 1 \in 1 .. Len(s) /\ r[i] = s[i + 1]
      /\ \A i \in 1 .. Len(r) : i \in Nat /\ 1 <= i
  BY AfterTheHead
<1> HIDE DEF r
<1>2. ASSUME NEW i \in 1 .. Len(r), NEW j \in 1 .. Len(r), i < j
      PROVE  r[i].stamp < r[j].stamp
  <2>1. i + 1 < j + 1 /\ i + 1 \in 1 .. Len(s) /\ j + 1 \in 1 .. Len(s)
    BY <1>1, <1>2
  <2> QED  BY <1>1, <2>1 DEF Sorted
<1>3. ASSUME NEW i \in 1 .. Len(r) PROVE Head(s).stamp < r[i].stamp
  <2>1. 1 < i + 1 /\ i + 1 \in 1 .. Len(s)
    BY <1>1
  <2> QED  BY <1>1, <2>1 DEF Sorted
<1> QED  BY <1>2, <1>3 DEF Sorted, r

LEMMA EmptyLined ==
    ASSUME NEW s \in Seq(Message), NEW h, NEW n
    PROVE  Sorted(<<>>) /\ Before(<<>>, s) /\ Before(s, <<>>) /\ Between(<<>>, h, n)
BY DEF Sorted, Before, Between

\* send_message(): the new message is the last.
LEMMA LinedAppend ==
    ASSUME NEW p \in Seq(Message), NEW w \in Seq(Message), NEW q \in Seq(Message),
           NEW h \in Nat, NEW n \in Nat, NEW m \in Message,
           Lined(p, w, q, h, n), m.stamp = n + 1
    PROVE  Lined(p, w, Append(q, m), h, n + 1)
<1>1. /\ Append(q, m) \in Seq(Message)
      /\ \A i \in 1 .. Len(Append(q, m)) :
            \/ i \in 1 .. Len(q) /\ Append(q, m)[i] = q[i]
            \/ i = Len(q) + 1 /\ Append(q, m)[i] = m
      /\ Len(q) \in Nat
  BY LastOfAppend
<1> DEFINE r == Append(q, m)
<1> HIDE DEF r
<1>2. \A i \in 1 .. Len(r) :
         \/ i \in 1 .. Len(q) /\ r[i] = q[i]
         \/ i = Len(q) + 1 /\ r[i] = m
  BY <1>1 DEF r
<1>3. ASSUME NEW s \in Seq(Message), Between(s, h, n)
      PROVE  /\ Between(s, h, n + 1)
             /\ \A i \in 1 .. Len(s) : s[i].stamp < m.stamp
  <2>1. \A i \in 1 .. Len(s) : s[i].stamp \in Nat
    BY StampsAreNumbers
  <2> QED  BY <1>3, <2>1 DEF Between
<1>4. Between(p, h, n + 1) /\ Between(w, h, n + 1) /\ Between(q, h, n + 1)
  BY <1>3 DEF Lined
<1>5. Between(r, h, n + 1)
  <2>1. h < m.stamp /\ m.stamp <= n + 1
    BY DEF Lined
  <2> QED  BY <1>2, <1>4, <2>1 DEF Between
<1>6. Sorted(r)
  <2>1. Sorted(q) /\ \A i \in 1 .. Len(q) : q[i].stamp < m.stamp
    BY <1>3 DEF Lined
  <2>2. Len(q) \in Nat
    BY <1>1
  <2>3. ASSUME NEW i \in 1 .. Len(r), NEW j \in 1 .. Len(r), i < j
        PROVE  r[i].stamp < r[j].stamp
    <3>1. i \in 1 .. Len(q) /\ r[i] = q[i]
      BY <1>2, <2>2, <2>3
    <3>2. CASE j \in 1 .. Len(q) /\ r[j] = q[j]
      BY <2>1, <2>3, <3>1, <3>2 DEF Sorted
    <3>3. CASE r[j] = m
      BY <2>1, <3>1, <3>3
    <3> QED  BY <1>2, <3>2, <3>3
  <2> QED  BY <2>3 DEF Sorted
<1>7. Before(p, r) /\ Before(w, r)
  BY <1>2, <1>3 DEF Before, Lined
<1> QED  BY <1>4, <1>5, <1>6, <1>7 DEF Lined, r

\* start_write(): the oldest waiting message is in flight.
LEMMA LinedStart ==
    ASSUME NEW p \in Seq(Message), NEW q \in Seq(Message), NEW h \in Nat, NEW n \in Nat,
           Lined(p, <<>>, q, h, n), q # <<>>
    PROVE  Lined(p, <<Head(q)>>, Tail(q), h, n)
<1>1. /\ Head(q) = q[1] /\ 1 \in 1 .. Len(q)
      /\ \A i \in 1 .. Len(Tail(q)) : i + 1 \in 1 .. Len(q) /\ Tail(q)[i] = q[i + 1]
  BY AfterTheHead
<1> DEFINE r == Tail(q)
           v == <<Head(q)>>
<1>2. Len(v) = 1 /\ v[1] = q[1]
  BY <1>1
<1> HIDE DEF r, v
<1>3. \A i \in 1 .. Len(r) : i + 1 \in 1 .. Len(q) /\ r[i] = q[i + 1]
  BY <1>1 DEF r
<1>4. Sorted(r) /\ Sorted(v) /\ Before(v, r)
  <2>1. Sorted(q)
    BY DEF Lined
  <2>2. Sorted(r) /\ \A i \in 1 .. Len(r) : q[1].stamp < r[i].stamp
    BY <1>1, <2>1, TailIsSorted DEF r
  <2>3. \A i \in 1 .. Len(v) : i = 1
    BY <1>2
  <2>4. Before(v, r)
    BY <1>2, <2>2, <2>3 DEF Before
  <2>5. Sorted(v)
    BY <2>3 DEF Sorted
  <2> QED  BY <2>2, <2>4, <2>5
<1>5. Before(p, v) /\ Before(p, r)
  BY <1>1, <1>2, <1>3 DEF Lined, Before
<1>6. Between(v, h, n) /\ Between(r, h, n)
  BY <1>1, <1>2, <1>3 DEF Lined, Between
<1> QED  BY <1>2, <1>4, <1>5, <1>6 DEF Lined, r, v

\* A write that succeeds puts the message in flight into the pipe.
LEMMA LinedWritten ==
    ASSUME NEW p \in Seq(Message), NEW w \in Seq(Message), NEW q \in Seq(Message),
           NEW h \in Nat, NEW n \in Nat,
           Lined(p, w, q, h, n), w # <<>>
    PROVE  Lined(Append(p, Head(w)), <<>>, q, h, n)
<1> DEFINE m == Head(w)
           r == Append(p, m)
<1>1. m = w[1] /\ 1 \in 1 .. Len(w) /\ m \in Message
  BY AfterTheHead
<1> HIDE DEF m
<1>2. \A i \in 1 .. Len(r) :
         \/ i \in 1 .. Len(p) /\ r[i] = p[i]
         \/ i = Len(p) + 1 /\ r[i] = m
  BY <1>1, LastOfAppend
<1>3. Len(p) \in Nat
  OBVIOUS
<1> HIDE DEF r
<1>4. Sorted(r) /\ Before(r, q)
  <2>1. \A i \in 1 .. Len(p) : p[i].stamp < m.stamp
    BY <1>1 DEF Lined, Before
  <2>2. ASSUME NEW i \in 1 .. Len(r), NEW j \in 1 .. Len(r), i < j
        PROVE  r[i].stamp < r[j].stamp
    <3>1. i \in 1 .. Len(p) /\ r[i] = p[i]
      BY <1>2, <1>3, <2>2
    <3>2. CASE j \in 1 .. Len(p) /\ r[j] = p[j]
      BY <2>2, <3>1, <3>2 DEF Lined, Sorted
    <3>3. CASE r[j] = m
      BY <2>1, <3>1, <3>3
    <3> QED  BY <1>2, <3>2, <3>3
  <2>3. Before(r, q)
    BY <1>1, <1>2 DEF Lined, Before
  <2> QED  BY <2>2, <2>3 DEF Sorted
<1>5. Between(r, h, n)
  BY <1>1, <1>2 DEF Lined, Between
<1>6. Before(r, <<>>) /\ Sorted(<<>>) /\ Before(<<>>, q) /\ Between(<<>>, h, n)
  BY DEF Before, Sorted, Between
<1> QED  BY <1>4, <1>5, <1>6 DEF Lined, m, r

\* What a failed write, a blocking write that fails and the end of the process
\* lose leaves the rest in order.
LEMMA LinedLost ==
    ASSUME NEW p \in Seq(Message), NEW w \in Seq(Message), NEW q \in Seq(Message),
           NEW h \in Nat, NEW n \in Nat, Lined(p, w, q, h, n)
    PROVE  /\ Lined(p, <<>>, q, h, n)
           /\ Lined(<<>>, w, q, h, n)
           /\ q # <<>> => Lined(p, w, Tail(q), h, n)
           /\ Lined(p, w, q, h, n + 1)
<1>1. Lined(p, <<>>, q, h, n)
  BY EmptyLined DEF Lined
<1>2. Lined(<<>>, w, q, h, n)
  BY EmptyLined DEF Lined
<1>3. ASSUME q # <<>> PROVE Lined(p, w, Tail(q), h, n)
  <2> DEFINE r == Tail(q)
  <2>1. \A i \in 1 .. Len(r) : i + 1 \in 1 .. Len(q) /\ r[i] = q[i + 1]
    BY <1>3, AfterTheHead
  <2> HIDE DEF r
  <2>2. Sorted(Tail(q)) /\ Before(p, r) /\ Before(w, r)
    BY <1>3, <2>1, TailIsSorted DEF Lined, Before
  <2>3. Between(r, h, n)
    BY <2>1 DEF Lined, Between
  <2> QED  BY <2>2, <2>3 DEF Lined, r
<1>4. Lined(p, w, q, h, n + 1)
  <2>1. ASSUME NEW s \in Seq(Message), Between(s, h, n) PROVE Between(s, h, n + 1)
    <3>1. \A i \in 1 .. Len(s) : s[i].stamp \in Nat
      BY StampsAreNumbers
    <3> QED  BY <2>1, <3>1 DEF Between
  <2> QED  BY <2>1 DEF Lined
<1> QED  BY <1>1, <1>2, <1>3, <1>4

\* The server reads the oldest message.
LEMMA LinedRead ==
    ASSUME NEW p \in Seq(Message), NEW w \in Seq(Message), NEW q \in Seq(Message),
           NEW h \in Nat, NEW n \in Nat,
           Lined(p, w, q, h, n), p # <<>>
    PROVE  Lined(Tail(p), w, q, Head(p).stamp, n)
<1> DEFINE r == Tail(p)
           k == Head(p).stamp
<1>1. /\ k = p[1].stamp /\ 1 \in 1 .. Len(p)
      /\ \A i \in 1 .. Len(r) : i + 1 \in 1 .. Len(p) /\ r[i] = p[i + 1]
  BY AfterTheHead
<1> HIDE DEF r, k
<1>2. k <= n
  BY <1>1 DEF Lined, Between
<1>3. /\ Sorted(r) /\ Before(r, w) /\ Before(r, q)
      /\ \A i \in 1 .. Len(r) : k < r[i].stamp
  <2>1. Sorted(r) /\ \A i \in 1 .. Len(r) : k < r[i].stamp
    BY TailIsSorted DEF Lined, r, k
  <2>2. Before(r, w) /\ Before(r, q)
    BY <1>1 DEF Lined, Before
  <2> QED  BY <2>1, <2>2
<1>4. Between(r, k, n)
  BY <1>1, <1>3 DEF Lined, Between
<1>5. Between(w, k, n) /\ Between(q, k, n)
  BY <1>1 DEF Lined, Before, Between
<1> QED  BY <1>2, <1>3, <1>4, <1>5 DEF Lined, r, k

\* The messages on their way are in the order they were sent in, after the last
\* one that the server read.
OrderInv == Lined(pipe, writing, out_queue, heard, stamp)

LEMMA SendMessageLined ==
    ASSUME TypeOK, OrderInv, NEW kind \in {"request", "note"}, NEW id \in Nat,
           SendMessage(kind, id), UNCHANGED <<pipe, heard>>
    PROVE  OrderInv'
<1> DEFINE m == [kind |-> kind, id |-> id, stamp |-> stamp + 1]
           q == Append(out_queue, m)
<1>1. /\ pipe \in Seq(Message) /\ writing \in Seq(Message) /\ out_queue \in Seq(Message)
      /\ heard \in Nat /\ stamp \in Nat
      /\ Lined(pipe, writing, out_queue, heard, stamp)
  BY DEF TypeOK, OrderInv
<1>2. m \in Message /\ m.stamp = stamp + 1
  BY <1>1 DEF Message
<1>3. Queued(m) = q /\ q \in Seq(Message)
  BY <1>1, <1>2, LastOfAppend DEF Queued
<1>4. Lined(pipe, writing, q, heard, stamp + 1)
  BY <1>1, <1>2, LinedAppend
<1>5. stamp' = stamp + 1 /\ stamp + 1 \in Nat
  BY <1>1 DEF SendMessage
<1>6. CASE ~sync_writes /\ writing = <<>>
  <2>1. StartWrite(q)
    BY <1>3, <1>6 DEF SendMessage
  <2>2. \/ writing' = <<>> /\ out_queue' = q
        \/ q # <<>> /\ writing' = <<Head(q)>> /\ out_queue' = Tail(q)
    BY <2>1 DEF StartWrite
  <2> HIDE DEF q
  <2>3. q # <<>> => Lined(pipe, <<Head(q)>>, Tail(q), heard, stamp + 1)
    BY <1>1, <1>3, <1>4, <1>5, <1>6, LinedStart
  <2> QED  BY <1>4, <1>5, <1>6, <2>2, <2>3 DEF OrderInv
<1>7. CASE ~sync_writes /\ writing # <<>>
  <2>1. out_queue' = q /\ writing' = writing
    BY <1>3, <1>7 DEF SendMessage
  <2> QED  BY <1>4, <1>5, <2>1 DEF OrderInv
<1>8. CASE sync_writes
  <2>1. writing' = writing /\ (out_queue' = q \/ out_queue' = out_queue)
    BY <1>3, <1>8 DEF SendMessage
  <2>2. Lined(pipe, writing, out_queue, heard, stamp + 1)
    BY <1>1, LinedLost
  <2> QED  BY <1>4, <1>5, <2>1, <2>2 DEF OrderInv
<1> QED  BY <1>6, <1>7, <1>8

LEMMA WriteReadyLined ==
    ASSUME TypeOK, OrderInv, WriteReady
    PROVE  OrderInv'
<1>1. /\ pipe \in Seq(Message) /\ writing \in Seq(Message) /\ out_queue \in Seq(Message)
      /\ heard \in Nat /\ stamp \in Nat
      /\ Lined(pipe, writing, out_queue, heard, stamp)
  BY DEF TypeOK, OrderInv
<1>2. /\ writing # <<>> /\ pipe' = Append(pipe, Head(writing))
      /\ heard' = heard /\ stamp' = stamp
      /\ \/ writing' = <<>> /\ out_queue' = out_queue
         \/ /\ out_queue # <<>>
            /\ writing' = <<Head(out_queue)>> /\ out_queue' = Tail(out_queue)
  BY DEF WriteReady, NextWrite, StartWrite, peerVars
<1>3. Lined(pipe', <<>>, out_queue, heard, stamp)
  BY <1>1, <1>2, LinedWritten
<1>4. pipe' \in Seq(Message)
  BY WriteReadyType DEF TypeOK
<1>5. out_queue # <<>> => Lined(pipe', <<Head(out_queue)>>, Tail(out_queue), heard, stamp)
  BY <1>1, <1>3, <1>4, LinedStart
<1> QED  BY <1>2, <1>3, <1>5 DEF OrderInv

LEMMA DrainStepLined ==
    ASSUME TypeOK, OrderInv, DrainStep
    PROVE  OrderInv'
<1>1. /\ pipe \in Seq(Message) /\ writing \in Seq(Message) /\ out_queue \in Seq(Message)
      /\ heard \in Nat /\ stamp \in Nat
      /\ Lined(pipe, writing, out_queue, heard, stamp)
  BY DEF TypeOK, OrderInv
<1>2. /\ out_queue # <<>> /\ out_queue' = Tail(out_queue)
      /\ UNCHANGED <<writing, heard, stamp>>
  BY DEF DrainStep, peerVars
<1>3. CASE writing = <<>> /\ PipeTakes
  <2>1. pipe' = Append(pipe, Head(out_queue))
    BY <1>3 DEF DrainStep
  <2>2. Head(out_queue) \in Message /\ Tail(out_queue) \in Seq(Message)
    BY <1>1, <1>2, AfterTheHead
  <2>3. Lined(pipe, <<Head(out_queue)>>, Tail(out_queue), heard, stamp)
    BY <1>1, <1>2, <1>3, LinedStart
  <2> DEFINE w == <<Head(out_queue)>>
  <2>4. w \in Seq(Message) /\ w # <<>> /\ Head(w) = Head(out_queue)
    BY <2>2
  <2> HIDE DEF w
  <2>5. Lined(Append(pipe, Head(w)), <<>>, Tail(out_queue), heard, stamp)
    BY <1>1, <2>2, <2>3, <2>4, LinedWritten DEF w
  <2> QED  BY <1>2, <1>3, <2>1, <2>4, <2>5 DEF OrderInv
<1>4. CASE ~(writing = <<>> /\ PipeTakes)
  <2>1. pipe' = pipe
    BY <1>4 DEF DrainStep
  <2> QED  BY <1>1, <1>2, <2>1, LinedLost DEF OrderInv
<1> QED  BY <1>3, <1>4

LEMMA StepLined == ClientInv /\ OrderInv /\ [Next]_vars => OrderInv'
<1> SUFFICES ASSUME ClientInv, OrderInv, [Next]_vars PROVE OrderInv'
  OBVIOUS
<1> USE DEF lifeVars, callVars, sendVars, modeVars, peerVars
<1>1. /\ TypeOK
      /\ pipe \in Seq(Message) /\ writing \in Seq(Message) /\ out_queue \in Seq(Message)
      /\ heard \in Nat /\ stamp \in Nat
      /\ Lined(pipe, writing, out_queue, heard, stamp)
  BY DEF ClientInv, TypeOK, OrderInv
<1>2. ASSUME UNCHANGED <<pipe, writing, out_queue, heard, stamp>> PROVE OrderInv'
  BY <1>2 DEF OrderInv
<1>3. ASSUME NEW c \in Call, MakeCall(c) \/ Cancel(c) PROVE OrderInv'
  <2>1. CASE IsRunning
    <3>1. PICK kind \in {"request", "note"}, id \in Nat : SendMessage(kind, id)
      BY <1>1, <1>3, <2>1 DEF MakeCall, Cancel, TypeOK
    <3>2. UNCHANGED <<pipe, heard>>
      BY <1>3 DEF MakeCall, Cancel
    <3> QED  BY <1>1, <3>1, <3>2, SendMessageLined
  <2>2. CASE ~IsRunning
    BY <1>2, <1>3, <2>2 DEF MakeCall, Cancel
  <2> QED  BY <2>1, <2>2
<1>4. CASE Notify
  <2>1. SendMessage("note", 0) /\ UNCHANGED <<pipe, heard>>
    BY <1>4 DEF Notify
  <2> QED  BY <1>1, <2>1, SendMessageLined
<1>5. CASE WriteReady \/ DrainStep
  BY <1>1, <1>5, WriteReadyLined, DrainStepLined
<1>6. CASE WriteFailed
  <2>1. writing' = <<>> /\ UNCHANGED <<pipe, out_queue, heard, stamp>>
    BY <1>6 DEF WriteFailed
  <2> QED  BY <1>1, <2>1, LinedLost DEF OrderInv
<1>7. CASE ForceExit \/ ReadGarbage \/ ServerStopsReading \/ ServerDies
  <2>1. /\ pipe' = <<>> \/ pipe' = pipe
        /\ UNCHANGED <<writing, out_queue, heard, stamp>>
    BY <1>7 DEF ForceExit, ReadGarbage, ServerStopsReading, ServerDies, Dies
  <2> QED  BY <1>1, <2>1, LinedLost DEF OrderInv
<1>8. CASE ServerReads
  <2>1. /\ pipe # <<>> /\ pipe' = Tail(pipe) /\ heard' = Head(pipe).stamp
        /\ UNCHANGED <<writing, out_queue, stamp>>
    BY <1>8 DEF ServerReads
  <2> QED  BY <1>1, <2>1, LinedRead DEF OrderInv
<1>9. CASE \/ \E c \in Call : FailPendingCall(c)
           \/ SetSyncWrites \/ CloseStdin \/ Disconnect \/ DropOwner \/ DrainLoopEnds \/ DrainDone
           \/ ProcessExited \/ TellExit \/ ReleaseWait \/ DisconnectDone
           \/ ReadReply \/ ReadEnds \/ ReadStderrEnds \/ \E id \in asked : ServerReplies(id)
           \/ ServerBabbles \/ UNCHANGED vars
  <2>1. UNCHANGED <<pipe, writing, out_queue, heard, stamp>>
    BY <1>9 DEF vars, FailPendingCall, SetSyncWrites, CloseStdin, Disconnect, DropOwner,
                DrainLoopEnds, DrainDone, ProcessExited, TellExit, ReleaseWait, DisconnectDone,
                ReadReply, ReadEnds, ReadStderrEnds, ServerReplies, ServerBabbles
  <2> QED  BY <1>2, <2>1
<1> QED  BY <1>3, <1>4, <1>5, <1>6, <1>7, <1>8, <1>9 DEF Next

\* Three sequences in order are a line in order.
LEMMA LinedIsInOrder ==
    ASSUME TypeOK, OrderInv
    PROVE  InOrder
<1>1. /\ pipe \in Seq(Message) /\ writing \in Seq(Message) /\ out_queue \in Seq(Message)
      /\ Lined(pipe, writing, out_queue, heard, stamp)
  BY DEF TypeOK, OrderInv
<1> DEFINE a == Len(pipe)
           b == Len(writing)
           c == Len(out_queue)
           u == pipe \o writing
<1>2. /\ u \in Seq(Message) /\ Len(u) = a + b
      /\ \A i \in 1 .. a + b : u[i] = IF i <= a THEN pipe[i] ELSE writing[i - a]
      /\ a \in Nat /\ b \in Nat /\ c \in Nat
  BY <1>1, ConcatProperties
<1> HIDE DEF u
<1>3. /\ Len(u \o out_queue) = (a + b) + c
      /\ \A i \in 1 .. (a + b) + c :
            (u \o out_queue)[i] = IF i <= a + b THEN u[i] ELSE out_queue[i - (a + b)]
  <2> HIDE DEF a, b
  <2>1. /\ Len(u \o out_queue) = Len(u) + Len(out_queue)
        /\ \A i \in 1 .. Len(u) + Len(out_queue) :
              (u \o out_queue)[i] = IF i <= Len(u) THEN u[i] ELSE out_queue[i - Len(u)]
    <3>1. u \in Seq(Message) /\ out_queue \in Seq(Message)
      BY <1>1, <1>2
    <3> QED  BY ONLY <3>1, ConcatProperties, Zenon
  <2>2. Len(u) = a + b
    BY <1>2
  <2> QED  BY ONLY <2>1, <2>2, Zenon DEF c
<1>4. Line = u \o out_queue
  BY DEF Line, u
<1> DEFINE n == (a + b) + c
<1>5. ASSUME NEW i \in 1 .. n
      PROVE  \/ i \in 1 .. a /\ Line[i] = pipe[i]
             \/ i > a /\ i <= a + b /\ i - a \in 1 .. b /\ Line[i] = writing[i - a]
             \/ i > a + b /\ i - (a + b) \in 1 .. c /\ Line[i] = out_queue[i - (a + b)]
  <2>1. CASE i <= a
    BY <1>2, <1>3, <1>4, <2>1
  <2>2. CASE i > a /\ i <= a + b
    BY <1>2, <1>3, <1>4, <2>2
  <2>3. CASE i > a + b
    BY <1>2, <1>3, <1>4, <2>3
  <2> QED  BY <1>2, <2>1, <2>2, <2>3
<1>6. Len(Line) = n /\ n \in Nat
  BY <1>2, <1>3, <1>4
<1> HIDE DEF a, b, c, n
<1>7. ASSUME NEW i \in 1 .. n, NEW j \in 1 .. n, i < j
      PROVE  Line[i].stamp < Line[j].stamp
  <2>1. a \in Nat /\ b \in Nat /\ c \in Nat
    BY <1>2
  <2>2. CASE i \in 1 .. a /\ Line[i] = pipe[i]
    <3>1. CASE j \in 1 .. a /\ Line[j] = pipe[j]
      BY <1>1, <1>7, <2>2, <3>1 DEF Lined, Sorted, a
    <3>2. CASE j - a \in 1 .. b /\ Line[j] = writing[j - a]
      BY <1>1, <2>2, <3>2 DEF Lined, Before, a, b
    <3>3. CASE j - (a + b) \in 1 .. c /\ Line[j] = out_queue[j - (a + b)]
      BY <1>1, <2>2, <3>3 DEF Lined, Before, a, c
    <3> QED  BY <1>5, <3>1, <3>2, <3>3
  <2>3. CASE i > a /\ i <= a + b /\ i - a \in 1 .. b /\ Line[i] = writing[i - a]
    <3>1. ~(j \in 1 .. a)
      BY <1>7, <2>1, <2>3
    <3>2. CASE j - a \in 1 .. b /\ Line[j] = writing[j - a]
      <4>1. i - a < j - a
        BY <1>7, <2>1
      <4> QED  BY <1>1, <2>3, <3>2, <4>1 DEF Lined, Sorted, b
    <3>3. CASE j - (a + b) \in 1 .. c /\ Line[j] = out_queue[j - (a + b)]
      BY <1>1, <2>3, <3>3 DEF Lined, Before, b, c
    <3> QED  BY <1>5, <3>1, <3>2, <3>3
  <2>4. CASE i > a + b /\ i - (a + b) \in 1 .. c /\ Line[i] = out_queue[i - (a + b)]
    <3>1. j > a + b
      BY <1>7, <2>1, <2>4
    <3>2. j - (a + b) \in 1 .. c /\ Line[j] = out_queue[j - (a + b)]
      BY <1>5, <1>7, <2>1, <3>1
    <3>3. i - (a + b) < j - (a + b)
      BY <1>7, <2>1
    <3> QED  BY <1>1, <2>4, <3>2, <3>3 DEF Lined, Sorted, c
  <2> QED  BY <1>5, <2>2, <2>3, <2>4
<1>8. ASSUME NEW i \in 1 .. n PROVE heard < Line[i].stamp
  BY <1>1, <1>5 DEF Lined, Between, a, b, c
<1> QED  BY <1>6, <1>7, <1>8 DEF InOrder

\* What lsp-client.cpp queues, writes and hands to the pipe reaches the server
\* in the order it was sent in, whatever a failed write or a dead process loses.
THEOREM MessagesKeepTheirOrder == Spec => []InOrder
<1>1. Init => OrderInv
  <2> SUFFICES ASSUME Init PROVE OrderInv
    OBVIOUS
  <2>1. /\ pipe = <<>> /\ writing = <<>> /\ out_queue = <<>> /\ heard = 0 /\ stamp = 0
    BY DEF Init
  <2>2. /\ <<>> \in Seq(Message) /\ Len(<<>>) <= 1 /\ 0 <= 0
    OBVIOUS
  <2>3. Sorted(<<>>) /\ Before(<<>>, <<>>) /\ Between(<<>>, 0, 0)
    BY <2>2, EmptyLined, Zenon
  <2>4. Lined(<<>>, <<>>, <<>>, 0, 0)
    BY <2>2, <2>3, Zenon DEF Lined
  <2> QED  BY <2>1, <2>4, Zenon DEF OrderInv
<1>2. ClientInv /\ OrderInv => InOrder
  BY LinedIsInOrder DEF ClientInv
<1> QED  BY InitInv, StepInv, StepLined, <1>1, <1>2, PTL DEF Spec

=============================================================================
