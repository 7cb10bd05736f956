-------------------------- MODULE AppInputProofs ---------------------------
(***************************************************************************)
(* Theorems about AppInput, for every set of processes and every bound.    *)
(***************************************************************************)
EXTENDS AppInput, SequenceTheorems, TLAPS

USE DEF paths, wires, history, files

\* Before its main loop, and in it, an instance has nothing to tell.
Quiet == {"off", "running"} \cup Sending \cup Claiming

\* The stamps of an instance are its share of `told', those to come included; what
\* it writes when it tells has a stamp.
StampsOK == \A p \in Proc :
    /\ stamp[p] + left[p] <= told
    /\ at[p] \in Quiet => left[p] = 0
    /\ at[p] \in {"off", "running"} \cup Claiming => todo[p] = {}
    /\ at[p] \in Telling \ {"tell"} => stamp[p] >= 1
    /\ at[p] = "tell" /\ todo[p] # {} => stamp[p] >= 1

\* What an instance has handled is not newer than the stamp it keeps.
HeardOK == \A p \in Proc : \A i \in DOMAIN heard[p] :
    heard[p][i][2] <= stamp_hash[p][heard[p][i][1]]

\* The types of what is on the way, and of the rest.
WiresOK ==
    /\ backlog \in [Proc -> [Name -> Seq(Connection)]]
    /\ conns \in [Proc -> [Name -> Seq(Connection)]]

NewsOK ==
    /\ stamp_hash \in [Proc -> [Proc -> 0..MaxNews]]
    /\ heard \in [Proc -> Seq(Proc \X (1..MaxNews))]

ProcessesOK ==
    /\ file \in [Name -> Proc \cup {None}]
    /\ dir \in BOOLEAN
    /\ at \in [Proc -> Place]
    /\ target \in [Proc -> Name]
    /\ todo \in [Proc -> SUBSET Name]
    /\ listed \in [Proc -> BOOLEAN]
    /\ sockets \in [Proc -> SUBSET Name]
    /\ wanted \in [Proc -> Name]
    /\ left \in [Proc -> 0..MaxNews] /\ stamp \in [Proc -> Nat]
    /\ told \in 0..MaxNews
    /\ quitting \subseteq Proc
    /\ openers \in [Proc -> SUBSET Proc]
    /\ taker \in [Proc -> Proc \cup {None}]
    /\ stops \in 0..MaxStops

LEMMA TypeParts == TypeOK <=> WiresOK /\ NewsOK /\ ProcessesOK
BY DEF TypeOK, WiresOK, NewsOK, ProcessesOK
-----------------------------------------------------------------------------
LEMMA FilledType ==
    ASSUME NEW p \in Proc, NEW list \in Seq(Connection), NEW msg \in Message
    PROVE  Filled(p, list, msg) \in Seq(Connection)
<1>1. \A i \in DOMAIN list : list[i] \in Connection
  OBVIOUS
<1>2. \A i \in DOMAIN list : [list[i] EXCEPT !.open = FALSE, !.msg = msg] \in Connection
  BY <1>1 DEF Connection
<1>3. Len(list) \in Nat /\ DOMAIN list = 1..Len(list)
  OBVIOUS
<1>4. Filled(p, list, msg) \in [1..Len(list) -> Connection]
  BY <1>1, <1>2, <1>3 DEF Filled
<1> QED
  BY <1>3, <1>4, SeqDef

LEMMA RemovedType ==
    ASSUME NEW list \in Seq(Connection), NEW i \in DOMAIN list
    PROVE  Removed(list, i) \in Seq(Connection)
<1>1. i \in 1..Len(list) /\ Len(list) \in Nat
  OBVIOUS
<1>2. SubSeq(list, 1, i - 1) \in Seq(Connection)
  BY <1>1, SubSeqProperties
<1>3. SubSeq(list, i + 1, Len(list)) \in Seq(Connection)
  BY <1>1, SubSeqProperties
<1> QED
  BY <1>2, <1>3, ConcatProperties DEF Removed

LEMMA Messages ==
    /\ Nothing \in Message /\ Files \in Message
    /\ \A n \in 1..MaxNews : News(n) \in Message
    /\ \A m \in Message : m.kind = "news" => m.n \in 1..MaxNews
<1>1. Nothing \in Message /\ Files \in Message /\ \A n \in 1..MaxNews : News(n) \in Message
  BY DEF Message
<1>2. ASSUME NEW m \in Message, m.kind = "news" PROVE m.n \in 1..MaxNews
  <2>1. Nothing.kind # "news" /\ Files.kind # "news" /\ \A n \in 1..MaxNews : News(n).n = n
    BY DEF Nothing, Files, News
  <2> QED
    BY <1>2, <2>1 DEF Message
<1> QED
  BY <1>1, <1>2

LEMMA InsteadGoes ==
    ASSUME NEW p \in Proc, NEW send, NEW claim, NEW tell, Instead(p, send, claim, tell)
    PROVE  /\ at[p] \in Sending => Goes(p, send)
           /\ at[p] \in Claiming => Goes(p, claim)
           /\ at[p] \notin Sending \cup Claiming => Goes(p, tell)
<1>1. \A x \in Sending : x \notin Claiming
  BY DEF Sending, Claiming
<1> QED
  BY <1>1 DEF Instead

\* Steps that leave the connections, or what was heard, alone.
LEMMA WiresUnmoved == ASSUME WiresOK, UNCHANGED wires PROVE WiresOK'
BY DEF WiresOK

LEMMA NewsUnmoved ==
    ASSUME NewsOK, HeardOK, NewsHandledOnce, UNCHANGED <<stamp_hash, heard>>
    PROVE  NewsOK' /\ HeardOK' /\ NewsHandledOnce'
BY DEF NewsOK, HeardOK, NewsHandledOnce

\* The next place of one process, broadcasts left alone.
LEMMA Going ==
    ASSUME ProcessesOK, StampsOK, NEW p \in Proc, NEW place \in Place, Goes(p, place),
           UNCHANGED <<left, stamp, told>>,
           \A q \in Proc : q # p => todo'[q] = todo[q],
           place \in Quiet => at[p] \in Quiet,
           place \in {"off", "running"} \cup Claiming => todo'[p] = {},
           place \in Telling => at[p] \in Telling /\ todo'[p] \subseteq todo[p],
           place \in Telling \ {"tell"} => at[p] # "tell" \/ todo[p] # {}
    PROVE  at' \in [Proc -> Place] /\ StampsOK'
<1>1. at \in [Proc -> Place] /\ at'[p] = place /\ \A q \in Proc : q # p => at'[q] = at[q]
  BY DEF ProcessesOK, Goes
<1>2. at' \in [Proc -> Place]
  BY DEF ProcessesOK, Goes
<1>3. ASSUME NEW q \in Proc
      PROVE  /\ stamp'[q] + left'[q] <= told'
             /\ at'[q] \in Quiet => left'[q] = 0
             /\ at'[q] \in {"off", "running"} \cup Claiming => todo'[q] = {}
             /\ at'[q] \in Telling \ {"tell"} => stamp'[q] >= 1
             /\ at'[q] = "tell" /\ todo'[q] # {} => stamp'[q] >= 1
  <2>1. CASE q # p
    BY <1>1, <2>1 DEF StampsOK
  <2>2. CASE q = p
    <3>1. "tell" \in Telling
      BY DEF Telling
    <3> QED
      BY <1>1, <2>2, <3>1 DEF StampsOK
  <2> QED
    BY <2>1, <2>2
<1> QED
  BY <1>2, <1>3 DEF StampsOK

IInv == WiresOK /\ NewsOK /\ ProcessesOK /\ StampsOK /\ HeardOK /\ NewsHandledOnce

LEMMA InitInv == ASSUME Init PROVE IInv
<1> USE AppInputAssumption DEF Init
<1>1. WiresOK /\ NewsOK
  BY DEF WiresOK, NewsOK
<1>2. ProcessesOK
  BY DEF ProcessesOK, Name, Place
<1>3. StampsOK /\ HeardOK /\ NewsHandledOnce
  BY DEF StampsOK, HeardOK, NewsHandledOnce, Quiet, Telling, Claiming, Sending
<1> QED
  BY <1>1, <1>2, <1>3 DEF IInv
-----------------------------------------------------------------------------
LEMMA StartInv == ASSUME IInv, NEW p \in Proc, Start(p) PROVE IInv'
<1> USE AppInputAssumption DEF IInv, Start
<1>1. WiresOK' /\ NewsOK' /\ HeardOK' /\ NewsHandledOnce'
  BY WiresUnmoved, NewsUnmoved
<1>2. ProcessesOK'
  BY DEF ProcessesOK, Goes, Name, Place, Sending, Claiming
<1>3. StampsOK'
  BY DEF StampsOK, ProcessesOK, Goes, Quiet, Telling, Claiming, Sending
<1> QED
  BY <1>1, <1>2, <1>3

LEMMA TrySendInv == ASSUME IInv, NEW p \in Proc, try_send(p) PROVE IInv'
<1> USE AppInputAssumption DEF IInv
<1>1. WiresOK' /\ NewsOK' /\ HeardOK' /\ NewsHandledOnce'
  BY WiresUnmoved, NewsUnmoved DEF try_send
<1>2. PICK n \in todo[p] :
         /\ todo' = [todo EXCEPT ![p] = @ \ {n}]
         /\ IF file[n] = None THEN UNCHANGED <<at, target>>
            ELSE /\ Instead(p, "send_connect", "", "tell_connect")
                 /\ target' = [target EXCEPT ![p] = n]
  BY DEF try_send
<1>3. todo \in [Proc -> SUBSET Name] /\ n \in Name
  BY <1>2 DEF ProcessesOK
<1>4. \/ UNCHANGED <<at, target>> /\ Goes(p, at[p])
      \/ /\ at[p] = "send" /\ Goes(p, "send_connect")
         /\ target' = [target EXCEPT ![p] = n]
      \/ /\ at[p] = "tell" /\ Goes(p, "tell_connect")
         /\ target' = [target EXCEPT ![p] = n]
  <2>1. CASE UNCHANGED <<at, target>>
    BY <2>1 DEF ProcessesOK, Goes
  <2>2. CASE Instead(p, "send_connect", "", "tell_connect") /\ target' = [target EXCEPT ![p] = n]
    BY <2>2, InsteadGoes DEF try_send, Sending, Claiming
  <2> QED
    BY <1>2, <2>1, <2>2
<1>5. todo' \in [Proc -> SUBSET Name] /\ target' \in [Proc -> Name]
  <2>1. target \in [Proc -> Name] /\ [target EXCEPT ![p] = n] \in [Proc -> Name]
    BY <1>3 DEF ProcessesOK
  <2>2. todo[p] \ {n} \subseteq Name
    BY <1>3
  <2>3. todo' \in [Proc -> SUBSET Name]
    BY <1>2, <1>3, <2>2
  <2> QED
    BY <1>4, <2>1, <2>3
<1>6. at' \in [Proc -> Place] /\ StampsOK'
  <2>1. /\ \A q \in Proc : q # p => todo'[q] = todo[q]
        /\ todo'[p] \subseteq todo[p] /\ todo[p] # {}
        /\ at[p] \in {"send", "tell"} /\ UNCHANGED <<left, stamp, told>>
    BY <1>2, <1>3 DEF try_send
  <2>2. /\ at[p] \in Place /\ {"send_connect", "tell_connect"} \subseteq Place
        /\ {"send", "send_connect"} \subseteq Quiet \ (Telling \cup {"off", "running"} \cup Claiming)
        /\ {"tell", "tell_connect"} \subseteq Telling \ (Quiet \cup {"off", "running"} \cup Claiming)
    BY <2>1 DEF Place, Quiet, Sending, Claiming, Telling
  <2>3. CASE Goes(p, at[p])
    BY <2>1, <2>2, <2>3, Going
  <2>4. CASE at[p] = "send" /\ Goes(p, "send_connect")
    BY <2>1, <2>2, <2>4, Going
  <2>5. CASE at[p] = "tell" /\ Goes(p, "tell_connect")
    BY <2>1, <2>2, <2>5, Going
  <2> QED
    BY <1>4, <2>3, <2>4, <2>5
<1>7. ProcessesOK'
  BY <1>5, <1>6 DEF try_send, ProcessesOK
<1> QED
  BY <1>1, <1>6, <1>7

LEMMA NobodyTookItInv == ASSUME IInv, NEW p \in Proc, NobodyTookIt(p) PROVE IInv'
<1> USE AppInputAssumption DEF IInv
<1>1. WiresOK' /\ NewsOK' /\ HeardOK' /\ NewsHandledOnce'
  BY WiresUnmoved, NewsUnmoved DEF NobodyTookIt
<1>2. InDir \subseteq Name
  BY DEF InDir, Existing
<1>3. ProcessesOK'
  <2>1. at' \in [Proc -> Place]
    BY DEF ProcessesOK, NobodyTookIt, Goes, Place, Ended, Claiming
  <2>2. \A f \in [Proc -> SUBSET Name] : [f EXCEPT ![p] = InDir] \in [Proc -> SUBSET Name]
    BY <1>2
  <2>3. todo' \in [Proc -> SUBSET Name]
    BY <2>2 DEF ProcessesOK, NobodyTookIt
  <2>4. listed' \in [Proc -> BOOLEAN] /\ target' \in [Proc -> Name]
    <3>1. /\ listed \in [Proc -> BOOLEAN] /\ [listed EXCEPT ![p] = TRUE] \in [Proc -> BOOLEAN]
          /\ target \in [Proc -> Name] /\ [target EXCEPT ![p] = p] \in [Proc -> Name]
      BY DEF ProcessesOK, Name
    <3>2. \/ UNCHANGED listed
          \/ listed' = [listed EXCEPT ![p] = TRUE]
      BY DEF NobodyTookIt
    <3>3. \/ UNCHANGED target
          \/ target' = [target EXCEPT ![p] = p]
      BY DEF NobodyTookIt
    <3> QED
      BY <3>1, <3>2, <3>3
  <2> QED
    BY <2>1, <2>3, <2>4 DEF ProcessesOK, NobodyTookIt
<1>4. StampsOK'
  BY DEF NobodyTookIt, StampsOK, ProcessesOK, Goes, Quiet, Telling, Claiming, Sending
<1> QED
  BY <1>1, <1>3, <1>4

\* Steps that only say where one process goes on.
LEMMA OnlyGoes ==
    ASSUME IInv, NEW p \in Proc, NEW place \in Place, Goes(p, place),
           UNCHANGED <<wires, target, todo, listed, sockets, wanted, left, told, quitting, history, files, stops>>,
           file' \in [Name -> Proc \cup {None}], dir' \in BOOLEAN,
           place \in Quiet => at[p] \in Quiet,
           place \in {"off", "running"} \cup Claiming => todo[p] = {},
           place \in Telling => at[p] \in Telling,
           place \in Telling \ {"tell"} => at[p] # "tell"
    PROVE  IInv'
<1>1. WiresOK' /\ NewsOK' /\ HeardOK' /\ NewsHandledOnce'
  BY WiresUnmoved, NewsUnmoved DEF IInv
<1>2. at' \in [Proc -> Place] /\ StampsOK'
  BY Going DEF IInv
<1>3. ProcessesOK'
  BY <1>2 DEF IInv, ProcessesOK
<1> QED
  BY <1>1, <1>2, <1>3 DEF IInv

LEMMA RefusedInv == ASSUME IInv, NEW p \in Proc, Refused(p) PROVE IInv'
<1>1. \/ at[p] = "send_connect" /\ Goes(p, "send_unlink")
      \/ at[p] = "claim_connect" /\ Goes(p, "claim_unlink")
      \/ at[p] = "tell_connect" /\ Goes(p, "tell_unlink")
  BY InsteadGoes DEF Refused, Connecting, Sending, Claiming
<1> QED
  BY <1>1, OnlyGoes
  DEF IInv, Refused, ProcessesOK, StampsOK, Place, Quiet, Sending, Claiming, Telling

LEMMA UnlinkedInv == ASSUME IInv, NEW p \in Proc, Unlinked(p) PROVE IInv'
<1>1. \/ at[p] = "send_unlink" /\ Goes(p, "send")
      \/ at[p] = "claim_unlink" /\ Goes(p, "claim_bind")
      \/ at[p] = "tell_unlink" /\ Goes(p, "tell")
  BY InsteadGoes DEF Unlinked, Unlinking, Sending, Claiming
<1>2. file' \in [Name -> Proc \cup {None}]
  BY DEF IInv, Unlinked, ProcessesOK
<1> QED
  BY <1>1, <1>2, OnlyGoes
  DEF IInv, Unlinked, ProcessesOK, StampsOK, Place, Quiet, Sending, Claiming, Telling

LEMMA NotWrittenInv == ASSUME IInv, NEW p \in Proc, NotWritten(p) PROVE IInv'
<1>1. \/ at[p] = "send_write" /\ Goes(p, "send")
      \/ at[p] = "tell_write" /\ Goes(p, "tell")
  BY InsteadGoes DEF NotWritten, Writing, Sending, Claiming
<1> QED
  BY <1>1, OnlyGoes
  DEF IInv, NotWritten, ProcessesOK, StampsOK, Place, Quiet, Sending, Claiming, Telling

LEMMA ClaimInv == ASSUME IInv, NEW p \in Proc, Claim(p) PROVE IInv'
BY OnlyGoes
DEF IInv, Claim, ProcessesOK, StampsOK, Place, Quiet, Sending, Claiming, Telling

LEMMA ShutdownUnlinkInv == ASSUME IInv, NEW p \in Proc, ShutdownUnlink(p) PROVE IInv'
<1>1. file' \in [Name -> Proc \cup {None}]
  BY DEF IInv, ShutdownUnlink, ProcessesOK
<1> QED
  BY <1>1, OnlyGoes
  DEF IInv, ShutdownUnlink, ProcessesOK, Place, Quiet, Sending, Claiming, Telling, Closing

LEMMA ShutdownRmdirInv == ASSUME IInv, NEW p \in Proc, ShutdownRmdir(p) PROVE IInv'
BY OnlyGoes
DEF IInv, ShutdownRmdir, DirRemoved, ProcessesOK, Place, Quiet, Sending, Claiming, Telling, Closing

-----------------------------------------------------------------------------
\* Steps that broadcast: an instance that had nothing to tell has some of what is left
\* of MaxNews, and tells.
LEMMA Bursting ==
    ASSUME ProcessesOK, StampsOK, NEW p \in Proc, NEW k \in 0..MaxBurst, Burst(p, k),
           Goes(p, "tell"), at[p] \in Quiet, UNCHANGED <<stamp, todo>>, todo[p] = {}
    PROVE  /\ at' \in [Proc -> Place] /\ StampsOK'
           /\ left' \in [Proc -> 0..MaxNews] /\ told' \in 0..MaxNews
<1> USE AppInputAssumption
<1>1. /\ at'[p] = "tell" /\ left'[p] = k /\ left[p] = 0
      /\ \A q \in Proc : q # p => at'[q] = at[q] /\ left'[q] = left[q]
  BY DEF ProcessesOK, StampsOK, Goes, Burst
<1>2. k \in Nat /\ told \in 0..MaxNews /\ told' = told + k /\ k <= MaxNews - told
  BY DEF ProcessesOK, Burst
<1>3. told' \in 0..MaxNews /\ k \in 0..MaxNews
  BY <1>2
<1>4. left' \in [Proc -> 0..MaxNews]
  BY <1>3 DEF ProcessesOK, Burst
<1>5. at' \in [Proc -> Place]
  BY DEF ProcessesOK, Goes, Place, Telling
<1>6. "tell" \notin Quiet /\ "tell" \notin {"off", "running"} \cup Claiming
  BY DEF Quiet, Sending, Claiming
<1>7. \A q \in Proc : stamp[q] \in Nat /\ left[q] \in Nat
  BY DEF ProcessesOK
<1>8. \A q \in Proc : stamp'[q] + left'[q] <= told'
  BY <1>1, <1>2, <1>7 DEF StampsOK
<1> QED
  BY <1>1, <1>3, <1>4, <1>5, <1>6, <1>8 DEF StampsOK

LEMMA VisitInv == ASSUME IInv, NEW p \in Proc, Visit(p) PROVE IInv'
<1>1. WiresOK' /\ NewsOK' /\ HeardOK' /\ NewsHandledOnce'
  BY WiresUnmoved, NewsUnmoved DEF IInv, Visit
<1>2. PICK k \in 0..MaxBurst : Burst(p, k)
  BY AppInputAssumption DEF Visit
<1>3. at[p] \in Quiet /\ todo[p] = {}
  BY DEF IInv, Visit, StampsOK, Quiet
<1>4. /\ at' \in [Proc -> Place] /\ StampsOK'
      /\ left' \in [Proc -> 0..MaxNews] /\ told' \in 0..MaxNews
  BY <1>2, <1>3, Bursting DEF IInv, Visit
<1>5. ProcessesOK'
  BY <1>4 DEF IInv, Visit, ProcessesOK
<1> QED
  BY <1>1, <1>4, <1>5 DEF IInv

LEMMA QuitInv == ASSUME IInv, NEW p \in Proc, Quit(p) PROVE IInv'
<1>1. WiresOK' /\ NewsOK' /\ HeardOK' /\ NewsHandledOnce'
  BY WiresUnmoved, NewsUnmoved DEF IInv, Quit
<1>2. PICK k \in 0..MaxBurst : Burst(p, k)
  BY DEF Quit
<1>3. at[p] \in Quiet /\ todo[p] = {}
  BY DEF IInv, Quit, StampsOK, Quiet
<1>4. /\ at' \in [Proc -> Place] /\ StampsOK'
      /\ left' \in [Proc -> 0..MaxNews] /\ told' \in 0..MaxNews
  BY <1>2, <1>3, Bursting DEF IInv, Quit
<1>5. stops' \in 0..MaxStops /\ quitting' \subseteq Proc
  BY AppInputAssumption DEF IInv, Quit, ProcessesOK
<1>6. ProcessesOK'
  BY <1>4, <1>5 DEF IInv, Quit, ProcessesOK
<1> QED
  BY <1>1, <1>4, <1>6 DEF IInv

\* The second channel, or the end of the start.
LEMMA ClaimNextProcesses ==
    ASSUME ProcessesOK, StampsOK, NEW p \in Proc, ClaimNext(p), at[p] \in Claiming,
           UNCHANGED <<todo, stamp>>
    PROVE  /\ at' \in [Proc -> Place] /\ StampsOK'
           /\ left' \in [Proc -> 0..MaxNews] /\ told' \in 0..MaxNews
           /\ target' \in [Proc -> Name] /\ openers' \in [Proc -> SUBSET Proc]
<1>1. at[p] \in Quiet /\ todo[p] = {}
  BY DEF StampsOK, Quiet
<1>2. CASE target[p] = p
  <2>1. Goes(p, "claim") /\ UNCHANGED <<left, told, openers>> /\ target' = [target EXCEPT ![p] = Main]
    BY <1>2 DEF ClaimNext
  <2>2. "claim" \in Place \ Telling
    BY DEF Place, Claiming, Telling
  <2>3. at' \in [Proc -> Place] /\ StampsOK'
    BY <1>1, <2>1, <2>2, Going
  <2>4. target' \in [Proc -> Name]
    BY <2>1 DEF ProcessesOK, Name
  <2> QED
    BY <2>1, <2>3, <2>4 DEF ProcessesOK
<1>3. CASE target[p] # p
  <2>1. /\ Goes(p, "tell") /\ UNCHANGED target
        /\ openers' = [openers EXCEPT ![p] = @ \cup {p}]
    BY <1>3 DEF ClaimNext
  <2>2. PICK k \in 0..MaxBurst : Burst(p, k)
    BY <1>3 DEF ClaimNext
  <2>3. /\ at' \in [Proc -> Place] /\ StampsOK'
        /\ left' \in [Proc -> 0..MaxNews] /\ told' \in 0..MaxNews
    BY <1>1, <2>1, <2>2, Bursting
  <2>4. openers' \in [Proc -> SUBSET Proc]
    BY <2>1 DEF ProcessesOK
  <2> QED
    BY <2>1, <2>3, <2>4 DEF ProcessesOK
<1> QED
  BY <1>2, <1>3

LEMMA BoundInv == ASSUME IInv, NEW p \in Proc, Bound(p) PROVE IInv'
<1>1. WiresOK' /\ NewsOK' /\ HeardOK' /\ NewsHandledOnce'
  <2>1. UNCHANGED <<wires, stamp_hash, heard>>
    BY DEF Bound
  <2> QED
    BY <2>1, WiresUnmoved, NewsUnmoved DEF IInv
<1>2. CASE dir /\ file[target[p]] = None
  <2>1. file' = [file EXCEPT ![target[p]] = p] /\ Goes(p, "claim_listen")
    BY <1>2 DEF Bound
  <2>2. file' \in [Name -> Proc \cup {None}]
    BY <2>1 DEF IInv, ProcessesOK
  <2>3. "claim_listen" \in Place /\ at[p] \in Claiming /\ "claim_listen" \in Claiming \ Telling
    BY DEF Bound, Place, Claiming, Telling
  <2>4. todo[p] = {}
    BY <2>3 DEF IInv, StampsOK
  <2> QED
    BY <1>2, <2>1, <2>2, <2>3, <2>4, OnlyGoes DEF Bound, IInv, ProcessesOK, Quiet
<1>3. CASE ~(dir /\ file[target[p]] = None)
  <2>1. ClaimNext(p) /\ DirRemoved /\ UNCHANGED file /\ at[p] \in Claiming
    BY <1>3 DEF Bound, Claiming
  <2>2. UNCHANGED <<todo, stamp>>
    BY DEF Bound
  <2>3. /\ at' \in [Proc -> Place] /\ StampsOK'
        /\ left' \in [Proc -> 0..MaxNews] /\ told' \in 0..MaxNews
        /\ target' \in [Proc -> Name] /\ openers' \in [Proc -> SUBSET Proc]
    BY <2>1, <2>2, ClaimNextProcesses DEF IInv
  <2>4. dir' \in BOOLEAN
    BY <2>1 DEF DirRemoved, IInv, ProcessesOK
  <2>5. UNCHANGED <<todo, listed, sockets, wanted, quitting, stamp, taker, stops, file>>
    BY <2>1 DEF Bound
  <2>6. ProcessesOK'
    BY <2>3, <2>4, <2>5 DEF IInv, ProcessesOK
  <2> QED
    BY <1>1, <2>3, <2>6 DEF IInv
<1> QED
  BY <1>2, <1>3

LEMMA ListenInv == ASSUME IInv, NEW p \in Proc, Listen(p) PROVE IInv'
<1>1. /\ ClaimNext(p) /\ at[p] \in Claiming
      /\ UNCHANGED <<paths, wires, todo, listed, wanted, quitting, history, taker, stops>>
      /\ sockets' = [sockets EXCEPT ![p] = @ \cup {target[p]}]
  BY DEF Listen, Claiming
<1>2. WiresOK' /\ NewsOK' /\ HeardOK' /\ NewsHandledOnce'
  BY <1>1, WiresUnmoved, NewsUnmoved DEF IInv
<1>3. /\ at' \in [Proc -> Place] /\ StampsOK'
      /\ left' \in [Proc -> 0..MaxNews] /\ told' \in 0..MaxNews
      /\ target' \in [Proc -> Name] /\ openers' \in [Proc -> SUBSET Proc]
  BY <1>1, ClaimNextProcesses DEF IInv
<1>4. sockets' \in [Proc -> SUBSET Name]
  <2>1. sockets \in [Proc -> SUBSET Name] /\ target[p] \in Name
    BY DEF IInv, ProcessesOK
  <2> QED
    BY <1>1, <2>1
<1>5. ProcessesOK'
  BY <1>1, <1>3, <1>4 DEF IInv, ProcessesOK
<1> QED
  BY <1>2, <1>3, <1>5 DEF IInv

LEMMA TellInv == ASSUME IInv, NEW p \in Proc, Tell(p) PROVE IInv'
<1>1. WiresOK' /\ NewsOK' /\ HeardOK' /\ NewsHandledOnce'
  <2>1. UNCHANGED <<wires, stamp_hash, heard>>
    BY DEF Tell
  <2> QED
    BY <2>1, WiresUnmoved, NewsUnmoved DEF IInv
<1>2. CASE left[p] > 0
  <2>1. /\ left' = [left EXCEPT ![p] = @ - 1] /\ stamp' = [stamp EXCEPT ![p] = @ + 1]
        /\ todo' = [todo EXCEPT ![p] = InDir \ sockets[p]]
        /\ UNCHANGED <<at, told>> /\ at[p] = "tell"
    BY <1>2 DEF Tell
  <2>2. left \in [Proc -> 0..MaxNews] /\ stamp \in [Proc -> Nat] /\ todo \in [Proc -> SUBSET Name]
        /\ MaxNews \in Nat /\ told \in Nat
    BY AppInputAssumption DEF IInv, ProcessesOK
  <2>3. InDir \subseteq Name
    BY DEF InDir, Existing
  <2>4. /\ left' \in [Proc -> 0..MaxNews] /\ stamp' \in [Proc -> Nat]
        /\ todo' \in [Proc -> SUBSET Name]
    <3>1. left[p] - 1 \in 0..MaxNews /\ stamp[p] + 1 \in Nat /\ InDir \ sockets[p] \subseteq Name
      BY <1>2, <2>2, <2>3
    <3> QED
      BY <2>1, <2>2, <3>1
  <2>5. /\ stamp'[p] = stamp[p] + 1 /\ left'[p] = left[p] - 1 /\ stamp[p] \in Nat /\ left[p] \in Nat
        /\ \A q \in Proc : q # p => /\ stamp'[q] = stamp[q] /\ left'[q] = left[q]
                                    /\ todo'[q] = todo[q]
    BY <2>1, <2>2
  <2>6. "tell" \notin Quiet /\ "tell" \notin {"off", "running"} \cup Claiming
    BY DEF Quiet, Sending, Claiming
  <2>7. stamp'[p] + left'[p] <= told' /\ stamp'[p] >= 1
    BY <2>1, <2>2, <2>5 DEF IInv, StampsOK
  <2>8. StampsOK'
    BY <2>1, <2>5, <2>6, <2>7 DEF IInv, StampsOK
  <2>9. ProcessesOK'
    BY <2>1, <2>4 DEF IInv, ProcessesOK, Tell
  <2> QED
    BY <1>1, <2>8, <2>9 DEF IInv
<1>3. CASE ~(left[p] > 0)
  <2>1. /\ UNCHANGED <<left, stamp, todo, told>> /\ at[p] = "tell" /\ todo[p] = {}
        /\ Goes(p, "close") \/ Goes(p, "running")
    BY <1>3 DEF Tell
  <2>2. left[p] = 0
    BY <1>3 DEF IInv, ProcessesOK
  <2>3. {"close", "running"} \subseteq Place \ Telling /\ "close" \notin Quiet
        /\ "close" \notin {"off", "running"} \cup Claiming
    BY DEF Place, Closing, Telling, Quiet, Sending, Claiming
  <2>4. at' \in [Proc -> Place]
    BY <2>1, <2>3 DEF IInv, ProcessesOK, Goes
  <2>5. at'[p] \in {"close", "running"} /\ \A q \in Proc : q # p => at'[q] = at[q]
    BY <2>1 DEF IInv, ProcessesOK, Goes
  <2>6. StampsOK'
    <3>1. "tell" \notin {"close", "running"}
      OBVIOUS
    <3> QED
      BY <2>1, <2>2, <2>3, <2>5, <3>1 DEF IInv, StampsOK
  <2>7. ProcessesOK'
    BY <2>1, <2>4 DEF IInv, ProcessesOK, Tell
  <2> QED
    BY <1>1, <2>6, <2>7 DEF IInv
<1> QED
  BY <1>2, <1>3

-----------------------------------------------------------------------------
\* A list of one socket replaced.
LEMMA SocketType ==
    ASSUME NEW f \in [Proc -> [Name -> Seq(Connection)]], NEW p \in Proc, NEW n \in Name,
           NEW list \in Seq(Connection)
    PROVE  [f EXCEPT ![p][n] = list] \in [Proc -> [Name -> Seq(Connection)]]
<1>1. [f[p] EXCEPT ![n] = list] \in [Name -> Seq(Connection)]
  OBVIOUS
<1> QED
  BY <1>1

LEMMA ConnectedInv == ASSUME IInv, NEW p \in Proc, Connected(p) PROVE IInv'
<1> DEFINE n == target[p]
           q == file[n]
           c == [from |-> p, open |-> at[p] # "claim_connect", msg |-> Nothing]
<1>1. n \in Name /\ q \in Proc
  BY AppInputAssumption DEF Connected, Listens, IInv, ProcessesOK
<1>2. WiresOK'
  <2>1. c \in Connection
    BY Messages DEF Connection
  <2>2. backlog[q][n] \in Seq(Connection)
    BY <1>1 DEF IInv, WiresOK
  <2>3. Append(backlog[q][n], c) \in Seq(Connection)
    BY <2>1, <2>2, AppendProperties
  <2>4. backlog' = [backlog EXCEPT ![q][n] = Append(backlog[q][n], c)] /\ UNCHANGED conns
    BY DEF Connected
  <2>5. [backlog EXCEPT ![q][n] = Append(backlog[q][n], c)] \in [Proc -> [Name -> Seq(Connection)]]
    BY <1>1, <2>3, SocketType DEF IInv, WiresOK
  <2> QED
    BY <2>4, <2>5 DEF IInv, WiresOK
<1>3. NewsOK' /\ HeardOK' /\ NewsHandledOnce'
  <2>1. UNCHANGED <<stamp_hash, heard>>
    BY DEF Connected
  <2> QED
    BY <2>1, NewsUnmoved DEF IInv
<1>4. CASE at[p] = "claim_connect"
  <2>1. ClaimNext(p) /\ at[p] \in Claiming
    BY <1>4 DEF Connected, Claiming
  <2>2. UNCHANGED <<paths, conns, todo, listed, sockets, wanted, quitting, history, taker, stops>>
    BY DEF Connected
  <2>3. /\ at' \in [Proc -> Place] /\ StampsOK'
        /\ left' \in [Proc -> 0..MaxNews] /\ told' \in 0..MaxNews
        /\ target' \in [Proc -> Name] /\ openers' \in [Proc -> SUBSET Proc]
    BY <2>1, <2>2, ClaimNextProcesses DEF IInv
  <2>4. ProcessesOK'
    BY <2>2, <2>3 DEF IInv, ProcessesOK
  <2> QED
    BY <1>2, <1>3, <2>3, <2>4 DEF IInv
<1>5. CASE at[p] # "claim_connect"
  <2>1. /\ UNCHANGED <<paths, conns, todo, listed, sockets, wanted, quitting, history, taker, stops>>
        /\ UNCHANGED <<target, left, told, openers>>
        /\ at[p] \in {"send_connect", "tell_connect"}
        /\ Instead(p, "send_write", "", "tell_write")
    BY <1>5 DEF Connected, Connecting
  <2>2. \/ at[p] = "send_connect" /\ Goes(p, "send_write")
        \/ at[p] = "tell_connect" /\ Goes(p, "tell_write")
    BY <2>1, InsteadGoes DEF Sending, Claiming
  <2>3. /\ {"send_write", "tell_write"} \subseteq Place
        /\ {"send_connect", "send_write"} \subseteq Quiet \ (Telling \cup {"off", "running"} \cup Claiming)
        /\ {"tell_connect", "tell_write"} \subseteq Telling \ (Quiet \cup {"off", "running"} \cup Claiming)
    BY DEF Place, Quiet, Sending, Claiming, Telling
  <2>4. at' \in [Proc -> Place] /\ StampsOK'
    BY <2>1, <2>2, <2>3, Going DEF IInv
  <2>5. ProcessesOK'
    BY <2>1, <2>4 DEF IInv, ProcessesOK
  <2> QED
    BY <1>2, <1>3, <2>4, <2>5 DEF IInv
<1> QED
  BY <1>4, <1>5

LEMMA EndsType ==
    ASSUME WiresOK, NEW p \in Proc, NEW msg \in Message, Ends(p, msg)
    PROVE  WiresOK'
<1>1. ASSUME NEW q \in Proc, NEW n \in Name
      PROVE  /\ Filled(p, backlog[q][n], msg) \in Seq(Connection)
             /\ Filled(p, conns[q][n], msg) \in Seq(Connection)
  BY FilledType DEF WiresOK
<1> QED
  BY <1>1 DEF Ends, WiresOK

\* What an instance broadcasts has a stamp.
LEMMA WrittenInv == ASSUME IInv, NEW p \in Proc, Written(p) PROVE IInv'
<1>1. NewsOK' /\ HeardOK' /\ NewsHandledOnce'
  <2>1. UNCHANGED <<stamp_hash, heard>>
    BY DEF Written
  <2> QED
    BY <2>1, NewsUnmoved DEF IInv
<1>2. UNCHANGED <<paths, target, todo, listed, sockets, wanted, left, told, quitting, history, openers, stops>>
  BY DEF Written
<1>3. CASE at[p] = "send_write"
  <2>1. /\ Ends(p, Files) /\ Goes(p, "sent")
        /\ taker' = [taker EXCEPT ![p] = CHOOSE q \in HasOther(p) : TRUE]
        /\ HasOther(p) # {}
    BY <1>3 DEF Written
  <2>2. WiresOK'
    BY <2>1, EndsType, Messages DEF IInv
  <2>3. (CHOOSE q \in HasOther(p) : TRUE) \in Proc
    BY <2>1 DEF HasOther
  <2>4. taker' \in [Proc -> Proc \cup {None}]
    BY <2>1, <2>3 DEF IInv, ProcessesOK
  <2>5. "sent" \in Place \ (Quiet \cup Telling \cup {"off", "running"} \cup Claiming)
    BY DEF Place, Ended, Quiet, Sending, Claiming, Telling
  <2>6. at' \in [Proc -> Place] /\ StampsOK'
    BY <1>2, <2>1, <2>5, Going DEF IInv
  <2>7. ProcessesOK'
    BY <1>2, <2>4, <2>6 DEF IInv, ProcessesOK
  <2> QED
    BY <1>1, <2>2, <2>6, <2>7 DEF IInv
<1>4. CASE at[p] # "send_write"
  <2>1. at[p] = "tell_write" /\ Ends(p, News(stamp[p])) /\ Goes(p, "tell") /\ UNCHANGED taker
    BY <1>4 DEF Written, Writing
  <2>2. stamp[p] \in 1..MaxNews
    <3>1. /\ stamp[p] >= 1 /\ stamp[p] + left[p] <= told
          /\ stamp[p] \in Nat /\ left[p] \in Nat /\ told \in 0..MaxNews
      BY <2>1 DEF IInv, StampsOK, ProcessesOK, Telling
    <3> QED
      BY <3>1, AppInputAssumption
  <2>3. WiresOK'
    BY <2>1, <2>2, EndsType, Messages DEF IInv
  <2>4. /\ "tell" \in Place \ (Quiet \cup {"off", "running"} \cup Claiming)
        /\ {"tell", "tell_write"} \subseteq Telling
    BY DEF Place, Quiet, Sending, Claiming, Telling
  <2>5. at' \in [Proc -> Place] /\ StampsOK'
    BY <1>2, <2>1, <2>4, Going DEF IInv
  <2>6. ProcessesOK'
    BY <1>2, <2>1, <2>5 DEF IInv, ProcessesOK
  <2> QED
    BY <1>1, <2>3, <2>5, <2>6 DEF IInv
<1> QED
  BY <1>3, <1>4

LEMMA AcceptInv ==
    ASSUME IInv, NEW p \in Proc, NEW n \in Name, accept_connection(p, n) PROVE IInv'
<1>1. /\ backlog[p][n] \in Seq(Connection) /\ backlog[p][n] # <<>>
      /\ conns[p][n] \in Seq(Connection)
  BY DEF accept_connection, IInv, WiresOK
<1>2. /\ Tail(backlog[p][n]) \in Seq(Connection)
      /\ Append(conns[p][n], Head(backlog[p][n])) \in Seq(Connection)
  BY <1>1, HeadTailProperties, AppendProperties
<1>3. WiresOK'
  BY <1>2, SocketType DEF accept_connection, IInv, WiresOK
<1>4. NewsOK' /\ HeardOK' /\ NewsHandledOnce'
  BY NewsUnmoved DEF accept_connection, IInv
<1>5. ProcessesOK' /\ StampsOK'
  BY DEF accept_connection, IInv, ProcessesOK, StampsOK
<1> QED
  BY <1>3, <1>4, <1>5 DEF IInv

\* News are put after those heard, all of them older when they are of the same one.
LEMMA HeardNews ==
    ASSUME NewsOK, HeardOK, NewsHandledOnce, NEW p \in Proc, NEW q \in Proc, q # p,
           NEW k \in 1..MaxNews, check_stamp(p, q, k),
           stamp_hash' = [stamp_hash EXCEPT ![p][q] = k],
           heard' = [heard EXCEPT ![p] = Append(@, <<q, k>>)]
    PROVE  NewsOK' /\ HeardOK' /\ NewsHandledOnce'
<1> DEFINE new == <<q, k>>
           last == Len(heard[p]) + 1
<1>1. heard[p] \in Seq(Proc \X (1..MaxNews)) /\ new \in Proc \X (1..MaxNews)
  BY DEF NewsOK
<1>2. /\ heard'[p] = Append(heard[p], new) /\ \A r \in Proc : r # p => heard'[r] = heard[r]
      /\ stamp_hash'[p] = [stamp_hash[p] EXCEPT ![q] = k]
      /\ \A r \in Proc : r # p => stamp_hash'[r] = stamp_hash[r]
  BY DEF NewsOK
<1>3. /\ Append(heard[p], new) \in Seq(Proc \X (1..MaxNews))
      /\ Len(heard[p]) \in Nat /\ DOMAIN heard[p] = 1..Len(heard[p])
      /\ DOMAIN heard'[p] = 1..last
      /\ heard'[p][last] = new
      /\ \A i \in 1..Len(heard[p]) : heard'[p][i] = heard[p][i]
  BY <1>1, <1>2, AppendProperties
<1>4. \A i \in 1..Len(heard[p]) : heard[p][i] \in Proc \X (1..MaxNews)
  BY <1>1
<1>5. NewsOK'
  <2>1. k \in 0..MaxNews
    BY AppInputAssumption
  <2>2. [stamp_hash[p] EXCEPT ![q] = k] \in [Proc -> 0..MaxNews]
    BY <2>1 DEF NewsOK
  <2>3. stamp_hash' \in [Proc -> [Proc -> 0..MaxNews]]
    BY <2>2 DEF NewsOK
  <2>4. heard' \in [Proc -> Seq(Proc \X (1..MaxNews))]
    BY <1>3 DEF NewsOK
  <2> QED
    BY <2>3, <2>4 DEF NewsOK
<1>6. stamp_hash[p] \in [Proc -> 0..MaxNews] /\ stamp_hash[p][q] < k
  BY DEF NewsOK, check_stamp
<1>7. \A i \in 1..Len(heard[p]) : heard[p][i][2] <= stamp_hash[p][heard[p][i][1]]
  BY <1>3 DEF HeardOK
<1>8. HeardOK'
  <2>1. ASSUME NEW i \in DOMAIN heard'[p]
        PROVE  heard'[p][i][2] <= stamp_hash'[p][heard'[p][i][1]]
    <3>1. CASE i = last
      BY <1>2, <1>3, <1>6, <3>1
    <3>2. CASE i \in 1..Len(heard[p])
      <4>1. /\ heard[p][i][1] \in Proc /\ heard[p][i][2] \in Int
            /\ heard[p][i][2] <= stamp_hash[p][heard[p][i][1]]
        BY <1>4, <1>7, <3>2
      <4>2. CASE heard[p][i][1] = q
        BY <1>2, <1>3, <1>6, <3>2, <4>1, <4>2
      <4>3. CASE heard[p][i][1] # q
        BY <1>2, <1>3, <1>6, <3>2, <4>1, <4>3
      <4> QED
        BY <4>2, <4>3
    <3> QED
      BY <1>3, <3>1, <3>2
  <2>2. ASSUME NEW r \in Proc, r # p, NEW i \in DOMAIN heard'[r]
        PROVE  heard'[r][i][2] <= stamp_hash'[r][heard'[r][i][1]]
    <3>1. heard'[r] = heard[r] /\ stamp_hash'[r] = stamp_hash[r]
      BY <1>2, <2>2
    <3> QED
      BY <2>2, <3>1 DEF HeardOK
  <2>3. \A r \in Proc : \A i \in DOMAIN heard'[r] : heard'[r][i][2] <= stamp_hash'[r][heard'[r][i][1]]
    BY <2>1, <2>2
  <2> QED
    BY <2>3 DEF HeardOK
<1>9. NewsHandledOnce'
  <2>1. ASSUME NEW i \in DOMAIN heard'[p], NEW j \in DOMAIN heard'[p]
        PROVE  /\ heard'[p][i][1] # p
               /\ i < j /\ heard'[p][i][1] = heard'[p][j][1] => heard'[p][i][2] < heard'[p][j][2]
    <3>1. CASE i \in 1..Len(heard[p]) /\ j \in 1..Len(heard[p])
      BY <1>3, <3>1 DEF NewsHandledOnce
    <3>2. CASE i = last
      BY <1>3, <3>2
    <3>3. CASE i \in 1..Len(heard[p]) /\ j = last
      <4>1. heard[p][i][1] # p
        BY <1>3, <3>3 DEF NewsHandledOnce
      <4>2. heard[p][i][2] \in Int /\ heard[p][i][2] <= stamp_hash[p][heard[p][i][1]]
        BY <1>4, <1>7, <3>3
      <4>3. ASSUME heard[p][i][1] = q PROVE heard[p][i][2] < k
        BY <1>6, <4>2, <4>3
      <4> QED
        BY <1>3, <3>3, <4>1, <4>3
    <3> QED
      BY <1>3, <3>1, <3>2, <3>3
  <2> QED
    BY <1>2, <2>1 DEF NewsHandledOnce
<1> QED
  BY <1>5, <1>8, <1>9

LEMMA ReadInv ==
    ASSUME IInv, NEW p \in Proc, NEW n \in Name, read_input(p, n) PROVE IInv'
<1>1. PICK i \in DOMAIN conns[p][n] :
          LET c == conns[p][n][i] IN
          /\ conns' = [conns EXCEPT ![p][n] = Removed(@, i)]
          /\ \/ /\ c.msg = Files
                /\ openers' = [openers EXCEPT ![c.from] = @ \cup {p}]
                /\ Goes(p, "tell")
                /\ \E k \in 0..MaxBurst : Burst(p, k)
                /\ UNCHANGED <<stamp_hash, heard>>
             \/ /\ c.msg.kind = "news" /\ c.from # p /\ check_stamp(p, c.from, c.msg.n)
                /\ stamp_hash' = [stamp_hash EXCEPT ![p][c.from] = c.msg.n]
                /\ heard' = [heard EXCEPT ![p] = Append(@, <<c.from, c.msg.n>>)]
                /\ UNCHANGED <<at, left, told, openers>>
             \/ UNCHANGED <<at, left, told, openers, stamp_hash, heard>>
  BY DEF read_input
<1>2. UNCHANGED <<paths, backlog, target, todo, listed, sockets, wanted, quitting, stamp, taker, stops>>
  BY DEF read_input
<1>3. conns[p][n] \in Seq(Connection)
  BY DEF IInv, WiresOK
<1> DEFINE c == conns[p][n][i]
<1>4. c \in Connection
  <2>1. PICK list \in Seq(Connection) : list = conns[p][n]
    BY <1>3
  <2>2. i \in DOMAIN list
    BY <1>1, <2>1
  <2> QED  BY <2>1, <2>2, ElementOfSeq
<1>5. c.from \in Proc /\ c.msg \in Message
  BY <1>4 DEF Connection
<1>6. WiresOK'
  <2>1. Removed(conns[p][n], i) \in Seq(Connection)
    BY <1>3, RemovedType
  <2>2. [conns EXCEPT ![p][n] = Removed(conns[p][n], i)] \in [Proc -> [Name -> Seq(Connection)]]
    BY <2>1, SocketType DEF IInv, WiresOK
  <2> QED
    BY <1>1, <1>2, <2>2 DEF IInv, WiresOK
<1>7. CASE /\ openers' = [openers EXCEPT ![c.from] = @ \cup {p}]
           /\ Goes(p, "tell")
           /\ \E k \in 0..MaxBurst : Burst(p, k)
           /\ UNCHANGED <<stamp_hash, heard>>
  <2>1. NewsOK' /\ HeardOK' /\ NewsHandledOnce'
    BY <1>7, NewsUnmoved DEF IInv
  <2>2. PICK k \in 0..MaxBurst : Burst(p, k)
    BY <1>7
  <2>3. at[p] \in Quiet /\ todo[p] = {}
    BY DEF IInv, read_input, StampsOK, Quiet
  <2>4. /\ at' \in [Proc -> Place] /\ StampsOK'
        /\ left' \in [Proc -> 0..MaxNews] /\ told' \in 0..MaxNews
    BY <1>2, <1>7, <2>2, <2>3, Bursting DEF IInv
  <2>5. openers' \in [Proc -> SUBSET Proc]
    BY <1>5, <1>7 DEF IInv, ProcessesOK
  <2>6. ProcessesOK'
    BY <1>2, <2>4, <2>5 DEF IInv, ProcessesOK
  <2> QED
    BY <1>6, <2>1, <2>4, <2>6 DEF IInv
<1>8. CASE UNCHANGED <<at, left, told, openers>>
  <2>1. CASE UNCHANGED <<stamp_hash, heard>>
    BY <2>1, NewsUnmoved, <1>6, <1>8, <1>2 DEF IInv, ProcessesOK, StampsOK
  <2>2. CASE /\ c.msg.kind = "news" /\ c.from # p /\ check_stamp(p, c.from, c.msg.n)
             /\ stamp_hash' = [stamp_hash EXCEPT ![p][c.from] = c.msg.n]
             /\ heard' = [heard EXCEPT ![p] = Append(@, <<c.from, c.msg.n>>)]
    <3>1. c.msg.n \in 1..MaxNews
      BY <1>5, <2>2, Messages
    <3>2. NewsOK' /\ HeardOK' /\ NewsHandledOnce'
      BY <1>5, <2>2, <3>1, HeardNews DEF IInv
    <3>3. ProcessesOK' /\ StampsOK'
      BY <1>2, <1>8 DEF IInv, ProcessesOK, StampsOK
    <3> QED
      BY <1>6, <3>2, <3>3 DEF IInv
  <2> QED
    BY <1>1, <1>7, <2>1, <2>2
<1> QED
  BY <1>1, <1>7, <1>8
-----------------------------------------------------------------------------
LEMMA ShutdownInv == ASSUME IInv, NEW p \in Proc, Shutdown(p) PROVE IInv'
<1>1. NewsOK' /\ HeardOK' /\ NewsHandledOnce'
  <2>1. UNCHANGED <<stamp_hash, heard>>
    BY DEF Shutdown
  <2> QED
    BY <2>1, NewsUnmoved DEF IInv
<1>2. /\ UNCHANGED <<paths, todo, listed, wanted, left, told, quitting, history, files, stops>>
      /\ at[p] = "close"
  BY DEF Shutdown
<1>3. /\ {"quit", "close_unlink"} \subseteq Place
      /\ \A x \in {"quit", "close_unlink"} : x \notin Quiet \cup Telling \cup {"off", "running"} \cup Claiming
  BY DEF Place, Ended, Closing, Quiet, Sending, Claiming, Telling
<1>4. CASE sockets[p] = {}
  <2>1. Goes(p, "quit") /\ UNCHANGED <<wires, target, sockets>>
    BY <1>4 DEF Shutdown
  <2> QED
    BY <1>2, <1>3, <2>1, OnlyGoes DEF IInv, ProcessesOK
<1>5. CASE sockets[p] # {}
  <2> DEFINE n == IF Main \in sockets[p] THEN Main ELSE p
  <2>1. /\ sockets' = [sockets EXCEPT ![p] = @ \ {n}]
        /\ backlog' = [backlog EXCEPT ![p][n] = <<>>]
        /\ conns' = [conns EXCEPT ![p][n] = <<>>]
        /\ target' = [target EXCEPT ![p] = n]
        /\ Goes(p, "close_unlink")
    BY <1>5 DEF Shutdown
  <2>2. n \in Name /\ <<>> \in Seq(Connection)
    BY EmptySeq DEF Name
  <2>3. WiresOK'
    <3>1. /\ [backlog EXCEPT ![p][n] = <<>>] \in [Proc -> [Name -> Seq(Connection)]]
          /\ [conns EXCEPT ![p][n] = <<>>] \in [Proc -> [Name -> Seq(Connection)]]
      BY <2>2, SocketType DEF IInv, WiresOK
    <3> QED
      BY <2>1, <3>1 DEF WiresOK
  <2>4. at' \in [Proc -> Place] /\ StampsOK'
    BY <1>2, <1>3, <2>1, Going DEF IInv
  <2>5. sockets' \in [Proc -> SUBSET Name] /\ target' \in [Proc -> Name]
    <3>1. sockets \in [Proc -> SUBSET Name] /\ target \in [Proc -> Name] /\ sockets[p] \ {n} \subseteq Name
      BY DEF IInv, ProcessesOK
    <3> QED
      BY <2>1, <2>2, <3>1
  <2>6. ProcessesOK'
    BY <1>2, <2>4, <2>5 DEF IInv, ProcessesOK
  <2> QED
    BY <1>1, <2>3, <2>4, <2>6 DEF IInv
<1> QED
  BY <1>4, <1>5

LEMMA DiesKeeps ==
    ASSUME IInv, NEW p \in Proc, Dies(p)
    PROVE  /\ WiresOK' /\ NewsOK' /\ HeardOK' /\ NewsHandledOnce' /\ StampsOK'
           /\ at' \in [Proc -> Place] /\ sockets' \in [Proc -> SUBSET Name]
<1>1. NewsOK' /\ HeardOK' /\ NewsHandledOnce'
  <2>1. UNCHANGED <<stamp_hash, heard>>
    BY DEF Dies
  <2> QED
    BY <2>1, NewsUnmoved DEF IInv
<1>2. WiresOK'
  <2>1. ASSUME NEW q \in Proc, NEW n \in Name
        PROVE  /\ (IF q = p THEN <<>> ELSE Filled(p, backlog[q][n], Nothing)) \in Seq(Connection)
               /\ (IF q = p THEN <<>> ELSE Filled(p, conns[q][n], Nothing)) \in Seq(Connection)
    BY EmptySeq, FilledType, Messages DEF IInv, WiresOK
  <2> QED
    BY <2>1 DEF Dies, WiresOK
<1>3. "killed" \in Place \ (Quiet \cup Telling \cup {"off", "running"} \cup Claiming)
  BY DEF Place, Ended, Quiet, Sending, Claiming, Telling
<1>4. at' \in [Proc -> Place] /\ StampsOK'
  <2>1. Goes(p, "killed") /\ UNCHANGED <<left, stamp, told, todo>>
    BY DEF Dies
  <2> QED
    BY <1>3, <2>1, Going DEF IInv
<1>5. sockets' \in [Proc -> SUBSET Name]
  BY DEF Dies, IInv, ProcessesOK
<1> QED
  BY <1>1, <1>2, <1>4, <1>5

LEMMA KilledInv ==
    ASSUME IInv, NEW p \in Proc, Killed(p) \/ KilledWriting(p) PROVE IInv'
<1>1. Dies(p) /\ stops' \in 0..MaxStops
  BY AppInputAssumption DEF Killed, KilledWriting, IInv, ProcessesOK
<1>2. ProcessesOK'
  BY <1>1, DiesKeeps DEF Dies, IInv, ProcessesOK
<1> QED
  BY <1>1, <1>2, DiesKeeps DEF IInv

LEMMA NextInv == ASSUME IInv, [Next]_vars PROVE IInv'
<1>1. CASE UNCHANGED vars
  BY <1>1 DEF IInv, vars, WiresOK, NewsOK, ProcessesOK, StampsOK, HeardOK, NewsHandledOnce
<1>2. ASSUME NEW p \in Proc, Step(p) PROVE IInv'
  BY <1>2, TrySendInv, NobodyTookItInv, ConnectedInv, RefusedInv, UnlinkedInv, WrittenInv,
     NotWrittenInv, ClaimInv, BoundInv, ListenInv, TellInv, ShutdownInv, ShutdownUnlinkInv,
     ShutdownRmdirInv DEF Step
<1>3. ASSUME NEW p \in Proc, MainLoop(p) PROVE IInv'
  BY <1>3, AcceptInv, ReadInv DEF MainLoop
<1>4. ASSUME NEW p \in Proc, Start(p) \/ Visit(p) \/ Quit(p) \/ Killed(p) \/ KilledWriting(p)
      PROVE  IInv'
  BY <1>4, StartInv, VisitInv, QuitInv, KilledInv
<1> QED
  BY <1>1, <1>2, <1>3, <1>4 DEF Next

LEMMA Invariant == Spec => []IInv
BY InitInv, NextInv, PTL DEF Spec

(***************************************************************************)
(* Every state of the program is one of those TypeOK describes: what waits *)
(* on a socket is a whole message or nothing, and the stamp of a broadcast *)
(* is one of those there were.                                             *)
(***************************************************************************)
THEOREM AppInputTypeCorrect == Spec => []TypeOK
<1>1. IInv => TypeOK
  BY TypeParts DEF IInv
<1> QED
  BY <1>1, Invariant, PTL

(***************************************************************************)
(* _moo_ipc_dispatch() handles a broadcast once at most, and those of one  *)
(* instance in the order they were made, however many there are, whatever  *)
(* order their connections are read in and whoever dies meanwhile: what an *)
(* instance handled is never newer than the stamp it keeps.                *)
(***************************************************************************)
THEOREM NewsAreHandledOnce == Spec => []NewsHandledOnce
<1>1. IInv => NewsHandledOnce
  BY DEF IInv
<1> QED
  BY <1>1, Invariant, PTL

-----------------------------------------------------------------------------
(* What is on the way to an instance *)

\* What was sent to each socket and is not read yet, accepted connections first.
Lines == [q \in Proc |-> [n \in Name |-> conns[q][n] \o backlog[q][n]]]

\* A connection that its other end may still write to, or that carries its files.
Live(c) == c.open \/ c.msg = Files

Spots(s) == {i \in DOMAIN s : Live(s[i])}

\* What is live in t was so in s, each in a place of its own.
Thins(s, t) == \E f \in [Spots(t) -> Spots(s)] : \A i \in Spots(t) :
    /\ t[i].from = s[f[i]].from
    /\ \A j \in Spots(t) : f[i] = f[j] => i = j

Elems(s) == {s[i] : i \in DOMAIN s}

LEMMA JoinIs ==
    ASSUME NEW a \in Seq(Connection), NEW b \in Seq(Connection)
    PROVE  /\ a \o b \in Seq(Connection) /\ Len(a \o b) = Len(a) + Len(b)
           /\ Len(a) \in Nat /\ Len(b) \in Nat
           /\ \A i \in 1 .. Len(a) : (a \o b)[i] = a[i]
           /\ \A i \in 1 .. Len(b) : (a \o b)[Len(a) + i] = b[i]
           /\ Elems(a \o b) = Elems(a) \cup Elems(b)
<1> DEFINE s == a \o b
<1>1. /\ s \in Seq(Connection) /\ Len(s) = Len(a) + Len(b)
      /\ \A i \in 1 .. Len(a) + Len(b) : s[i] = IF i <= Len(a) THEN a[i] ELSE b[i - Len(a)]
  BY ConcatProperties
<1>2. Len(a) \in Nat /\ Len(b) \in Nat
  OBVIOUS
<1> HIDE DEF s
<1>3. \A i \in 1 .. Len(a) : s[i] = a[i] /\ i \in 1 .. Len(s)
  BY <1>1, <1>2
<1>4. \A i \in 1 .. Len(b) : s[Len(a) + i] = b[i] /\ Len(a) + i \in 1 .. Len(s)
  BY <1>1, <1>2
<1>5. \A i \in 1 .. Len(s) : (i \in 1 .. Len(a) /\ s[i] = a[i])
                             \/ (i - Len(a) \in 1 .. Len(b) /\ s[i] = b[i - Len(a)])
  BY <1>1, <1>2
<1>6. DOMAIN s = 1 .. Len(s) /\ DOMAIN a = 1 .. Len(a) /\ DOMAIN b = 1 .. Len(b)
  BY <1>1
<1>7. Elems(s) = Elems(a) \cup Elems(b)
  <2>1. ASSUME NEW i \in DOMAIN s PROVE s[i] \in Elems(a) \cup Elems(b)
    BY <1>5, <1>6 DEF Elems
  <2>2. ASSUME NEW i \in DOMAIN a PROVE a[i] \in Elems(s)
    BY <1>3, <1>6 DEF Elems
  <2>3. ASSUME NEW i \in DOMAIN b PROVE b[i] \in Elems(s)
    BY <1>4, <1>6 DEF Elems
  <2>4. Elems(s) \subseteq Elems(a) \cup Elems(b)
    BY <2>1, Zenon DEF Elems
  <2>5. Elems(a) \subseteq Elems(s) /\ Elems(b) \subseteq Elems(s)
    BY <2>2, <2>3, Zenon DEF Elems
  <2> QED  BY <2>4, <2>5
<1> QED
  BY <1>1, <1>2, <1>3, <1>4, <1>7 DEF s

\* What is accepted is not moved past anything.
LEMMA AcceptJoins ==
    ASSUME NEW a \in Seq(Connection), NEW b \in Seq(Connection), b # <<>>
    PROVE  Append(a, Head(b)) \o Tail(b) = a \o b
<1>1. /\ Head(b) \in Connection /\ Tail(b) \in Seq(Connection)
      /\ <<Head(b)>> \in Seq(Connection) /\ <<Head(b)>> \o Tail(b) = b
  BY HeadTailProperties, ConcatProperties
<1>2. Append(a, Head(b)) = a \o <<Head(b)>>
  BY <1>1, AppendIsConcat
<1>3. (a \o <<Head(b)>>) \o Tail(b) = a \o (<<Head(b)>> \o Tail(b))
  BY <1>1, ConcatAssociative
<1> QED
  BY <1>1, <1>2, <1>3

LEMMA AppendJoins ==
    ASSUME NEW a \in Seq(Connection), NEW b \in Seq(Connection), NEW c \in Connection
    PROVE  a \o Append(b, c) = Append(a \o b, c)
<1>1. <<c>> \in Seq(Connection) /\ Append(b, c) = b \o <<c>>
  BY AppendIsConcat
<1>2. a \o b \in Seq(Connection)
  BY JoinIs
<1>3. Append(a \o b, c) = (a \o b) \o <<c>>
  BY <1>2, AppendIsConcat
<1> QED
  BY <1>1, <1>3, ConcatAssociative

\* What a connection is when `p' has written to it, or closed it.
After(p, c, msg) == IF c.from = p /\ c.open THEN [c EXCEPT !.open = FALSE, !.msg = msg] ELSE c

LEMMA FilledIs ==
    ASSUME NEW p \in Proc, NEW s \in Seq(Connection), NEW msg \in Message
    PROVE  /\ Filled(p, s, msg) \in Seq(Connection) /\ Len(Filled(p, s, msg)) = Len(s)
           /\ \A i \in 1 .. Len(s) : Filled(p, s, msg)[i] = After(p, s[i], msg)
<1>1. PICK f \in Seq(Connection) : f = Filled(p, s, msg)
  BY FilledType
<1>2. DOMAIN f = DOMAIN s /\ \A i \in DOMAIN s : f[i] = After(p, s[i], msg)
  BY <1>1 DEF Filled, Mine, After
<1>3. Len(f) \in Nat /\ Len(s) \in Nat /\ DOMAIN f = 1 .. Len(f) /\ DOMAIN s = 1 .. Len(s)
  BY LenProperties
<1>4. \A m, n \in Nat : 1 .. m = 1 .. n => m = n
  <2>1. ASSUME NEW m \in Nat, NEW n \in Nat, m < n PROVE n \in 1 .. n /\ n \notin 1 .. m
    BY <2>1
  <2> QED  BY <2>1
<1> QED
  BY <1>1, <1>2, <1>3, <1>4

LEMMA FillJoins ==
    ASSUME NEW p \in Proc, NEW a \in Seq(Connection), NEW b \in Seq(Connection), NEW msg \in Message
    PROVE  Filled(p, a, msg) \o Filled(p, b, msg) = Filled(p, a \o b, msg)
<1>1. PICK fa \in Seq(Connection) : fa = Filled(p, a, msg)
  BY FilledType
<1>2. PICK fb \in Seq(Connection) : fb = Filled(p, b, msg)
  BY FilledType
<1>3. PICK s \in Seq(Connection) : s = a \o b
  BY JoinIs
<1>4. PICK fs \in Seq(Connection) : fs = Filled(p, s, msg)
  BY FilledType
<1>5. PICK t \in Seq(Connection) : t = fa \o fb
  BY JoinIs
<1>6. /\ Len(a) \in Nat /\ Len(b) \in Nat /\ Len(s) = Len(a) + Len(b)
      /\ \A i \in 1 .. Len(a) : s[i] = a[i]
      /\ \A i \in 1 .. Len(b) : s[Len(a) + i] = b[i]
  BY <1>3, JoinIs
<1>7. Len(fa) = Len(a) /\ \A i \in 1 .. Len(a) : fa[i] = After(p, a[i], msg)
  BY <1>1, FilledIs
<1>8. Len(fb) = Len(b) /\ \A i \in 1 .. Len(b) : fb[i] = After(p, b[i], msg)
  BY <1>2, FilledIs
<1>9. Len(fs) = Len(s) /\ \A i \in 1 .. Len(s) : fs[i] = After(p, s[i], msg)
  BY <1>4, FilledIs
<1>10. /\ Len(t) = Len(fa) + Len(fb)
       /\ \A i \in 1 .. Len(fa) : t[i] = fa[i]
       /\ \A i \in 1 .. Len(fb) : t[Len(fa) + i] = fb[i]
  BY <1>5, JoinIs
<1>11. \A i \in 1 .. Len(s) : i \in 1 .. Len(a) \/ \E j \in 1 .. Len(b) : i = Len(a) + j
  <2>1. \A i \in 1 .. Len(s) : i \in 1 .. Len(a) \/ (i - Len(a) \in 1 .. Len(b) /\ i = Len(a) + (i - Len(a)))
    BY <1>6
  <2> QED  BY <2>1
<1>12. \A i \in 1 .. Len(s) : t[i] = fs[i]
  <2>1. ASSUME NEW i \in 1 .. Len(a) PROVE t[i] = After(p, s[i], msg)
    BY <1>6, <1>7, <1>10
  <2>2. ASSUME NEW j \in 1 .. Len(b) PROVE t[Len(a) + j] = After(p, s[Len(a) + j], msg)
    BY <1>6, <1>7, <1>8, <1>10
  <2> QED  BY <1>9, <1>11, <2>1, <2>2
<1>13. Len(t) = Len(s)
  BY <1>6, <1>7, <1>8, <1>10
<1>14. t = fs
  BY <1>9, <1>12, <1>13, SeqEqual
<1> QED
  BY <1>1, <1>2, <1>3, <1>4, <1>5, <1>14

LEMMA ThinsSelf == ASSUME NEW s PROVE Thins(s, s)
<1>1. [i \in Spots(s) |-> i] \in [Spots(s) -> Spots(s)]
  OBVIOUS
<1> QED
  BY <1>1 DEF Thins

LEMMA ThinsEmpty ==
    ASSUME NEW s
    PROVE  Thins(s, <<>>) /\ Elems(<<>>) = {}
<1>1. DOMAIN <<>> = {}
  OBVIOUS
<1>2. Spots(<<>>) = {} /\ Elems(<<>>) = {}
  BY <1>1 DEF Spots, Elems
<1>3. [i \in {} |-> i] \in [{} -> Spots(s)]
  OBVIOUS
<1> QED
  BY <1>2, <1>3 DEF Thins

LEMMA ThinsFilled ==
    ASSUME NEW p \in Proc, NEW s \in Seq(Connection), NEW msg \in Message
    PROVE  /\ Thins(s, Filled(p, s, msg))
           /\ Elems(Filled(p, s, msg)) = {After(p, c, msg) : c \in Elems(s)}
<1>1. PICK t \in Seq(Connection) : t = Filled(p, s, msg)
  BY FilledType
<1>2. DOMAIN t = DOMAIN s /\ \A i \in DOMAIN s : t[i] = After(p, s[i], msg) /\ s[i] \in Connection
  BY <1>1, FilledIs
<1>3. \A i \in DOMAIN s : t[i].from = s[i].from /\ (Live(t[i]) => Live(s[i]))
  BY <1>2 DEF After, Live, Connection
<1>4. Spots(t) \subseteq Spots(s)
  BY <1>2, <1>3 DEF Spots
<1>5. [i \in Spots(t) |-> i] \in [Spots(t) -> Spots(s)]
  BY <1>4
<1>6. Thins(s, t)
  BY <1>2, <1>3, <1>5 DEF Thins, Spots
<1>7. Elems(t) = {After(p, c, msg) : c \in Elems(s)}
  <2>1. ASSUME NEW i \in DOMAIN t PROVE t[i] \in {After(p, c, msg) : c \in Elems(s)}
    BY <1>2, Zenon DEF Elems
  <2>2. ASSUME NEW i \in DOMAIN s PROVE After(p, s[i], msg) \in Elems(t)
    BY <1>2, Zenon DEF Elems
  <2>3. Elems(t) \subseteq {After(p, c, msg) : c \in Elems(s)}
    BY <2>1, Zenon DEF Elems
  <2>4. {After(p, c, msg) : c \in Elems(s)} \subseteq Elems(t)
    BY <2>2, Zenon DEF Elems
  <2> QED  BY <2>3, <2>4
<1> QED
  BY <1>1, <1>6, <1>7

LEMMA Appended ==
    ASSUME NEW s \in Seq(Connection), NEW c \in Connection
    PROVE  /\ Elems(Append(s, c)) = Elems(s) \cup {c}
           /\ ~Live(c) => Thins(s, Append(s, c))
           /\ Spots(s) = {i \in Spots(Append(s, c)) : i # Len(s) + 1}
           /\ \A i \in Spots(s) : Append(s, c)[i] = s[i]
           /\ Append(s, c)[Len(s) + 1] = c
<1>1. PICK t \in Seq(Connection) : t = Append(s, c)
  BY AppendProperties
<1>2. /\ Len(t) = Len(s) + 1 /\ Len(s) \in Nat /\ t[Len(s) + 1] = c
      /\ \A i \in 1 .. Len(s) : t[i] = s[i]
  BY <1>1, AppendProperties
<1>3. /\ DOMAIN s = 1 .. Len(s) /\ DOMAIN t = 1 .. Len(s) + 1
      /\ \A i \in DOMAIN t : i = Len(s) + 1 \/ i \in DOMAIN s
      /\ \A i \in DOMAIN s : i \in DOMAIN t /\ i # Len(s) + 1 /\ t[i] = s[i]
      /\ Len(s) + 1 \in DOMAIN t
  BY <1>2
<1> DEFINE last == Len(s) + 1
<1>4. t[last] = c /\ last \in DOMAIN t
      /\ (\A i \in DOMAIN t : i = last \/ i \in DOMAIN s)
      /\ (\A i \in DOMAIN s : i \in DOMAIN t /\ i # last /\ t[i] = s[i])
  BY <1>2, <1>3
<1> HIDE DEF last
<1>5. Elems(t) = Elems(s) \cup {c}
  <2>1. ASSUME NEW i \in DOMAIN t PROVE t[i] \in Elems(s) \cup {c}
    BY <1>4 DEF Elems
  <2>2. ASSUME NEW i \in DOMAIN s PROVE s[i] \in Elems(t)
    BY <1>4 DEF Elems
  <2>3. c \in Elems(t)
    BY <1>4 DEF Elems
  <2>4. Elems(t) \subseteq Elems(s) \cup {c}
    BY <2>1, Zenon DEF Elems
  <2>5. Elems(s) \subseteq Elems(t)
    BY <2>2, Zenon DEF Elems
  <2> QED  BY <2>3, <2>4, <2>5
<1>6. Spots(s) = {i \in Spots(t) : i # last}
  BY <1>4 DEF Spots
<1>7. ASSUME ~Live(c) PROVE Thins(s, t)
  <2>1. Spots(t) = Spots(s)
    BY <1>4, <1>7 DEF Spots
  <2>2. [i \in Spots(t) |-> i] \in [Spots(t) -> Spots(s)]
    BY <2>1
  <2>3. \A i \in Spots(t) : t[i] = s[i]
    BY <1>4, <2>1 DEF Spots
  <2> QED  BY <2>2, <2>3 DEF Thins
<1>8. \A i \in Spots(s) : t[i] = s[i]
  BY <1>4 DEF Spots
<1> QED
  BY <1>1, <1>4, <1>5, <1>6, <1>7, <1>8 DEF last

LEMMA Shifted ==
    ASSUME NEW i \in Int, NEW m \in Int, NEW k \in i .. m - 1
    PROVE  k - i + 1 \in 1 .. m - i /\ (i - 1) + (k - i + 1) = k /\ i + (k - i + 1) = k + 1
OBVIOUS

\* What is live in t is what was live in s, but for the place i.
Skips(s, i, t) == \E f \in [Spots(t) -> Spots(s) \ {i}] : \A j \in Spots(t) : t[j] = s[f[j]]

LEMMA ReadFrom ==
    ASSUME NEW a \in Seq(Connection), NEW b \in Seq(Connection), NEW i \in DOMAIN a
    PROVE  /\ Thins(a \o b, Removed(a, i) \o b)
           /\ Elems(Removed(a, i) \o b) \subseteq Elems(a \o b)
           /\ Elems(a \o b) \subseteq Elems(Removed(a, i) \o b) \cup {a[i]}
           /\ Live(a[i]) => Skips(a \o b, i, Removed(a, i) \o b)
<1>1. PICK m \in Nat, n \in Nat : m = Len(a) /\ n = Len(b)
  OBVIOUS
<1>2. /\ i \in 1 .. m /\ m \in Nat /\ n \in Nat /\ 1 \in Int /\ m \in Int
      /\ i - 1 \in Int /\ i + 1 \in Int
      /\ \A k \in 1 .. m : a[k] \in Connection
  BY <1>1
<1>0. i \in Int /\ m \in Int /\ n \in Int /\ 1 <= i /\ i <= m /\ 0 <= n
  BY <1>2
<1>3. PICK h \in Seq(Connection) : h = SubSeq(a, 1, i - 1)
  <2>1. \A k \in 1 .. i - 1 : a[k] \in Connection
    BY <1>2
  <2> QED  BY <1>2, <2>1, SubSeqProperties
<1>4. PICK g \in Seq(Connection) : g = SubSeq(a, i + 1, m)
  <2>1. \A k \in i + 1 .. m : a[k] \in Connection
    BY <1>2
  <2> QED  BY <1>2, <2>1, SubSeqProperties
<1>5. Len(h) = i - 1 /\ \A k \in 1 .. i - 1 : h[k] = a[k]
  <2>1. \A k \in 1 .. i - 1 : a[k] \in Connection
    BY <1>2
  <2>2. /\ Len(h) = (IF 1 <= i - 1 THEN i - 1 - 1 + 1 ELSE 0)
        /\ \A k \in 1 .. i - 1 - 1 + 1 : h[k] = a[1 + k - 1]
    BY <1>2, <1>3, <2>1, SubSeqProperties
  <2> QED  BY <1>2, <2>2
<1>6. Len(g) = m - i /\ \A k \in 1 .. m - i : g[k] = a[i + k]
  <2>1. \A k \in i + 1 .. m : a[k] \in Connection
    BY <1>2
  <2>2. PICK low \in Int : low = i + 1
    BY <1>2
  <2>3. g = SubSeq(a, low, m) /\ \A k \in low .. m : a[k] \in Connection
    BY <1>4, <2>1, <2>2
  <2>4. /\ Len(g) = (IF low <= m THEN m - low + 1 ELSE 0)
        /\ \A k \in 1 .. m - low + 1 : g[k] = a[low + k - 1]
    <3>1. low \in Int /\ m \in Int /\ \A k \in low .. m : a[k] \in Connection
      BY <1>0, <2>2, <2>3
    <3>2. /\ Len(SubSeq(a, low, m)) = (IF low <= m THEN m - low + 1 ELSE 0)
          /\ \A k \in 1 .. m - low + 1 : SubSeq(a, low, m)[k] = a[low + k - 1]
      BY <3>1, SubSeqProperties
    <3> QED  BY <2>3, <3>2, Zenon
  <2>5. Len(g) = m - i /\ m - low + 1 = m - i
    BY <1>0, <2>2, <2>4
  <2>6. \A k \in 1 .. m - i : low + k - 1 = i + k
    BY <1>0, <2>2
  <2> QED  BY <2>4, <2>5, <2>6
<1>7. PICK r \in Seq(Connection) : r = h \o g
  BY JoinIs
<1>8. /\ Len(r) = m - 1
      /\ \A k \in 1 .. i - 1 : r[k] = a[k]
      /\ \A k \in 1 .. m - i : r[(i - 1) + k] = a[i + k]
  <2>1. /\ Len(r) = Len(h) + Len(g)
        /\ \A k \in 1 .. Len(h) : r[k] = h[k]
        /\ \A k \in 1 .. Len(g) : r[Len(h) + k] = g[k]
    BY <1>7, JoinIs
  <2>2. /\ Len(r) = (i - 1) + (m - i)
        /\ \A k \in 1 .. i - 1 : r[k] = h[k]
        /\ \A k \in 1 .. m - i : r[(i - 1) + k] = g[k]
    BY <1>5, <1>6, <2>1
  <2>3. (i - 1) + (m - i) = m - 1
    BY <1>0
  <2> QED  BY <1>5, <1>6, <2>2, <2>3
<1>9. PICK s \in Seq(Connection) : s = a \o b
  BY JoinIs
<1>10. PICK t \in Seq(Connection) : t = r \o b
  BY JoinIs
<1>11. /\ Len(s) = m + n /\ Len(t) = m - 1 + n
       /\ \A k \in 1 .. m : s[k] = a[k]
       /\ \A k \in 1 .. n : s[m + k] = b[k]
       /\ \A k \in 1 .. m - 1 : t[k] = r[k]
       /\ \A k \in 1 .. n : t[m - 1 + k] = b[k]
  <2>1. /\ Len(s) = Len(a) + Len(b) /\ Len(t) = Len(r) + Len(b)
        /\ \A k \in 1 .. Len(a) : s[k] = a[k]
        /\ \A k \in 1 .. Len(b) : s[Len(a) + k] = b[k]
        /\ \A k \in 1 .. Len(r) : t[k] = r[k]
        /\ \A k \in 1 .. Len(b) : t[Len(r) + k] = b[k]
    BY <1>9, <1>10, JoinIs
  <2>2. Len(a) = m /\ Len(b) = n /\ Len(r) = m - 1
    BY <1>1, <1>8
  <2> QED  BY <2>1, <2>2
<1>12. \A k \in 1 .. i - 1 : t[k] = s[k]
  BY <1>2, <1>8, <1>11, SMTT(90)
<1>13. \A k \in i .. m - 1 + n : t[k] = s[k + 1]
  <2>1. ASSUME NEW k \in i .. m - 1 PROVE t[k] = s[k + 1]
    <3>1. k - i + 1 \in 1 .. m - i /\ (i - 1) + (k - i + 1) = k /\ i + (k - i + 1) = k + 1
      BY <1>0, Shifted
    <3>2. r[k] = a[k + 1]
      BY <1>8, <3>1
    <3> QED  BY <1>0, <1>11, <3>2
  <2>2. ASSUME NEW k \in m .. m - 1 + n PROVE t[k] = s[k + 1]
    <3>1. PICK j \in 1 .. n : m - 1 + j = k /\ m + j = k + 1
      <4>1. k - m + 1 \in 1 .. n /\ m - 1 + (k - m + 1) = k /\ m + (k - m + 1) = k + 1
        BY <1>0
      <4> QED  BY <4>1
    <3>2. t[m - 1 + j] = b[j] /\ s[m + j] = b[j]
      BY <1>11
    <3> QED  BY <3>1, <3>2
  <2> QED  BY <1>0, <2>1, <2>2
<1> DEFINE f == [k \in Spots(t) |-> IF k < i THEN k ELSE k + 1]
<1>14. DOMAIN t = 1 .. m - 1 + n /\ DOMAIN s = 1 .. m + n
  BY <1>11
<1>15. \A k \in DOMAIN t : LET e == IF k < i THEN k ELSE k + 1 IN
           e \in DOMAIN s /\ e # i /\ t[k] = s[e]
  <2>1. ASSUME NEW k \in DOMAIN t, k < i PROVE k \in DOMAIN s /\ k # i /\ t[k] = s[k]
    <3>1. k \in 1 .. i - 1 /\ k \in 1 .. m + n
      BY <1>0, <1>14, <2>1
    <3> QED  BY <1>12, <1>14, <2>1, <3>1
  <2>2. ASSUME NEW k \in DOMAIN t, ~(k < i) PROVE k + 1 \in DOMAIN s /\ k + 1 # i /\ t[k] = s[k + 1]
    <3>1. k \in i .. m - 1 + n /\ k + 1 \in 1 .. m + n /\ k + 1 # i
      BY <1>0, <1>14, <2>2
    <3> QED  BY <1>13, <1>14, <3>1
  <2> QED  BY <2>1, <2>2
<1>16. f \in [Spots(t) -> Spots(s) \ {i}] /\ \A k \in Spots(t) : t[k] = s[f[k]]
  BY <1>15 DEF Spots
<1>17. \A k, l \in Spots(t) : f[k] = f[l] => k = l
  BY <1>0, <1>14 DEF Spots
<1>18. Thins(s, t)
  <2>1. f \in [Spots(t) -> Spots(s)]
    BY <1>16
  <2> HIDE DEF f
  <2> QED  BY <1>16, <1>17, <2>1 DEF Thins
<1>19. Elems(t) \subseteq Elems(s)
  BY <1>15 DEF Elems
<1>20. Elems(s) \subseteq Elems(t) \cup {a[i]}
  <2>1. ASSUME NEW k \in DOMAIN s, k # i PROVE \E l \in DOMAIN t : t[l] = s[k]
    <3>1. CASE k < i
      <4>1. k \in 1 .. i - 1 /\ k \in DOMAIN t
        BY <1>0, <1>14, <3>1
      <4> QED  BY <1>12, <4>1
    <3>2. CASE k > i
      <4>1. k - 1 \in i .. m - 1 + n /\ (k - 1) + 1 = k
        BY <1>0, <1>14, <3>2
      <4>2. k - 1 \in DOMAIN t
        BY <1>0, <1>14, <4>1
      <4> QED  BY <1>13, <4>1, <4>2
    <3> QED  BY <1>0, <1>14, <2>1, <3>1, <3>2
  <2>2. s[i] = a[i]
    BY <1>0, <1>11
  <2> QED  BY <2>1, <2>2 DEF Elems
<1>21. t = Removed(a, i) \o b
  BY <1>1, <1>3, <1>4, <1>7, <1>10 DEF Removed
<1> HIDE DEF f
<1>22. Live(a[i]) => Skips(s, i, t)
  BY <1>16, Zenon DEF Skips
<1> QED
  BY <1>9, <1>16, <1>18, <1>19, <1>20, <1>21, <1>22

-----------------------------------------------------------------------------
(* Who has the files *)

\* A process has one connection at most that is open or carries its files.
OneLive(L) == \A q, r \in Proc : \A m, n \in Name : \A i \in Spots(L[q][m]), j \in Spots(L[r][n]) :
    L[q][m][i].from = L[r][n][j].from => q = r /\ m = n /\ i = j

\* One that is open is about to be written to; the files are sent by one that ended,
\* to the instance it knows, and nobody has opened them before they are read.
Carried(L, a, o, t) == \A q \in Proc : \A n \in Name : \A c \in Elems(L[q][n]) :
    /\ c.open => c.msg = Nothing /\ a[c.from] \in Writing
    /\ c.msg = Files => a[c.from] = "sent" /\ t[c.from] = q /\ o[c.from] = {}

\* Nobody opens the files of one that still looks for an instance, and only itself
\* those of one that sent them to nobody.
Own(a, o) == \A p \in Proc :
    /\ a[p] \in {"off"} \cup Sending => o[p] = {}
    /\ a[p] # "sent" => o[p] \subseteq {p}

Waits(L, p, q) == \E n \in Name : \E c \in Elems(L[q][n]) : c.from = p /\ c.msg = Files

Taken(L, a, o, t) == \A p \in Proc : a[p] = "sent" =>
    /\ t[p] \in Proc /\ o[p] \subseteq {t[p]}
    /\ t[p] \in o[p] \/ Waits(L, p, t[p]) \/ a[t[p]] \in Closing \cup Ended

FilesGood(L, a, o, t) == OneLive(L) /\ Carried(L, a, o, t) /\ Own(a, o) /\ Taken(L, a, o, t)

FilesInv == FilesGood(Lines, at, openers, taker)

LEMMA ThinnedOne ==
    ASSUME NEW L, NEW M, OneLive(L), \A q \in Proc : \A n \in Name : Thins(L[q][n], M[q][n])
    PROVE  OneLive(M)
<1> SUFFICES ASSUME NEW q \in Proc, NEW r \in Proc, NEW m \in Name, NEW n \in Name,
                    NEW i \in Spots(M[q][m]), NEW j \in Spots(M[r][n]),
                    M[q][m][i].from = M[r][n][j].from
             PROVE  q = r /\ m = n /\ i = j
  BY DEF OneLive
<1>1. PICK f \in [Spots(M[q][m]) -> Spots(L[q][m])] : \A k \in Spots(M[q][m]) :
          /\ M[q][m][k].from = L[q][m][f[k]].from
          /\ \A l \in Spots(M[q][m]) : f[k] = f[l] => k = l
  BY DEF Thins
<1>2. PICK g \in [Spots(M[r][n]) -> Spots(L[r][n])] : \A k \in Spots(M[r][n]) :
          /\ M[r][n][k].from = L[r][n][g[k]].from
          /\ \A l \in Spots(M[r][n]) : g[k] = g[l] => k = l
  BY DEF Thins
<1>3. f[i] \in Spots(L[q][m]) /\ g[j] \in Spots(L[r][n]) /\ L[q][m][f[i]].from = L[r][n][g[j]].from
  BY <1>1, <1>2
<1>4. q = r /\ m = n
  BY <1>3 DEF OneLive
<1>5. j \in Spots(M[q][m]) /\ f[j] \in Spots(L[q][m]) /\ L[q][m][f[i]].from = L[q][m][f[j]].from
  BY <1>1, <1>3, <1>4
<1>6. f[i] = f[j]
  BY <1>3, <1>5 DEF OneLive
<1> QED
  BY <1>1, <1>4, <1>5, <1>6

\* The types of what FilesGood is about.
LEMMA LinesType ==
    ASSUME WiresOK
    PROVE  /\ Lines \in [Proc -> [Name -> Seq(Connection)]]
           /\ \A q \in Proc : \A n \in Name :
                 /\ conns[q][n] \in Seq(Connection) /\ backlog[q][n] \in Seq(Connection)
                 /\ Lines[q][n] = conns[q][n] \o backlog[q][n]
<1>1. \A q \in Proc : \A n \in Name :
          conns[q][n] \in Seq(Connection) /\ backlog[q][n] \in Seq(Connection)
  BY DEF WiresOK
<1>2. \A q \in Proc : \A n \in Name : conns[q][n] \o backlog[q][n] \in Seq(Connection)
  BY <1>1, JoinIs
<1> QED
  BY <1>1, <1>2 DEF Lines

LEMMA LinesSame == ASSUME UNCHANGED wires PROVE Lines' = Lines
BY DEF Lines

LEMMA ElemsType ==
    ASSUME NEW s \in Seq(Connection)
    PROVE  \A c \in Elems(s) : c \in Connection /\ c.from \in Proc /\ c.msg \in Message
                               /\ c.open \in BOOLEAN
<1>1. \A i \in DOMAIN s : s[i] \in Connection
  OBVIOUS
<1> QED  BY <1>1 DEF Elems, Connection

\* Wherever a process goes on, as long as it neither sends its files nor leaves a
\* connection open behind it.
LEMMA PlaceFiles ==
    ASSUME NEW L, NEW a \in [Proc -> Place], NEW o \in [Proc -> SUBSET Proc], NEW t,
           FilesGood(L, a, o, t), NEW p \in Proc, NEW x, x # "sent", a[p] # "sent",
           \A q \in Proc : \A n \in Name : \A c \in Elems(L[q][n]) : c.from \in Proc,
           x \in {"off"} \cup Sending => a[p] \in {"off"} \cup Sending,
           a[p] \in Closing \cup Ended => x \in Closing \cup Ended,
           \/ x \in Writing
           \/ \A q \in Proc : \A n \in Name : \A c \in Elems(L[q][n]) : ~(c.open /\ c.from = p),
           NEW b, b = [a EXCEPT ![p] = x],
           NEW u, u = o \/ (x \notin {"off"} \cup Sending /\ u = [o EXCEPT ![p] = @ \cup {p}])
    PROVE  FilesGood(L, b, u, t)
<1>1. /\ b[p] = x /\ \A q \in Proc : q # p => b[q] = a[q] /\ u[q] = o[q]
      /\ u[p] = o[p] \/ (x \notin {"off"} \cup Sending /\ u[p] = o[p] \cup {p})
  OBVIOUS
<1>2. Carried(L, b, u, t)
  BY <1>1 DEF FilesGood, Carried
<1>3. Own(b, u)
  BY <1>1 DEF FilesGood, Own
<1>4. Taken(L, b, u, t)
  BY <1>1 DEF FilesGood, Taken
<1> QED
  BY <1>2, <1>3, <1>4 DEF FilesGood

LEMMA FilesInit == ASSUME Init PROVE FilesInv
<1>1. Lines = [q \in Proc |-> [n \in Name |-> <<>> \o <<>>]]
  BY DEF Lines, Init
<1>2. <<>> \o <<>> = <<>>
  BY EmptySeq, ConcatEmptySeq
<1>3. \A q \in Proc : \A n \in Name : Lines[q][n] = <<>>
  BY <1>1, <1>2
<1>4. Spots(<<>>) = {} /\ Elems(<<>>) = {}
  BY ThinsEmpty DEF Spots
<1>5. OneLive(Lines) /\ Carried(Lines, at, openers, taker)
  BY <1>3, <1>4 DEF OneLive, Carried
<1>6. Own(at, openers) /\ Taken(Lines, at, openers, taker)
  BY AppInputAssumption DEF Init, Own, Taken, Sending
<1> QED
  BY <1>5, <1>6 DEF FilesInv, FilesGood

LEMMA FilesEnough == ASSUME WiresOK, FilesInv PROVE FilesOpenedOnce
<1>1. ASSUME NEW p \in Proc, NEW q \in Proc, Waits(Lines, p, q) PROVE WaitAt(p, q)
  <2>1. PICK n \in Name : \E c \in Elems(Lines[q][n]) : c.from = p /\ c.msg = Files
    BY <1>1 DEF Waits
  <2>2. PICK c \in Elems(Lines[q][n]) : c.from = p /\ c.msg = Files
    BY <2>1
  <2>3. PICK s \in Seq(Connection), r \in Seq(Connection) :
            s = conns[q][n] /\ r = backlog[q][n] /\ Lines[q][n] = s \o r
    BY LinesType
  <2>4. Elems(s \o r) = Elems(s) \cup Elems(r)
    BY JoinIs
  <2>5. c \in Elems(conns[q][n]) \/ c \in Elems(backlog[q][n])
    BY <2>2, <2>3, <2>4
  <2>6. \/ \E i \in DOMAIN backlog[q][n] : c = backlog[q][n][i]
        \/ \E i \in DOMAIN conns[q][n] : c = conns[q][n][i]
    BY <2>5, Zenon DEF Elems
  <2> QED
    BY <2>2, <2>6, Zenon DEF WaitAt
<1>2. ASSUME NEW p \in Proc
      PROVE  /\ \A q, r \in openers[p] : q = r
             /\ at[p] = "sent" =>
                   taker[p] # None /\
                   (taker[p] \in openers[p] \/ WaitAt(p, taker[p]) \/ Stopped(taker[p]))
  BY <1>1, AppInputAssumption DEF FilesInv, FilesGood, Own, Taken, Stopped
<1> QED
  BY <1>2 DEF FilesOpenedOnce

\* What is read, closed or thrown away, but not the files of anybody that an instance
\* that goes on has still to read.
LEMMA ThinnedGood ==
    ASSUME NEW L, NEW M, NEW a, NEW o, NEW t, FilesGood(L, a, o, t),
           \A q \in Proc : \A n \in Name :
              /\ Thins(L[q][n], M[q][n])
              /\ \A c \in Elems(M[q][n]) : Live(c) => c \in Elems(L[q][n])
              /\ \A c \in Elems(L[q][n]) :
                    c.msg = Files => c \in Elems(M[q][n]) \/ a[q] \in Closing \cup Ended
    PROVE  FilesGood(M, a, o, t)
<1>1. OneLive(M)
  BY ThinnedOne DEF FilesGood
<1>2. Carried(M, a, o, t)
  BY DEF FilesGood, Carried, Live
<1>3. Taken(M, a, o, t)
  <2> SUFFICES ASSUME NEW p \in Proc, a[p] = "sent"
               PROVE  /\ t[p] \in Proc /\ o[p] \subseteq {t[p]}
                      /\ t[p] \in o[p] \/ Waits(M, p, t[p]) \/ a[t[p]] \in Closing \cup Ended
    BY DEF Taken
  <2>1. /\ t[p] \in Proc /\ o[p] \subseteq {t[p]}
        /\ t[p] \in o[p] \/ Waits(L, p, t[p]) \/ a[t[p]] \in Closing \cup Ended
    BY DEF FilesGood, Taken
  <2>2. Waits(L, p, t[p]) => Waits(M, p, t[p]) \/ a[t[p]] \in Closing \cup Ended
    BY <2>1 DEF Waits
  <2> QED  BY <2>1, <2>2
<1> QED
  BY <1>1, <1>2, <1>3 DEF FilesGood

LEMMA OnlyOne ==
    ASSUME NEW L, OneLive(L), NEW q \in Proc, NEW r \in Proc, NEW m \in Name, NEW n \in Name,
           NEW i \in Spots(L[q][m]), NEW j \in Spots(L[r][n]), L[q][m][i].from = L[r][n][j].from
    PROVE  q = r /\ m = n /\ i = j
BY DEF OneLive

\* M is L with one more place, that is of nobody who has one in L.
Grows(L, M, q, n, last, c) == \A r \in Proc : \A m \in Name : \A i \in Spots(M[r][m]) :
    \/ i \in Spots(L[r][m]) /\ M[r][m][i] = L[r][m][i] /\ M[r][m][i].from # c.from
    \/ r = q /\ m = n /\ i = last /\ M[r][m][i].from = c.from

LEMMA OneMore ==
    ASSUME NEW L, OneLive(L), NEW M, NEW q, NEW n, NEW last, NEW c, Grows(L, M, q, n, last, c)
    PROVE  OneLive(M)
<1> SUFFICES ASSUME NEW r \in Proc, NEW w \in Proc, NEW m \in Name, NEW k \in Name,
                    NEW i \in Spots(M[r][m]), NEW j \in Spots(M[w][k]),
                    M[r][m][i].from = M[w][k][j].from
             PROVE  r = w /\ m = k /\ i = j
  BY DEF OneLive
<1>c. \/ i \in Spots(L[r][m]) /\ M[r][m][i] = L[r][m][i] /\ M[r][m][i].from # c.from
      \/ r = q /\ m = n /\ i = last /\ M[r][m][i].from = c.from
  BY Zenon DEF Grows
<1>d. \/ j \in Spots(L[w][k]) /\ M[w][k][j] = L[w][k][j] /\ M[w][k][j].from # c.from
      \/ w = q /\ k = n /\ j = last /\ M[w][k][j].from = c.from
  BY Zenon DEF Grows
<1>4. CASE M[r][m][i].from = c.from
  BY <1>c, <1>d, <1>4, Zenon
<1>5. CASE M[r][m][i].from # c.from
  <2>1. i \in Spots(L[r][m]) /\ M[r][m][i] = L[r][m][i]
    BY <1>c, <1>5, Zenon
  <2>2. j \in Spots(L[w][k]) /\ M[w][k][j] = L[w][k][j]
    BY <1>d, <1>5, Zenon
  <2>3. L[r][m][i].from = L[w][k][j].from
    BY <2>1, <2>2, Zenon
  <2> QED  BY <2>1, <2>2, <2>3, OnlyOne
<1> QED
  BY <1>4, <1>5

\* What is appended to the line of a socket.
LEMMA GrownOne ==
    ASSUME NEW L \in [Proc -> [Name -> Seq(Connection)]], NEW M, OneLive(L),
           NEW q \in Proc, NEW n \in Name, NEW c \in Connection,
           M = [L EXCEPT ![q][n] = Append(@, c)],
           \A r \in Proc : \A m \in Name : \A i \in Spots(L[r][m]) : L[r][m][i].from # c.from
    PROVE  OneLive(M)
<1>0. PICK s \in Seq(Connection) : s = L[q][n]
  OBVIOUS
<1>1. M[q][n] = Append(s, c)
      /\ \A r \in Proc : \A m \in Name : r # q \/ m # n => M[r][m] = L[r][m]
  BY <1>0
<1>a. /\ Spots(s) = {i \in Spots(Append(s, c)) : i # Len(s) + 1}
      /\ \A i \in Spots(s) : Append(s, c)[i] = s[i]
      /\ Append(s, c)[Len(s) + 1] = c
  BY Appended
<1>b. PICK last : last = Len(s) + 1
  OBVIOUS
<1>2. /\ Spots(L[q][n]) = {i \in Spots(M[q][n]) : i # last}
      /\ \A i \in Spots(L[q][n]) : M[q][n][i] = L[q][n][i]
      /\ M[q][n][last] = c
  BY <1>0, <1>1, <1>a, <1>b, Zenon
<1>3. ASSUME NEW r \in Proc, NEW m \in Name, NEW i \in Spots(M[r][m])
      PROVE  \/ i \in Spots(L[r][m]) /\ M[r][m][i] = L[r][m][i] /\ M[r][m][i].from # c.from
             \/ r = q /\ m = n /\ i = last /\ M[r][m][i].from = c.from
  <2>1. CASE r = q /\ m = n
    BY <1>2, <2>1
  <2>2. CASE ~(r = q /\ m = n)
    BY <1>1, <2>2
  <2> QED  BY <2>1, <2>2
<1>4. Grows(L, M, q, n, last, c)
  BY <1>3, Zenon DEF Grows
<1> QED
  BY <1>4, OneMore

\* The connection whose other end is closed was the only one: who read the files has them.
LEMMA ReadGood ==
    ASSUME NEW L \in [Proc -> [Name -> Seq(Connection)]],
           NEW a, NEW o \in [Proc -> SUBSET Proc], NEW t, FilesGood(L, a, o, t),
           NEW p \in Proc, NEW n \in Name, NEW i \in Spots(L[p][n]), L[p][n][i].msg = Files,
           NEW new, NEW M, M = [L EXCEPT ![p][n] = new],
           Skips(L[p][n], i, new),
           Thins(L[p][n], new), Elems(new) \subseteq Elems(L[p][n]),
           Elems(L[p][n]) \subseteq Elems(new) \cup {L[p][n][i]},
           NEW u, u = [o EXCEPT ![L[p][n][i].from] = @ \cup {p}]
    PROVE  FilesGood(M, a, u, t)
<1>1. PICK c : c = L[p][n][i]
  OBVIOUS
<1>2. c \in Elems(L[p][n]) /\ Live(c) /\ c.msg = Files
  BY <1>1 DEF Elems, Spots
<1>3. a[c.from] = "sent" /\ t[c.from] = p /\ o[c.from] = {}
  BY <1>2 DEF FilesGood, Carried
<1>4. L[p][n] \in Seq(Connection)
  OBVIOUS
<1>5. c.from \in Proc
  BY <1>2, <1>4, ElemsType
<1>6. M[p][n] = new /\ \A q \in Proc : \A m \in Name : q # p \/ m # n => M[q][m] = L[q][m]
  OBVIOUS
<1>7. u[c.from] = {p} /\ \A q \in Proc : q # c.from => u[q] = o[q]
  BY <1>1, <1>3, <1>5
<1>8. \A q \in Proc : \A m \in Name : Thins(L[q][m], M[q][m]) /\ Elems(M[q][m]) \subseteq Elems(L[q][m])
  BY <1>6, ThinsSelf
<1>9. OneLive(M)
  BY <1>8, ThinnedOne DEF FilesGood
<1>10. ASSUME NEW q \in Proc, NEW m \in Name, NEW d \in Elems(M[q][m]), Live(d)
       PROVE  d.from # c.from
  <2>1. PICK j \in Spots(M[q][m]) : d = M[q][m][j]
    BY <1>10 DEF Elems, Spots
  <2>2. CASE q = p /\ m = n
    <3>1. PICK f \in [Spots(new) -> Spots(L[p][n]) \ {i}] : \A k \in Spots(new) : new[k] = L[p][n][f[k]]
      BY DEF Skips
    <3>2. f[j] \in Spots(L[p][n]) /\ f[j] # i /\ d = L[p][n][f[j]]
      BY <1>6, <2>1, <2>2, <3>1
    <3> QED  BY <1>1, <3>2 DEF FilesGood, OneLive
  <2>3. CASE q # p \/ m # n
    <3>1. j \in Spots(L[q][m]) /\ d = L[q][m][j]
      BY <1>6, <2>1, <2>3
    <3> QED  BY <1>1, <2>3, <3>1 DEF FilesGood, OneLive
  <2> QED  BY <2>2, <2>3
<1>11. Carried(M, a, u, t)
  <2> SUFFICES ASSUME NEW q \in Proc, NEW m \in Name, NEW d \in Elems(M[q][m])
               PROVE  /\ d.open => d.msg = Nothing /\ a[d.from] \in Writing
                      /\ d.msg = Files => a[d.from] = "sent" /\ t[d.from] = q /\ u[d.from] = {}
    BY DEF Carried
  <2>1. d \in Elems(L[q][m])
    BY <1>8
  <2>2. L[q][m] \in Seq(Connection)
    OBVIOUS
  <2>3. d.from \in Proc
    BY <2>1, <2>2, ElemsType
  <2>4. /\ d.open => d.msg = Nothing /\ a[d.from] \in Writing
        /\ d.msg = Files => a[d.from] = "sent" /\ t[d.from] = q /\ o[d.from] = {}
    <3>1. Carried(L, a, o, t)
      BY DEF FilesGood
    <3> QED  BY <2>1, <3>1, ZenonT(120) DEF Carried
  <2>5. d.msg = Files => d.from # c.from
    BY <1>10 DEF Live
  <2> QED  BY <1>7, <2>3, <2>4, <2>5
<1>12. Own(a, u)
  <2>1. \A q \in Proc : /\ a[q] \in {"off"} \cup Sending => o[q] = {}
                        /\ a[q] # "sent" => o[q] \subseteq {q}
    BY DEF FilesGood, Own
  <2>2. "sent" \notin {"off"} \cup Sending
    BY DEF Sending
  <2>3. ASSUME NEW q \in Proc
        PROVE  /\ a[q] \in {"off"} \cup Sending => u[q] = {}
               /\ a[q] # "sent" => u[q] \subseteq {q}
    <3>1. CASE q = c.from
      BY <1>3, <2>2, <3>1
    <3>2. CASE q # c.from
      <4>1. u[q] = o[q]
        BY <1>7, <3>2
      <4> QED  BY <2>1, <4>1
    <3> QED  BY <3>1, <3>2
  <2> QED  BY <2>3 DEF Own
<1>13. Taken(M, a, u, t)
  <2> SUFFICES ASSUME NEW q \in Proc, a[q] = "sent"
               PROVE  /\ t[q] \in Proc /\ u[q] \subseteq {t[q]}
                      /\ t[q] \in u[q] \/ Waits(M, q, t[q]) \/ a[t[q]] \in Closing \cup Ended
    BY DEF Taken
  <2>1. CASE q = c.from
    BY <1>3, <1>7, <2>1
  <2>2. CASE q # c.from
    <3>1. /\ t[q] \in Proc /\ o[q] \subseteq {t[q]} /\ u[q] = o[q]
          /\ t[q] \in o[q] \/ Waits(L, q, t[q]) \/ a[t[q]] \in Closing \cup Ended
      BY <1>7, <2>2 DEF FilesGood, Taken
    <3>2. ASSUME Waits(L, q, t[q]) PROVE Waits(M, q, t[q])
      <4>1. PICK m \in Name : \E d \in Elems(L[t[q]][m]) : d.from = q /\ d.msg = Files
        BY <3>2 DEF Waits
      <4>2. PICK d \in Elems(L[t[q]][m]) : d.from = q /\ d.msg = Files
        BY <4>1
      <4>3. d \in Elems(M[t[q]][m])
        BY <1>1, <1>6, <2>2, <3>1, <4>1, <4>2
      <4> QED  BY <4>1, <4>2, <4>3 DEF Waits
    <3> QED  BY <3>1, <3>2
  <2> QED  BY <2>1, <2>2
<1> QED
  BY <1>9, <1>11, <1>12, <1>13 DEF FilesGood
-----------------------------------------------------------------------------
(* Every step keeps it *)

\* The connections that `p' has open, by the lines.
LEMMA OpenOnes ==
    ASSUME WiresOK, NEW p \in Proc
    PROVE  \A q \in Proc : q \in HasOther(p) <=>
               \E n \in Name : \E c \in Elems(Lines[q][n]) : c.open /\ c.from = p
<1> SUFFICES ASSUME NEW q \in Proc
             PROVE  q \in HasOther(p) <=>
                        \E n \in Name : \E c \in Elems(Lines[q][n]) : c.open /\ c.from = p
  OBVIOUS
<1>1. ASSUME NEW n \in Name
      PROVE  Mine(p, backlog[q][n]) \cup Mine(p, conns[q][n]) # {} <=>
                 \E c \in Elems(Lines[q][n]) : c.open /\ c.from = p
  <2>1. PICK s \in Seq(Connection), r \in Seq(Connection) :
            s = conns[q][n] /\ r = backlog[q][n] /\ Lines[q][n] = s \o r
    BY LinesType
  <2>2. Elems(Lines[q][n]) = Elems(s) \cup Elems(r)
    BY <2>1, JoinIs
  <2>3. \A l : Mine(p, l) # {} <=> \E c \in Elems(l) : c.open /\ c.from = p
    BY DEF Mine, Elems
  <2> QED  BY <2>1, <2>2, <2>3
<1> QED
  BY <1>1 DEF HasOther

\* A step that moves nothing on the way to anybody.
LEMMA Onward ==
    ASSUME WiresOK, ProcessesOK, FilesInv, NEW p \in Proc, NEW x,
           Goes(p, x), UNCHANGED <<wires, taker>>, x # "sent", at[p] # "sent",
           x \in {"off"} \cup Sending => at[p] \in {"off"} \cup Sending,
           at[p] \in Closing \cup Ended => x \in Closing \cup Ended,
           x \in Writing \/ at[p] \notin Writing \/ HasOther(p) = {},
           \/ openers' = openers
           \/ x \notin {"off"} \cup Sending /\ openers' = [openers EXCEPT ![p] = @ \cup {p}]
    PROVE  FilesInv'
<1>1. /\ FilesGood(Lines, at, openers, taker) /\ Lines' = Lines /\ taker' = taker
      /\ at' = [at EXCEPT ![p] = x] /\ at \in [Proc -> Place] /\ openers \in [Proc -> SUBSET Proc]
  BY LinesSame DEF FilesInv, Goes, ProcessesOK
<1>2. \A q \in Proc : \A n \in Name : \A c \in Elems(Lines[q][n]) : c.from \in Proc
  <2> SUFFICES ASSUME NEW q \in Proc, NEW n \in Name
               PROVE  \A c \in Elems(Lines[q][n]) : c.from \in Proc
    OBVIOUS
  <2>1. PICK s \in Seq(Connection) : s = Lines[q][n]
    BY LinesType
  <2> QED  BY <2>1, ElemsType
<1>3. \/ x \in Writing
      \/ \A q \in Proc : \A n \in Name : \A c \in Elems(Lines[q][n]) : ~(c.open /\ c.from = p)
  <2>1. CASE at[p] \notin Writing
    BY <1>1, <2>1 DEF FilesGood, Carried
  <2>2. CASE HasOther(p) = {}
    BY <2>2, OpenOnes
  <2> QED  BY <2>1, <2>2
<1>4. PICK a, b, o, u : a = at /\ b = at' /\ o = openers /\ u = openers'
  OBVIOUS
<1>5. FilesGood(Lines, b, u, taker)
  BY <1>1, <1>2, <1>3, <1>4, PlaceFiles
<1> QED
  BY <1>1, <1>4, <1>5 DEF FilesInv

LEMMA Unmoved == ASSUME FilesInv, UNCHANGED <<wires, files, at>> PROVE FilesInv'
BY LinesSame DEF FilesInv

\* Onward, for a place that is known.
LEMMA FromTo ==
    ASSUME WiresOK, ProcessesOK, FilesInv, NEW p \in Proc, NEW y, NEW x,
           at[p] = y, Goes(p, x), UNCHANGED <<wires, taker>>,
           \/ y \in {"off"} \cup Sending /\ x \in Sending \cup Claiming \cup {"failed"}
           \/ y \in Claiming \cup Telling \cup {"running"} /\ x \in Claiming \cup Telling \cup Closing \cup {"running"}
           \/ y \in Closing /\ x \in Closing \cup {"quit"},
           x \in Writing \/ y \notin Writing \/ HasOther(p) = {},
           \/ openers' = openers
           \/ x \notin Sending /\ openers' = [openers EXCEPT ![p] = @ \cup {p}]
    PROVE  FilesInv'
<1>1. /\ x # "sent" /\ y # "sent"
      /\ x \in {"off"} \cup Sending => y \in {"off"} \cup Sending
      /\ y \in Closing \cup Ended => x \in Closing \cup Ended
      /\ x # "off"
  BY DEF Sending, Claiming, Telling, Closing, Ended
<1> QED
  BY <1>1, Onward

LEMMA StartFiles == ASSUME IInv, FilesInv, NEW p \in Proc, Start(p) PROVE FilesInv'
<1>1. \/ Goes(p, "send")
      \/ Goes(p, "claim")
  BY DEF Start
<1>2. at[p] = "off" /\ UNCHANGED <<wires, taker, openers>>
  BY DEF Start
<1>3. "off" \notin Writing /\ "send" \in Sending /\ "claim" \in Claiming
  BY DEF Writing, Sending, Claiming
<1> QED
  BY <1>1, <1>2, <1>3, FromTo DEF IInv

LEMMA TrySendFiles == ASSUME IInv, FilesInv, NEW p \in Proc, try_send(p) PROVE FilesInv'
<1>1. \/ UNCHANGED at
      \/ at[p] = "send" /\ Goes(p, "send_connect")
      \/ at[p] = "tell" /\ Goes(p, "tell_connect")
  BY InsteadGoes DEF try_send, Sending, Claiming
<1>2. UNCHANGED <<wires, taker, openers>>
  BY DEF try_send
<1>3. /\ "send" \in Sending \ Writing /\ "send_connect" \in Sending
      /\ "tell" \in Telling \ Writing /\ "tell_connect" \in Telling
  BY DEF Writing, Sending, Telling
<1> QED
  BY <1>1, <1>2, <1>3, FromTo, Unmoved DEF IInv

LEMMA NobodyTookItFiles == ASSUME IInv, FilesInv, NEW p \in Proc, NobodyTookIt(p) PROVE FilesInv'
<1>1. \/ UNCHANGED at
      \/ Goes(p, "failed")
      \/ Goes(p, "claim")
  BY DEF NobodyTookIt
<1>2. at[p] = "send" /\ UNCHANGED <<wires, taker, openers>>
  BY DEF NobodyTookIt
<1>3. "send" \in Sending \ Writing /\ "claim" \in Claiming
  BY DEF Writing, Sending, Claiming
<1> QED
  BY <1>1, <1>2, <1>3, FromTo, Unmoved DEF IInv

LEMMA RefusedFiles == ASSUME IInv, FilesInv, NEW p \in Proc, Refused(p) PROVE FilesInv'
<1>1. \/ at[p] = "send_connect" /\ Goes(p, "send_unlink")
      \/ at[p] = "claim_connect" /\ Goes(p, "claim_unlink")
      \/ at[p] = "tell_connect" /\ Goes(p, "tell_unlink")
  BY InsteadGoes DEF Refused, Connecting, Sending, Claiming
<1>2. UNCHANGED <<wires, taker, openers>>
  BY DEF Refused
<1>3. /\ "send_connect" \in Sending \ Writing /\ "send_unlink" \in Sending
      /\ "claim_connect" \in Claiming \ Writing /\ "claim_unlink" \in Claiming
      /\ "tell_connect" \in Telling \ Writing /\ "tell_unlink" \in Telling
  BY DEF Writing, Sending, Claiming, Telling
<1> QED
  BY <1>1, <1>2, <1>3, FromTo DEF IInv

LEMMA UnlinkedFiles == ASSUME IInv, FilesInv, NEW p \in Proc, Unlinked(p) PROVE FilesInv'
<1>1. \/ at[p] = "send_unlink" /\ Goes(p, "send")
      \/ at[p] = "claim_unlink" /\ Goes(p, "claim_bind")
      \/ at[p] = "tell_unlink" /\ Goes(p, "tell")
  BY InsteadGoes DEF Unlinked, Unlinking, Sending, Claiming
<1>2. UNCHANGED <<wires, taker, openers>>
  BY DEF Unlinked
<1>3. /\ "send_unlink" \in Sending \ Writing /\ "send" \in Sending
      /\ "claim_unlink" \in Claiming \ Writing /\ "claim_bind" \in Claiming
      /\ "tell_unlink" \in Telling \ Writing /\ "tell" \in Telling
  BY DEF Writing, Sending, Claiming, Telling
<1> QED
  BY <1>1, <1>2, <1>3, FromTo DEF IInv

LEMMA NotWrittenFiles == ASSUME IInv, FilesInv, NEW p \in Proc, NotWritten(p) PROVE FilesInv'
<1>1. \/ at[p] = "send_write" /\ Goes(p, "send")
      \/ at[p] = "tell_write" /\ Goes(p, "tell")
  BY InsteadGoes DEF NotWritten, Writing, Sending, Claiming
<1>2. HasOther(p) = {} /\ UNCHANGED <<wires, taker, openers>>
  BY DEF NotWritten
<1>3. {"send_write", "send"} \subseteq Sending /\ {"tell_write", "tell"} \subseteq Telling
  BY DEF Sending, Telling
<1> QED
  BY <1>1, <1>2, <1>3, FromTo DEF IInv

LEMMA ClaimFiles == ASSUME IInv, FilesInv, NEW p \in Proc, Claim(p) PROVE FilesInv'
<1>1. at[p] = "claim" /\ Goes(p, "claim_connect") /\ UNCHANGED <<wires, taker, openers>>
  BY DEF Claim
<1>2. "claim" \in Claiming \ Writing /\ "claim_connect" \in Claiming
  BY DEF Writing, Claiming
<1> QED
  BY <1>1, <1>2, FromTo DEF IInv

\* An instance that is complete opens its own files.
LEMMA ClaimNextFiles ==
    ASSUME IInv, FilesInv, NEW p \in Proc, at[p] \in Claiming \ Writing, ClaimNext(p),
           UNCHANGED <<wires, taker>>
    PROVE  FilesInv'
<1>1. \/ Goes(p, "claim") /\ openers' = openers
      \/ Goes(p, "tell") /\ openers' = [openers EXCEPT ![p] = @ \cup {p}]
  BY DEF ClaimNext
<1>2. "claim" \in Claiming /\ "tell" \in Telling /\ "tell" \notin Sending
  BY DEF Claiming, Telling, Sending
<1> QED
  BY <1>1, <1>2, FromTo DEF IInv

LEMMA BoundFiles == ASSUME IInv, FilesInv, NEW p \in Proc, Bound(p) PROVE FilesInv'
<1>1. /\ at[p] = "claim_bind" /\ UNCHANGED <<wires, taker>>
      /\ \/ Goes(p, "claim_listen") /\ openers' = openers
         \/ ClaimNext(p)
  BY DEF Bound
<1>2. {"claim_bind", "claim_listen"} \subseteq Claiming \ Writing
  BY DEF Claiming, Writing
<1> QED
  BY <1>1, <1>2, FromTo, ClaimNextFiles DEF IInv

LEMMA ListenFiles == ASSUME IInv, FilesInv, NEW p \in Proc, Listen(p) PROVE FilesInv'
<1>1. at[p] = "claim_listen" /\ UNCHANGED <<wires, taker>> /\ ClaimNext(p)
  BY DEF Listen
<1>2. "claim_listen" \in Claiming \ Writing
  BY DEF Claiming, Writing
<1> QED
  BY <1>1, <1>2, ClaimNextFiles

LEMMA VisitFiles == ASSUME IInv, FilesInv, NEW p \in Proc, Visit(p) PROVE FilesInv'
<1>1. at[p] = "running" /\ Goes(p, "tell") /\ UNCHANGED <<wires, taker, openers>>
  BY DEF Visit
<1>2. "running" \notin Writing /\ "tell" \in Telling
  BY DEF Telling, Writing
<1> QED
  BY <1>1, <1>2, FromTo DEF IInv

LEMMA QuitFiles == ASSUME IInv, FilesInv, NEW p \in Proc, Quit(p) PROVE FilesInv'
<1>1. at[p] = "running" /\ Goes(p, "tell") /\ UNCHANGED <<wires, taker, openers>>
  BY DEF Quit
<1>2. "running" \notin Writing /\ "tell" \in Telling
  BY DEF Telling, Writing
<1> QED
  BY <1>1, <1>2, FromTo DEF IInv

LEMMA TellFiles == ASSUME IInv, FilesInv, NEW p \in Proc, Tell(p) PROVE FilesInv'
<1>1. \/ UNCHANGED at
      \/ Goes(p, "close")
      \/ Goes(p, "running")
  BY DEF Tell
<1>2. at[p] = "tell" /\ UNCHANGED <<wires, taker, openers>>
  BY DEF Tell
<1>3. "tell" \in Telling \ Writing /\ "close" \in Closing
  BY DEF Telling, Writing, Closing
<1> QED
  BY <1>1, <1>2, <1>3, FromTo, Unmoved DEF IInv

LEMMA ShutdownUnlinkFiles ==
    ASSUME IInv, FilesInv, NEW p \in Proc, ShutdownUnlink(p) PROVE FilesInv'
<1>1. at[p] = "close_unlink" /\ Goes(p, "close_rmdir") /\ UNCHANGED <<wires, taker, openers>>
  BY DEF ShutdownUnlink
<1>2. "close_unlink" \in Closing \ Writing /\ "close_rmdir" \in Closing
  BY DEF Closing, Writing
<1> QED
  BY <1>1, <1>2, FromTo DEF IInv

LEMMA ShutdownRmdirFiles ==
    ASSUME IInv, FilesInv, NEW p \in Proc, ShutdownRmdir(p) PROVE FilesInv'
<1>1. at[p] = "close_rmdir" /\ Goes(p, "close") /\ UNCHANGED <<wires, taker, openers>>
  BY DEF ShutdownRmdir
<1>2. "close_rmdir" \in Closing \ Writing /\ "close" \in Closing
  BY DEF Closing, Writing
<1> QED
  BY <1>1, <1>2, FromTo DEF IInv

\* What is accepted is at its place in the line before and after.
LEMMA AcceptFiles ==
    ASSUME IInv, FilesInv, NEW p \in Proc, NEW n \in Name, accept_connection(p, n)
    PROVE  FilesInv'
<1>1. /\ backlog[p][n] # <<>>
      /\ conns' = [conns EXCEPT ![p][n] = Append(@, Head(backlog[p][n]))]
      /\ backlog' = [backlog EXCEPT ![p][n] = Tail(@)]
      /\ UNCHANGED <<at, openers, taker>>
  BY DEF accept_connection
<1>2. PICK s \in Seq(Connection), r \in Seq(Connection) : s = conns[p][n] /\ r = backlog[p][n]
  BY LinesType DEF IInv
<1>3. /\ conns \in [Proc -> [Name -> Seq(Connection)]]
      /\ backlog \in [Proc -> [Name -> Seq(Connection)]]
  BY DEF IInv, WiresOK
<1>4. /\ conns'[p][n] = Append(s, Head(r)) /\ backlog'[p][n] = Tail(r)
      /\ \A q \in Proc : \A m \in Name : q # p \/ m # n =>
            conns'[q][m] = conns[q][m] /\ backlog'[q][m] = backlog[q][m]
  BY <1>1, <1>2, <1>3
<1>5. Append(s, Head(r)) \o Tail(r) = s \o r
  BY <1>1, <1>2, AcceptJoins
<1>6. \A q \in Proc : \A m \in Name : conns'[q][m] \o backlog'[q][m] = conns[q][m] \o backlog[q][m]
  BY <1>2, <1>4, <1>5
<1>7. Lines' = Lines
  BY <1>6 DEF Lines
<1> QED
  BY <1>1, <1>7 DEF FilesInv

LEMMA FromProc ==
    ASSUME NEW L \in [Proc -> [Name -> Seq(Connection)]]
    PROVE  \A q \in Proc : \A n \in Name : \A c \in Elems(L[q][n]) : c \in Connection /\ c.from \in Proc
<1> SUFFICES ASSUME NEW q \in Proc, NEW n \in Name
             PROVE  \A c \in Elems(L[q][n]) : c \in Connection /\ c.from \in Proc
  OBVIOUS
<1>1. PICK s \in Seq(Connection) : s = L[q][n]
  OBVIOUS
<1> QED  BY <1>1, ElemsType

\* FromTo, when the lines are M by then.
LEMMA MovedOn ==
    ASSUME ProcessesOK, NEW M \in [Proc -> [Name -> Seq(Connection)]],
           FilesGood(M, at, openers, taker), NEW p \in Proc, NEW y, NEW x,
           at[p] = y, Goes(p, x), x # "sent", y # "sent",
           x \in {"off"} \cup Sending => y \in {"off"} \cup Sending,
           y \in Closing \cup Ended => x \in Closing \cup Ended,
           \/ x \in Writing
           \/ y \notin Writing
           \/ \A q \in Proc : \A n \in Name : \A c \in Elems(M[q][n]) : ~(c.open /\ c.from = p),
           \/ openers' = openers
           \/ x \notin {"off"} \cup Sending /\ openers' = [openers EXCEPT ![p] = @ \cup {p}]
    PROVE  FilesGood(M, at', openers', taker)
<1>1. PICK a, b, o, u : a = at /\ b = at' /\ o = openers /\ u = openers'
  OBVIOUS
<1>2. /\ FilesGood(M, a, o, taker) /\ a \in [Proc -> Place] /\ o \in [Proc -> SUBSET Proc]
      /\ b = [a EXCEPT ![p] = x] /\ a[p] = y
      /\ u = o \/ (x \notin {"off"} \cup Sending /\ u = [o EXCEPT ![p] = @ \cup {p}])
  BY <1>1 DEF ProcessesOK, Goes
<1>3. \A q \in Proc : \A n \in Name : \A c \in Elems(M[q][n]) : c.from \in Proc
  BY FromProc
<1>4. \/ x \in Writing
      \/ \A q \in Proc : \A n \in Name : \A c \in Elems(M[q][n]) : ~(c.open /\ c.from = p)
  BY <1>2 DEF FilesGood, Carried
<1>5. FilesGood(M, b, u, taker)
  BY <1>2, <1>3, <1>4, PlaceFiles, ZenonT(90)
<1> QED
  BY <1>1, <1>5

\* What is new in a line is open, of one who has nothing live in any, and may write.
LEMMA GrownGood ==
    ASSUME NEW L \in [Proc -> [Name -> Seq(Connection)]], NEW M, NEW a, NEW o, NEW t,
           FilesGood(L, a, o, t), NEW q \in Proc, NEW n \in Name, NEW c \in Connection,
           M = [L EXCEPT ![q][n] = Append(@, c)],
           \A r \in Proc : \A m \in Name : \A d \in Elems(L[r][m]) : Live(d) => d.from # c.from,
           c.msg = Nothing, a[c.from] \in Writing
    PROVE  FilesGood(M, a, o, t)
<1>1. \A r \in Proc : \A m \in Name : \A i \in Spots(L[r][m]) : L[r][m][i].from # c.from
  BY Zenon DEF Spots, Elems
<1>2. OneLive(M)
  BY <1>1, GrownOne DEF FilesGood
<1>3. PICK s \in Seq(Connection) : s = L[q][n]
  OBVIOUS
<1>4. M[q][n] = Append(s, c) /\ \A r \in Proc : \A m \in Name : r # q \/ m # n => M[r][m] = L[r][m]
  BY <1>3
<1>5. Elems(Append(s, c)) = Elems(s) \cup {c}
  BY Appended
<1>6. \A r \in Proc : \A m \in Name :
          /\ Elems(L[r][m]) \subseteq Elems(M[r][m])
          /\ \A d \in Elems(M[r][m]) : d \in Elems(L[r][m]) \/ d = c
  <2> SUFFICES ASSUME NEW r \in Proc, NEW m \in Name
               PROVE  /\ Elems(L[r][m]) \subseteq Elems(M[r][m])
                      /\ \A d \in Elems(M[r][m]) : d \in Elems(L[r][m]) \/ d = c
    OBVIOUS
  <2>1. CASE r = q /\ m = n
    BY <1>3, <1>4, <1>5, <2>1
  <2>2. CASE r # q \/ m # n
    BY <1>4, <2>2
  <2> QED  BY <2>1, <2>2
<1>7. Nothing # Files
  BY DEF Nothing, Files
<1>8. Carried(M, a, o, t)
  <2> SUFFICES ASSUME NEW r \in Proc, NEW m \in Name, NEW d \in Elems(M[r][m])
               PROVE  /\ d.open => d.msg = Nothing /\ a[d.from] \in Writing
                      /\ d.msg = Files => a[d.from] = "sent" /\ t[d.from] = r /\ o[d.from] = {}
    BY DEF Carried
  <2>1. CASE d \in Elems(L[r][m])
    BY <2>1, ZenonT(60) DEF FilesGood, Carried
  <2>2. CASE d = c
    BY <1>7, <2>2
  <2> QED  BY <1>6, <2>1, <2>2
<1>9. Taken(M, a, o, t)
  <2> SUFFICES ASSUME NEW p \in Proc, a[p] = "sent"
               PROVE  /\ t[p] \in Proc /\ o[p] \subseteq {t[p]}
                      /\ t[p] \in o[p] \/ Waits(M, p, t[p]) \/ a[t[p]] \in Closing \cup Ended
    BY DEF Taken
  <2>1. /\ t[p] \in Proc /\ o[p] \subseteq {t[p]}
        /\ t[p] \in o[p] \/ Waits(L, p, t[p]) \/ a[t[p]] \in Closing \cup Ended
    BY DEF FilesGood, Taken
  <2>2. Waits(L, p, t[p]) => Waits(M, p, t[p])
    BY <1>6, <2>1 DEF Waits
  <2> QED  BY <2>1, <2>2
<1> QED
  BY <1>2, <1>8, <1>9 DEF FilesGood

LEMMA ConnectedFiles == ASSUME IInv, FilesInv, NEW p \in Proc, Connected(p) PROVE FilesInv'
<1>1. PICK n \in Name : n = target[p]
  BY DEF IInv, ProcessesOK
<1>2. PICK q \in Proc : q = file[n]
  BY <1>1 DEF IInv, ProcessesOK, Connected, Listens
<1>3. PICK c : c = [from |-> p, open |-> at[p] # "claim_connect", msg |-> Nothing]
  OBVIOUS
<1>4. c \in Connection /\ c.from = p /\ c.msg = Nothing /\ (c.open <=> at[p] # "claim_connect")
  BY <1>3, Messages DEF Connection
<1>5. /\ backlog' = [backlog EXCEPT ![q][n] = Append(@, c)] /\ conns' = conns
      /\ taker' = taker /\ at[p] \in Connecting
  BY <1>1, <1>2, <1>3 DEF Connected
<1>6. Lines' = [Lines EXCEPT ![q][n] = Append(@, c)] /\ Lines \in [Proc -> [Name -> Seq(Connection)]]
  <2>1. PICK s \in Seq(Connection), r \in Seq(Connection) :
            s = conns[q][n] /\ r = backlog[q][n] /\ Lines[q][n] = s \o r
    BY LinesType DEF IInv
  <2>2. backlog \in [Proc -> [Name -> Seq(Connection)]] /\ Lines \in [Proc -> [Name -> Seq(Connection)]]
    BY LinesType DEF IInv, WiresOK
  <2>3. /\ backlog'[q][n] = Append(r, c)
        /\ \A w \in Proc : \A m \in Name : w # q \/ m # n => backlog'[w][m] = backlog[w][m]
    BY <1>5, <2>1, <2>2
  <2>4. s \o Append(r, c) = Append(s \o r, c)
    BY <1>4, AppendJoins
  <2>5. \A w \in Proc : \A m \in Name :
            conns'[w][m] \o backlog'[w][m] =
                IF w = q /\ m = n THEN Append(Lines[q][n], c) ELSE Lines[w][m]
    <3> SUFFICES ASSUME NEW w \in Proc, NEW m \in Name
                 PROVE  conns'[w][m] \o backlog'[w][m] =
                            IF w = q /\ m = n THEN Append(Lines[q][n], c) ELSE Lines[w][m]
      OBVIOUS
    <3>1. CASE w = q /\ m = n
      BY <1>5, <2>1, <2>3, <2>4, <3>1
    <3>2. CASE ~(w = q /\ m = n)
      <4>1. conns'[w][m] = conns[w][m] /\ backlog'[w][m] = backlog[w][m]
        BY <1>5, <2>3, <3>2
      <4>2. Lines[w][m] = conns[w][m] \o backlog[w][m]
        BY LinesType DEF IInv
      <4> QED  BY <3>2, <4>1, <4>2
    <3> QED  BY <3>1, <3>2
  <2>6. Lines' = [w \in Proc |-> [m \in Name |->
                     IF w = q /\ m = n THEN Append(Lines[q][n], c) ELSE Lines[w][m]]]
    BY <2>5, Zenon DEF Lines
  <2> QED  BY <2>2, <2>6
<1>7. PICK L, M : L = Lines /\ M = Lines'
  OBVIOUS
<1>8. /\ L \in [Proc -> [Name -> Seq(Connection)]] /\ FilesGood(L, at, openers, taker)
      /\ M = [L EXCEPT ![q][n] = Append(@, c)]
  BY <1>6, <1>7 DEF FilesInv
<1>9. \A r \in Proc : \A m \in Name : \A d \in Elems(L[r][m]) : Live(d) => d.from # p
  <2>1. at[p] # "sent" /\ at[p] \notin Writing
    BY <1>5 DEF Connecting, Writing
  <2> QED  BY <1>8, <2>1 DEF FilesGood, Carried, Live
<1>10. M \in [Proc -> [Name -> Seq(Connection)]]
  <2>1. PICK s \in Seq(Connection) : s = L[q][n]
    BY <1>8
  <2>2. Append(s, c) \in Seq(Connection) /\ M = [L EXCEPT ![q][n] = Append(s, c)]
    BY <1>4, <1>8, <2>1, AppendProperties
  <2> QED  BY <1>8, <2>2, SocketType
<1> HIDE DEF Lines
<1>11. CASE at[p] = "claim_connect"
  <2>1. \/ Goes(p, "claim") /\ openers' = openers
        \/ Goes(p, "tell") /\ openers' = [openers EXCEPT ![p] = @ \cup {p}]
    BY <1>11 DEF Connected, ClaimNext
  <2>2. FilesGood(M, at, openers, taker)
    <3>1. PICK s \in Seq(Connection) : s = L[q][n]
      BY <1>8
    <3>2. M[q][n] = Append(s, c) /\ \A r \in Proc : \A m \in Name : r # q \/ m # n => M[r][m] = L[r][m]
      BY <1>8, <3>1
    <3>3. ~Live(c)
      BY <1>4, <1>11 DEF Live, Nothing, Files
    <3>4. /\ Elems(Append(s, c)) = Elems(s) \cup {c}
          /\ Thins(s, Append(s, c))
      BY <1>4, <3>3, Appended
    <3>5. ASSUME NEW r \in Proc, NEW m \in Name
          PROVE  /\ Thins(L[r][m], M[r][m])
                 /\ \A d \in Elems(M[r][m]) : Live(d) => d \in Elems(L[r][m])
                 /\ \A d \in Elems(L[r][m]) :
                       d.msg = Files => d \in Elems(M[r][m]) \/ at[r] \in Closing \cup Ended
      <4>1. CASE r = q /\ m = n
        BY <3>1, <3>2, <3>3, <3>4, <4>1
      <4>2. CASE r # q \/ m # n
        BY <3>2, <4>2, ThinsSelf
      <4> QED  BY <4>1, <4>2
    <3> QED  BY <1>8, <3>5, ThinnedGood
  <2>3. /\ "claim_connect" \notin Writing \cup Closing \cup Ended
        /\ {"claim", "tell"} \cap ({"off"} \cup Sending) = {}
    BY DEF Writing, Closing, Ended, Sending
  <2>4. FilesGood(M, at', openers', taker)
    BY <1>10, <1>11, <2>1, <2>2, <2>3, MovedOn DEF IInv
  <2> QED  BY <1>5, <1>7, <2>4 DEF FilesInv
<1>12. CASE at[p] # "claim_connect"
  <2>1. /\ \/ at[p] = "send_connect" /\ Goes(p, "send_write")
           \/ at[p] = "tell_connect" /\ Goes(p, "tell_write")
        /\ openers' = openers
    <3>1. Instead(p, "send_write", "", "tell_write") /\ openers' = openers
      BY <1>12 DEF Connected
    <3> QED  BY <1>5, <1>12, <3>1, InsteadGoes DEF Connecting, Sending, Claiming
  <2>2. /\ {"send_write", "tell_write"} \subseteq Writing
        /\ {"send_connect", "send_write"} \subseteq Sending
        /\ {"send_connect", "tell_connect"} \cap (Closing \cup Ended) = {}
        /\ "tell_write" \notin {"off"} \cup Sending
    BY DEF Writing, Closing, Ended, Sending
  <2>3. FilesGood(L, at', openers', taker)
    BY <1>8, <2>1, <2>2, MovedOn DEF IInv
  <2>4. at'[p] \in Writing
    BY <2>1, <2>2 DEF IInv, ProcessesOK, Goes
  <2>5. FilesGood(M, at', openers', taker)
    <3>1. PICK b, u : b = at' /\ u = openers'
      OBVIOUS
    <3>2. FilesGood(L, b, u, taker) /\ b[c.from] \in Writing
      BY <1>4, <2>3, <2>4, <3>1
    <3>3. \A r \in Proc : \A m \in Name : \A d \in Elems(L[r][m]) : Live(d) => d.from # c.from
      BY <1>4, <1>9
    <3>4. FilesGood(M, b, u, taker)
      BY <1>4, <1>8, <3>2, <3>3, GrownGood
    <3> QED  BY <3>1, <3>4
  <2> QED  BY <1>5, <1>7, <2>5 DEF FilesInv
<1> QED
  BY <1>11, <1>12

\* What the lines are after `p' wrote to, or closed, what it had open.
Fills(p, L, M, msg) == \A q \in Proc : \A n \in Name :
    Thins(L[q][n], M[q][n]) /\ Elems(M[q][n]) = {After(p, c, msg) : c \in Elems(L[q][n])}

LEMMA FillLines ==
    ASSUME WiresOK, NEW p \in Proc, NEW msg \in Message, NEW L, NEW M, L = Lines,
           M = [q \in Proc |-> [n \in Name |->
                  Filled(p, conns[q][n], msg) \o Filled(p, backlog[q][n], msg)]]
    PROVE  M \in [Proc -> [Name -> Seq(Connection)]] /\ Fills(p, L, M, msg)
<1>1. ASSUME NEW q \in Proc, NEW n \in Name
      PROVE  /\ M[q][n] \in Seq(Connection)
             /\ Thins(L[q][n], M[q][n]) /\ Elems(M[q][n]) = {After(p, c, msg) : c \in Elems(L[q][n])}
  <2>1. PICK s \in Seq(Connection), r \in Seq(Connection) :
            s = conns[q][n] /\ r = backlog[q][n] /\ L[q][n] = s \o r
    BY LinesType
  <2>2. M[q][n] = Filled(p, s, msg) \o Filled(p, r, msg)
    BY <2>1
  <2>3. PICK l \in Seq(Connection) : l = s \o r
    BY JoinIs
  <2>4. Filled(p, s, msg) \o Filled(p, r, msg) = Filled(p, l, msg)
    BY <2>3, FillJoins
  <2>5. /\ Filled(p, l, msg) \in Seq(Connection)
        /\ Thins(l, Filled(p, l, msg))
        /\ Elems(Filled(p, l, msg)) = {After(p, c, msg) : c \in Elems(l)}
    BY FilledType, ThinsFilled
  <2> QED  BY <2>1, <2>2, <2>3, <2>4, <2>5, Zenon
<1>2. M \in [Proc -> [Name -> Seq(Connection)]]
  BY <1>1
<1>3. Fills(p, L, M, msg)
  BY <1>1, Zenon DEF Fills
<1> QED
  BY <1>2, <1>3

\* News is written, or nothing.
LEMMA FilledGood ==
    ASSUME NEW p, NEW L \in [Proc -> [Name -> Seq(Connection)]], NEW M, NEW msg, msg # Files,
           Fills(p, L, M, msg), NEW a, NEW o, NEW t, FilesGood(L, a, o, t)
    PROVE  /\ FilesGood(M, a, o, t)
           /\ \A q \in Proc : \A n \in Name : \A c \in Elems(M[q][n]) : ~(c.open /\ c.from = p)
<1>1. ASSUME NEW q \in Proc, NEW n \in Name
      PROVE  /\ Thins(L[q][n], M[q][n])
             /\ \A d \in Elems(M[q][n]) : Live(d) => d \in Elems(L[q][n])
             /\ \A c \in Elems(L[q][n]) : c.msg = Files => c \in Elems(M[q][n])
             /\ \A c \in Elems(M[q][n]) : ~(c.open /\ c.from = p)
  <2>1. /\ Thins(L[q][n], M[q][n])
        /\ Elems(M[q][n]) = {After(p, c, msg) : c \in Elems(L[q][n])}
    BY DEF Fills
  <2>2. ASSUME NEW c \in Elems(L[q][n])
        PROVE  /\ Live(After(p, c, msg)) => After(p, c, msg) = c
               /\ c.msg = Files => After(p, c, msg) = c
               /\ ~(After(p, c, msg).open /\ After(p, c, msg).from = p)
    <3>1. c \in Connection
      BY FromProc
    <3>2. c.open => c.msg = Nothing
      BY DEF FilesGood, Carried
    <3>3. Nothing # Files
      BY DEF Nothing, Files
    <3>4. CASE c.from = p /\ c.open
      <4>1. /\ After(p, c, msg) = [c EXCEPT !.open = FALSE, !.msg = msg]
            /\ After(p, c, msg).open = FALSE /\ After(p, c, msg).msg = msg
        BY <3>1, <3>4 DEF After, Connection
      <4> QED  BY <3>2, <3>3, <3>4, <4>1 DEF Live
    <3>5. CASE ~(c.from = p /\ c.open)
      BY <3>5 DEF After
    <3> QED  BY <3>4, <3>5
  <2>3. \A d \in Elems(M[q][n]) : \E c \in Elems(L[q][n]) : d = After(p, c, msg)
    BY <2>1
  <2>4. \A c \in Elems(L[q][n]) : After(p, c, msg) \in Elems(M[q][n])
    BY <2>1
  <2> QED  BY <2>1, <2>2, <2>3, <2>4
<1>2. FilesGood(M, a, o, t)
  BY <1>1, ThinnedGood
<1> QED
  BY <1>1, <1>2

\* The files are written: to the one instance where the connection is.
LEMMA SentGood ==
    ASSUME NEW p \in Proc, NEW L \in [Proc -> [Name -> Seq(Connection)]], NEW M,
           Fills(p, L, M, Files), NEW a \in [Proc -> Place], NEW o,
           NEW t \in [Proc -> Proc \cup {None}], FilesGood(L, a, o, t), a[p] = "send_write",
           NEW r \in Proc, \E n \in Name : \E c \in Elems(L[r][n]) : c.open /\ c.from = p,
           NEW b, b = [a EXCEPT ![p] = "sent"], NEW v, v = [t EXCEPT ![p] = r]
    PROVE  FilesGood(M, b, o, v)
<1>1. /\ b[p] = "sent" /\ v[p] = r
      /\ \A q \in Proc : q # p => b[q] = a[q] /\ v[q] = t[q]
  OBVIOUS
<1>2. PICK n0 \in Name : \E c \in Elems(L[r][n0]) : c.open /\ c.from = p
  OBVIOUS
<1>3. PICK c0 \in Elems(L[r][n0]) : c0.open /\ c0.from = p
  BY <1>2
<1>4. PICK i0 \in Spots(L[r][n0]) : c0 = L[r][n0][i0]
  BY <1>3 DEF Elems, Spots, Live
<1>5. ASSUME NEW q \in Proc, NEW n \in Name, NEW c \in Elems(L[q][n]), c.open, c.from = p
      PROVE  q = r
  <2>1. PICK i \in Spots(L[q][n]) : c = L[q][n][i]
    BY <1>5 DEF Elems, Spots, Live
  <2>2. L[q][n][i].from = L[r][n0][i0].from
    BY <1>3, <1>4, <1>5, <2>1
  <2>3. OneLive(L)
    BY DEF FilesGood
  <2> QED  BY <2>2, <2>3, OnlyOne, ZenonT(150)
<1>6. OneLive(M)
  <2>1. \A q \in Proc : \A n \in Name : Thins(L[q][n], M[q][n])
    BY DEF Fills
  <2> QED  BY <2>1, ThinnedOne DEF FilesGood
<1>7. o[p] = {} /\ "sent" \in Ended /\ "sent" \notin {"off"} \cup Sending
  BY DEF FilesGood, Own, Sending, Ended
<1>8. Nothing # Files
  BY DEF Nothing, Files
<1>9. ASSUME NEW q \in Proc, NEW n \in Name, NEW c \in Elems(L[q][n])
      PROVE  /\ c.from \in Proc /\ After(p, c, Files) \in Elems(M[q][n])
             /\ c.from = p /\ c.open => /\ After(p, c, Files).open = FALSE /\ q = r
                                        /\ After(p, c, Files).msg = Files
                                        /\ After(p, c, Files).from = p
             /\ ~(c.from = p /\ c.open) => After(p, c, Files) = c
             /\ c.msg = Files => After(p, c, Files) = c /\ c.from # p
  <2>1. c \in Connection /\ c.from \in Proc
    BY FromProc
  <2>6. Elems(M[q][n]) = {After(p, d, Files) : d \in Elems(L[q][n])}
    BY Zenon DEF Fills
  <2>2. After(p, c, Files) \in Elems(M[q][n])
    BY <2>6
  <2>3. /\ c.open => c.msg = Nothing
        /\ c.msg = Files => a[c.from] = "sent"
    BY DEF FilesGood, Carried
  <2>4. ASSUME c.from = p, c.open
        PROVE  /\ After(p, c, Files).open = FALSE /\ q = r
               /\ After(p, c, Files).msg = Files /\ After(p, c, Files).from = p
    BY <1>5, <2>1, <2>4 DEF After, Connection
  <2>5. ~(c.from = p /\ c.open) => After(p, c, Files) = c
    BY DEF After
  <2> QED  BY <1>8, <2>1, <2>2, <2>3, <2>4, <2>5
<1>10. Carried(M, b, o, v)
  <2> SUFFICES ASSUME NEW q \in Proc, NEW n \in Name, NEW d \in Elems(M[q][n])
               PROVE  /\ d.open => d.msg = Nothing /\ b[d.from] \in Writing
                      /\ d.msg = Files => b[d.from] = "sent" /\ v[d.from] = q /\ o[d.from] = {}
    BY DEF Carried
  <2>4. Elems(M[q][n]) = {After(p, c, Files) : c \in Elems(L[q][n])}
    BY Zenon DEF Fills
  <2>1. PICK c \in Elems(L[q][n]) : d = After(p, c, Files)
    BY <2>4
  <2>2. CASE c.from = p /\ c.open
    BY <1>1, <1>7, <1>9, <2>1, <2>2
  <2>3. CASE ~(c.from = p /\ c.open)
    <3>1. d = c /\ c.from \in Proc /\ (c.msg = Files => c.from # p)
      BY <1>9, <2>1, <2>3
    <3>2. /\ c.open => c.msg = Nothing /\ a[c.from] \in Writing
          /\ c.msg = Files => a[c.from] = "sent" /\ t[c.from] = q /\ o[c.from] = {}
      BY DEF FilesGood, Carried
    <3> QED  BY <1>1, <2>3, <3>1, <3>2
  <2> QED  BY <2>2, <2>3
<1>11. Own(b, o)
  BY <1>1, <1>7 DEF FilesGood, Own
<1>12. Taken(M, b, o, v)
  <2> SUFFICES ASSUME NEW w \in Proc, b[w] = "sent"
               PROVE  /\ v[w] \in Proc /\ o[w] \subseteq {v[w]}
                      /\ v[w] \in o[w] \/ Waits(M, w, v[w]) \/ b[v[w]] \in Closing \cup Ended
    BY DEF Taken
  <2>1. CASE w = p
    <3>2. PICK d \in Elems(M[r][n0]) : d = After(p, c0, Files)
      BY <1>9
    <3>3. d.from = p /\ d.msg = Files
      <4>1. c0.from = p /\ c0.open
        BY <1>3
      <4>2. After(p, c0, Files).msg = Files /\ After(p, c0, Files).from = p
        <5>1. c0 \in Connection
          BY FromProc
        <5> QED  BY <4>1, <5>1 DEF After, Connection
      <4> QED  BY <3>2, <4>2
    <3>1. Waits(M, p, r)
      BY <3>3, Zenon DEF Waits
    <3> QED  BY <1>1, <1>7, <2>1, <3>1
  <2>2. CASE w # p
    <3>1. /\ t[w] \in Proc /\ v[w] = t[w] /\ o[w] \subseteq {t[w]}
          /\ t[w] \in o[w] \/ Waits(L, w, t[w]) \/ a[t[w]] \in Closing \cup Ended
      BY <1>1, <2>2 DEF FilesGood, Taken
    <3>2. ASSUME Waits(L, w, t[w]) PROVE Waits(M, w, t[w])
      <4>1. PICK n \in Name : \E c \in Elems(L[t[w]][n]) : c.from = w /\ c.msg = Files
        BY <3>2 DEF Waits
      <4>2. PICK c \in Elems(L[t[w]][n]) : c.from = w /\ c.msg = Files
        BY <4>1
      <4>4. PICK q \in Proc : q = t[w]
        BY <3>1
      <4>5. c \in Elems(L[q][n])
        BY <4>4
      <4>6. After(p, c, Files) = c /\ After(p, c, Files) \in Elems(M[q][n])
        BY <1>9, <4>2, <4>5, Zenon
      <4>3. c \in Elems(M[q][n])
        BY <4>6
      <4> QED  BY <4>2, <4>3, <4>4 DEF Waits
    <3>3. a[t[w]] \in Closing \cup Ended => b[t[w]] \in Closing \cup Ended
      BY <1>1, <1>7, <3>1
    <3> QED  BY <3>1, <3>2, <3>3
  <2> QED  BY <2>1, <2>2
<1> QED
  BY <1>6, <1>10, <1>11, <1>12 DEF FilesGood

LEMMA WrittenFiles == ASSUME IInv, FilesInv, NEW p \in Proc, Written(p) PROVE FilesInv'
<1>1. PICK msg : msg = IF at[p] = "send_write" THEN Files ELSE News(stamp[p])
  OBVIOUS
<1>2. Ends(p, msg) /\ at[p] \in Writing /\ openers' = openers /\ HasOther(p) # {}
  BY <1>1 DEF Written
<1>3. msg \in Message
  <2>1. CASE at[p] = "send_write"
    BY <1>1, <2>1, Messages
  <2>2. CASE at[p] = "tell_write"
    <3>1. stamp[p] >= 1 /\ stamp[p] + left[p] <= told
      BY <2>2 DEF IInv, StampsOK, Telling
    <3>2. stamp[p] \in Nat /\ left[p] \in Nat /\ told \in 0..MaxNews /\ MaxNews \in Nat
      BY AppInputAssumption DEF IInv, ProcessesOK
    <3>3. stamp[p] \in 1..MaxNews
      BY <3>1, <3>2
    <3> QED  BY <1>1, <2>2, <3>3, Messages
  <2> QED  BY <1>2, <2>1, <2>2 DEF Writing
<1>4. PICK L, M : L = Lines /\ M = Lines'
  OBVIOUS
<1>5. M = [q \in Proc |-> [n \in Name |->
              Filled(p, conns[q][n], msg) \o Filled(p, backlog[q][n], msg)]]
  <2>1. M = [q \in Proc |-> [n \in Name |-> conns'[q][n] \o backlog'[q][n]]]
    BY <1>4 DEF Lines
  <2>2. \A q \in Proc : \A n \in Name : /\ conns'[q][n] = Filled(p, conns[q][n], msg)
                                        /\ backlog'[q][n] = Filled(p, backlog[q][n], msg)
    BY <1>2 DEF Ends
  <2> QED  BY <2>1, <2>2
<1>6. /\ L \in [Proc -> [Name -> Seq(Connection)]] /\ FilesGood(L, at, openers, taker)
      /\ M \in [Proc -> [Name -> Seq(Connection)]] /\ Fills(p, L, M, msg)
  BY <1>3, <1>4, <1>5, FillLines, LinesType DEF IInv, FilesInv
<1> HIDE DEF Lines
<1>7. CASE at[p] = "send_write"
  <2>1. PICK r \in HasOther(p) : taker' = [taker EXCEPT ![p] = r]
    BY <1>2, <1>7 DEF Written
  <2>2. r \in Proc /\ \E n \in Name : \E c \in Elems(L[r][n]) : c.open /\ c.from = p
    <3>1. r \in Proc
      BY DEF HasOther
    <3> QED  BY <1>4, <3>1, OpenOnes DEF IInv
  <2>3. PICK a, b, t, v : a = at /\ b = at' /\ t = taker /\ v = taker'
    OBVIOUS
  <2>4. /\ b = [a EXCEPT ![p] = "sent"] /\ v = [t EXCEPT ![p] = r] /\ a[p] = "send_write"
        /\ a \in [Proc -> Place] /\ t \in [Proc -> Proc \cup {None}]
    BY <1>7, <2>1, <2>3 DEF Written, Goes, IInv, ProcessesOK
  <2>6. Fills(p, L, M, Files) /\ FilesGood(L, a, openers, t)
    BY <1>1, <1>6, <1>7, <2>3
  <2>5. FilesGood(M, b, openers, v)
    BY <1>6, <2>2, <2>4, <2>6, SentGood
  <2> QED  BY <1>2, <1>4, <2>3, <2>5 DEF FilesInv
<1>8. CASE at[p] = "tell_write"
  <2>1. msg # Files
    BY <1>1, <1>8 DEF News, Files
  <2>2. /\ FilesGood(M, at, openers, taker)
        /\ \A q \in Proc : \A n \in Name : \A c \in Elems(M[q][n]) : ~(c.open /\ c.from = p)
    BY <1>6, <2>1, FilledGood
  <2>3. Goes(p, "tell") /\ taker' = taker
    BY <1>8 DEF Written
  <2>4. "tell" \notin {"off"} \cup Sending /\ "tell_write" \notin Closing \cup Ended
    BY DEF Sending, Closing, Ended
  <2>5. FilesGood(M, at', openers', taker)
    BY <1>2, <1>6, <1>8, <2>2, <2>3, <2>4, MovedOn DEF IInv
  <2> QED  BY <1>4, <2>3, <2>5 DEF FilesInv
<1> QED
  BY <1>2, <1>7, <1>8 DEF Writing

\* An instance reads what is the first to read of a socket.
LEMMA ReadFiles ==
    ASSUME IInv, FilesInv, NEW p \in Proc, NEW n \in Name, read_input(p, n)
    PROVE  FilesInv'
<1>1. PICK i \in DOMAIN conns[p][n] :
          /\ i \in Readable(conns[p][n])
          /\ conns' = [conns EXCEPT ![p][n] = Removed(@, i)]
          /\ \/ /\ conns[p][n][i].msg = Files
                /\ openers' = [openers EXCEPT ![conns[p][n][i].from] = @ \cup {p}]
                /\ Goes(p, "tell")
             \/ /\ conns[p][n][i].msg # Files
                /\ UNCHANGED <<at, openers>>
  <2>1. PICK i \in DOMAIN conns[p][n] :
            /\ IsFirst(i, Readable(conns[p][n]))
            /\ conns' = [conns EXCEPT ![p][n] = Removed(@, i)]
            /\ \/ /\ conns[p][n][i].msg = Files
                  /\ openers' = [openers EXCEPT ![conns[p][n][i].from] = @ \cup {p}]
                  /\ Goes(p, "tell")
               \/ /\ conns[p][n][i].msg.kind = "news"
                  /\ UNCHANGED <<at, openers>>
               \/ /\ conns[p][n][i].msg = Nothing
                  /\ UNCHANGED <<at, openers>>
    BY Zenon DEF read_input
  <2>2. i \in Readable(conns[p][n])
    BY <2>1 DEF IsFirst
  <2>3. Files.kind # "news" /\ Nothing # Files
    BY DEF Files, Nothing
  <2> QED  BY <2>1, <2>2, <2>3
<1>2. backlog' = backlog /\ taker' = taker /\ at[p] = "running"
  BY DEF read_input
<1>3. PICK s \in Seq(Connection), r \in Seq(Connection) :
          s = conns[p][n] /\ r = backlog[p][n] /\ Lines[p][n] = s \o r
  BY LinesType DEF IInv
<1>4. PICK new : new = Removed(s, i) \o r
  OBVIOUS
<1>5. i \in DOMAIN s /\ s[i] \in Connection /\ ~s[i].open
  <2>1. i \in DOMAIN s /\ ~s[i].open
    BY <1>1, <1>3 DEF Readable
  <2> QED  BY <2>1, ElementOfSeq
<1>6. PICK L, M : L = Lines /\ M = Lines'
  OBVIOUS
<1>7. L \in [Proc -> [Name -> Seq(Connection)]] /\ M = [L EXCEPT ![p][n] = new]
  <2>1. L \in [Proc -> [Name -> Seq(Connection)]] /\ conns \in [Proc -> [Name -> Seq(Connection)]]
    BY <1>6, LinesType DEF IInv, WiresOK
  <2>2. /\ conns'[p][n] = Removed(s, i)
        /\ \A w \in Proc : \A m \in Name : w # p \/ m # n => conns'[w][m] = conns[w][m]
    BY <1>1, <1>3, <2>1
  <2>3. ASSUME NEW w \in Proc, NEW m \in Name
        PROVE  conns'[w][m] \o backlog'[w][m] = IF w = p /\ m = n THEN new ELSE L[w][m]
    <3>1. CASE w = p /\ m = n
      BY <1>2, <1>3, <1>4, <2>2, <3>1
    <3>2. CASE ~(w = p /\ m = n)
      <4>1. L[w][m] = conns[w][m] \o backlog[w][m]
        BY <1>6, LinesType DEF IInv
      <4> QED  BY <1>2, <2>2, <3>2, <4>1
    <3> QED  BY <3>1, <3>2
  <2>4. M = [w \in Proc |-> [m \in Name |-> IF w = p /\ m = n THEN new ELSE L[w][m]]]
    BY <1>6, <2>3, Zenon DEF Lines
  <2> QED  BY <2>1, <2>4
<1> HIDE DEF Lines
<1>8. /\ Thins(L[p][n], new) /\ Elems(new) \subseteq Elems(L[p][n])
      /\ Elems(L[p][n]) \subseteq Elems(new) \cup {s[i]}
      /\ L[p][n][i] = s[i]
      /\ Live(s[i]) => i \in Spots(L[p][n])
      /\ Live(s[i]) => Skips(L[p][n], i, new)
  <2>1. PICK l \in Seq(Connection) : l = s \o r
    BY JoinIs
  <2>2. l[i] = s[i] /\ i \in DOMAIN l
    BY <1>5, <2>1, JoinIs
  <2>3. Live(s[i]) => i \in Spots(l)
    BY <2>2 DEF Spots
  <2>4. /\ Thins(s \o r, Removed(s, i) \o r)
        /\ Elems(Removed(s, i) \o r) \subseteq Elems(s \o r)
        /\ Elems(s \o r) \subseteq Elems(Removed(s, i) \o r) \cup {s[i]}
        /\ Live(s[i]) => Skips(s \o r, i, Removed(s, i) \o r)
    BY <1>5, ReadFrom
  <2>5. L[p][n] = l
    BY <1>3, <1>6, <2>1
  <2> QED  BY <1>4, <2>1, <2>2, <2>3, <2>4, <2>5, Zenon
<1>9. FilesGood(L, at, openers, taker)
  BY <1>6 DEF FilesInv
<1>12. M \in [Proc -> [Name -> Seq(Connection)]]
  <2>1. new \in Seq(Connection)
    BY <1>4, <1>5, RemovedType, JoinIs
  <2> QED  BY <1>7, <2>1, SocketType
<1>10. CASE s[i].msg = Files
  <2>1. openers' = [openers EXCEPT ![L[p][n][i].from] = @ \cup {p}] /\ Goes(p, "tell")
    BY <1>1, <1>3, <1>8, <1>10
  <2>2. PICK a, o, u : a = at /\ o = openers /\ u = openers'
    OBVIOUS
  <2>3. Live(s[i])
    BY <1>10 DEF Live
  <2>4. o \in [Proc -> SUBSET Proc] /\ FilesGood(L, a, o, taker) /\ L[p][n][i].msg = Files
        /\ i \in Spots(L[p][n]) /\ u = [o EXCEPT ![L[p][n][i].from] = @ \cup {p}]
    BY <1>8, <1>9, <1>10, <2>1, <2>2, <2>3 DEF IInv, ProcessesOK
  <2>5. FilesGood(M, a, u, taker)
    <3>1. Skips(L[p][n], i, new)
      BY <1>8, <2>3
    <3>2. Elems(L[p][n]) \subseteq Elems(new) \cup {L[p][n][i]}
      BY <1>8
    <3>3. Thins(L[p][n], new) /\ Elems(new) \subseteq Elems(L[p][n])
      BY <1>8
    <3> QED  BY <1>7, <2>4, <3>1, <3>2, <3>3, ReadGood
  <2>6. PICK b : b = at'
    OBVIOUS
  <2>7. /\ b = [a EXCEPT ![p] = "tell"] /\ a \in [Proc -> Place] /\ a[p] = "running"
        /\ u \in [Proc -> SUBSET Proc]
    <3>1. u \in [Proc -> SUBSET Proc]
      BY <2>4
    <3> QED  BY <1>2, <2>1, <2>2, <2>6, <3>1 DEF Goes, IInv, ProcessesOK
  <2>8. /\ "tell" \notin {"off"} \cup Sending /\ "running" \notin Closing \cup Ended
        /\ "running" \notin Writing
    BY DEF Sending, Closing, Ended, Writing
  <2>9. \A q \in Proc : \A m \in Name : \A c \in Elems(M[q][m]) :
            c.from \in Proc /\ ~(c.open /\ c.from = p)
    <3>1. \A q \in Proc : \A m \in Name : \A c \in Elems(M[q][m]) : c.open => a[c.from] \in Writing
      BY <2>5 DEF FilesGood, Carried
    <3>2. \A q \in Proc : \A m \in Name : \A c \in Elems(M[q][m]) : c.from \in Proc
      BY <1>12, FromProc
    <3> QED  BY <2>7, <2>8, <3>1, <3>2
  <2>10. FilesGood(M, b, u, taker)
    BY <2>5, <2>7, <2>8, <2>9, PlaceFiles
  <2> QED  BY <1>2, <1>6, <2>2, <2>6, <2>10 DEF FilesInv
<1>11. CASE s[i].msg # Files
  <2>1. at' = at /\ openers' = openers
    BY <1>1, <1>3, <1>11
  <2>2. ASSUME NEW w \in Proc, NEW m \in Name
        PROVE  /\ Thins(L[w][m], M[w][m])
               /\ \A c \in Elems(M[w][m]) : Live(c) => c \in Elems(L[w][m])
               /\ \A c \in Elems(L[w][m]) :
                     c.msg = Files => c \in Elems(M[w][m]) \/ at[w] \in Closing \cup Ended
    <3>1. CASE w = p /\ m = n
      BY <1>7, <1>8, <1>11, <3>1
    <3>2. CASE w # p \/ m # n
      BY <1>7, <3>2, ThinsSelf
    <3> QED  BY <3>1, <3>2
  <2>3. FilesGood(M, at, openers, taker)
    BY <1>9, <2>2, ThinnedGood
  <2> QED  BY <1>2, <1>6, <2>1, <2>3 DEF FilesInv
<1> QED
  BY <1>10, <1>11

\* What an instance that is closed, or was killed, has not read is lost.
LEMMA EmptiedGood ==
    ASSUME NEW L, NEW M, NEW a, NEW o, NEW t, FilesGood(L, a, o, t),
           \A q \in Proc : \A n \in Name :
              M[q][n] = L[q][n] \/ (M[q][n] = <<>> /\ a[q] \in Closing \cup Ended)
    PROVE  FilesGood(M, a, o, t)
<1>1. ASSUME NEW q \in Proc, NEW n \in Name
      PROVE  /\ Thins(L[q][n], M[q][n])
             /\ \A c \in Elems(M[q][n]) : Live(c) => c \in Elems(L[q][n])
             /\ \A c \in Elems(L[q][n]) :
                   c.msg = Files => c \in Elems(M[q][n]) \/ a[q] \in Closing \cup Ended
  <2>1. CASE M[q][n] = L[q][n]
    BY <2>1, ThinsSelf
  <2>2. CASE M[q][n] = <<>> /\ a[q] \in Closing \cup Ended
    <3>1. Thins(L[q][n], <<>>) /\ Elems(<<>>) = {}
      BY ThinsEmpty
    <3> QED  BY <2>2, <3>1
  <2> QED  BY <2>1, <2>2
<1> QED
  BY <1>1, ThinnedGood

LEMMA EmptyJoins == <<>> \o <<>> = <<>>
BY EmptySeq, ConcatEmptySeq

LEMMA ShutdownFiles == ASSUME IInv, FilesInv, NEW p \in Proc, Shutdown(p) PROVE FilesInv'
<1>1. at[p] = "close" /\ UNCHANGED <<openers, taker>>
  BY DEF Shutdown
<1>2. {"close", "close_unlink"} \subseteq Closing /\ "close" \notin Writing
  BY DEF Closing, Writing
<1>3. CASE sockets[p] = {}
  <2>1. Goes(p, "quit") /\ UNCHANGED wires
    BY <1>3 DEF Shutdown
  <2> QED  BY <1>1, <1>2, <2>1, FromTo DEF IInv
<1>4. CASE sockets[p] # {}
  <2>1. PICK n : n = IF Main \in sockets[p] THEN Main ELSE p
    OBVIOUS
  <2>2. /\ backlog' = [backlog EXCEPT ![p][n] = <<>>]
        /\ conns' = [conns EXCEPT ![p][n] = <<>>]
        /\ Goes(p, "close_unlink")
    BY <1>4, <2>1 DEF Shutdown
  <2>3. n \in Name
    BY <2>1 DEF Name
  <2>4. /\ backlog \in [Proc -> [Name -> Seq(Connection)]]
        /\ conns \in [Proc -> [Name -> Seq(Connection)]]
    BY DEF IInv, WiresOK
  <2>5. PICK L, M : L = Lines /\ M = Lines'
    OBVIOUS
  <2>6. /\ L \in [Proc -> [Name -> Seq(Connection)]] /\ FilesGood(L, at, openers, taker)
        /\ \A q \in Proc : \A m \in Name : L[q][m] = conns[q][m] \o backlog[q][m]
        /\ \A q \in Proc : \A m \in Name : M[q][m] = conns'[q][m] \o backlog'[q][m]
    BY <2>5, LinesType DEF IInv, FilesInv, Lines
  <2>7. \A q \in Proc : \A m \in Name :
            M[q][m] = L[q][m] \/ (M[q][m] = <<>> /\ at[q] \in Closing \cup Ended)
    <3> SUFFICES ASSUME NEW q \in Proc, NEW m \in Name
                 PROVE  M[q][m] = L[q][m] \/ (M[q][m] = <<>> /\ at[q] \in Closing \cup Ended)
      OBVIOUS
    <3>1. CASE q = p /\ m = n
      <4>1. conns'[q][m] = <<>> /\ backlog'[q][m] = <<>>
        BY <2>2, <2>3, <2>4, <3>1
      <4>2. M[q][m] = <<>>
        BY <2>6, <4>1, EmptyJoins
      <4> QED  BY <1>1, <1>2, <3>1, <4>2
    <3>2. CASE ~(q = p /\ m = n)
      <4>1. conns'[q][m] = conns[q][m] /\ backlog'[q][m] = backlog[q][m]
        BY <2>2, <2>3, <2>4, <3>2
      <4>2. /\ M[q][m] = conns'[q][m] \o backlog'[q][m]
            /\ L[q][m] = conns[q][m] \o backlog[q][m]
        BY <2>6, ZenonT(60)
      <4> QED  BY <4>1, <4>2, ZenonT(60)
    <3> QED  BY <3>1, <3>2
  <2> HIDE DEF Lines
  <2>8. FilesGood(M, at, openers, taker)
    BY <2>6, <2>7, EmptiedGood
  <2>9. M \in [Proc -> [Name -> Seq(Connection)]]
    <3>1. L \in [Proc -> [Name -> Seq(Connection)]] /\ <<>> \in Seq(Connection)
      BY <2>6
    <3>2. \A q \in Proc : \A m \in Name : M[q][m] \in Seq(Connection)
      BY <2>7, <3>1
    <3>3. M = [q \in Proc |-> [m \in Name |-> M[q][m]]]
      BY <2>5 DEF Lines
    <3> QED  BY <3>2, <3>3
  <2>10. /\ "close_unlink" \notin {"off"} \cup Sending /\ "close" \notin Writing
         /\ "close_unlink" # "sent" /\ "close" # "sent"
    BY DEF Sending, Writing
  <2>11. FilesGood(M, at', openers', taker)
    BY <1>1, <1>2, <2>2, <2>8, <2>9, <2>10, MovedOn DEF IInv
  <2> QED  BY <1>1, <2>5, <2>11 DEF FilesInv
<1> QED
  BY <1>3, <1>4

LEMMA DiesFiles ==
    ASSUME IInv, FilesInv, NEW p \in Proc, Dies(p), at[p] \notin Ended
    PROVE  FilesInv'
<1>1. /\ Goes(p, "killed") /\ UNCHANGED <<openers, taker>>
      /\ backlog' = [q \in Proc |-> [n \in Name |->
                        IF q = p THEN <<>> ELSE Filled(p, backlog[q][n], Nothing)]]
      /\ conns' = [q \in Proc |-> [n \in Name |->
                        IF q = p THEN <<>> ELSE Filled(p, conns[q][n], Nothing)]]
  BY DEF Dies
<1>2. PICK L, N, M : /\ L = Lines /\ M = Lines'
                     /\ N = [q \in Proc |-> [n \in Name |->
                               Filled(p, conns[q][n], Nothing) \o Filled(p, backlog[q][n], Nothing)]]
  OBVIOUS
<1>3. \A q \in Proc : \A n \in Name : M[q][n] = IF q = p THEN <<>> ELSE N[q][n]
  <2> SUFFICES ASSUME NEW q \in Proc, NEW n \in Name
               PROVE  M[q][n] = IF q = p THEN <<>> ELSE N[q][n]
    OBVIOUS
  <2>1. M[q][n] = conns'[q][n] \o backlog'[q][n]
    BY <1>2 DEF Lines
  <2>2. CASE q = p
    <3>1. conns'[q][n] = <<>> /\ backlog'[q][n] = <<>>
      BY <1>1, <2>2
    <3> QED  BY <2>1, <2>2, <3>1, EmptyJoins
  <2>3. CASE q # p
    <3>1. /\ conns'[q][n] = Filled(p, conns[q][n], Nothing)
          /\ backlog'[q][n] = Filled(p, backlog[q][n], Nothing)
      BY <1>1, <2>3
    <3> QED  BY <1>2, <2>1, <2>3, <3>1
  <2> QED  BY <2>2, <2>3
<1>4. /\ L \in [Proc -> [Name -> Seq(Connection)]] /\ FilesGood(L, at, openers, taker)
      /\ N \in [Proc -> [Name -> Seq(Connection)]] /\ Fills(p, L, N, Nothing)
  BY <1>2, FillLines, LinesType, Messages DEF IInv, FilesInv
<1> HIDE DEF Lines
<1>5. /\ FilesGood(N, at, openers, taker)
      /\ \A q \in Proc : \A n \in Name : \A c \in Elems(N[q][n]) : ~(c.open /\ c.from = p)
  <2>1. Nothing # Files
    BY DEF Nothing, Files
  <2> QED  BY <1>4, <2>1, FilledGood
<1>6. FilesGood(N, at', openers', taker)
  <2>1. "killed" \notin {"off"} \cup Sending /\ "killed" \in Ended /\ "sent" \in Ended
    BY DEF Sending, Ended
  <2> QED  BY <1>1, <1>4, <1>5, <2>1, MovedOn DEF IInv
<1>7. at'[p] \in Closing \cup Ended
  BY <1>1 DEF IInv, ProcessesOK, Goes, Ended
<1>8. FilesGood(M, at', openers', taker)
  <2>1. \A q \in Proc : \A n \in Name :
            M[q][n] = N[q][n] \/ (M[q][n] = <<>> /\ at'[q] \in Closing \cup Ended)
    BY <1>3, <1>7
  <2> QED  BY <1>6, <2>1, EmptiedGood
<1> QED
  BY <1>1, <1>2, <1>8 DEF FilesInv

LEMMA KilledFiles == ASSUME IInv, FilesInv, NEW p \in Proc, Killed(p) \/ KilledWriting(p) PROVE FilesInv'
<1>1. Dies(p) /\ at[p] \notin Ended
  BY DEF Killed, KilledWriting, Writing, Ended
<1> QED
  BY <1>1, DiesFiles

LEMMA FilesStep == ASSUME IInv, FilesInv, [Next]_vars PROVE FilesInv'
<1>1. CASE UNCHANGED vars
  BY <1>1, Unmoved DEF vars
<1>2. ASSUME NEW p \in Proc, Start(p) PROVE FilesInv'
  BY <1>2, StartFiles
<1>3. ASSUME NEW p \in Proc, Step(p) PROVE FilesInv'
  BY <1>3, TrySendFiles, NobodyTookItFiles, ConnectedFiles, RefusedFiles, UnlinkedFiles,
     WrittenFiles, NotWrittenFiles, ClaimFiles, BoundFiles, ListenFiles, TellFiles,
     ShutdownFiles, ShutdownUnlinkFiles, ShutdownRmdirFiles, Zenon DEF Step
<1>4. ASSUME NEW p \in Proc, MainLoop(p) PROVE FilesInv'
  BY <1>4, AcceptFiles, ReadFiles, Zenon DEF MainLoop
<1>5. ASSUME NEW p \in Proc, Visit(p) \/ Quit(p) \/ Killed(p) \/ KilledWriting(p) PROVE FilesInv'
  BY <1>5, VisitFiles, QuitFiles, KilledFiles, Zenon
<1> QED
  BY <1>1, <1>2, <1>3, <1>4, <1>5, Zenon DEF Next

(***************************************************************************)
(* The files given to a medit are opened by one instance at most, although *)
(* paths are removed under those who use them, connections are closed at   *)
(* either end at any time and instances come, quit and are killed: one that*)
(* gave its files away and ended has them open there, or waiting there to  *)
(* be read, unless that instance ended (do_send() of mooappinput-unix.cpp).*)
(***************************************************************************)
THEOREM FilesAreOpenedOnce == Spec => []FilesOpenedOnce
<1>1. Init => IInv /\ FilesInv
  BY InitInv, FilesInit
<1>2. IInv /\ FilesInv /\ [Next]_vars => (IInv /\ FilesInv)'
  BY NextInv, FilesStep
<1>3. IInv /\ FilesInv => FilesOpenedOnce
  BY FilesEnough DEF IInv
<1> QED
  BY <1>1, <1>2, <1>3, PTL DEF Spec

-----------------------------------------------------------------------------
(***************************************************************************)
(* The handover: AppInput implements FileHandover.                         *)
(***************************************************************************)
Unsent == {"off"} \cup Sending

\* A process goes to `x': nobody looks for an instance twice, or leaves its end.
Moves(p, x) ==
    /\ at' = [at EXCEPT ![p] = x] /\ x \in Place
    /\ at[p] \notin Ended
    /\ at[p] \in Closing => x \in Closing \cup Ended
    /\ x \in Unsent => at[p] \in Unsent
    /\ x = "sent" => at[p] = "send_write"

LEMMA Stays ==
    ASSUME IInv, NEW p \in Proc, UNCHANGED at, at[p] \notin Ended
    PROVE  \E x : Moves(p, x)
<1>1. at' = [at EXCEPT ![p] = at[p]] /\ at[p] \in Place /\ at[p] # "sent"
  BY DEF IInv, ProcessesOK, Ended
<1> QED
  BY <1>1 DEF Moves

\* One step on, before an instance runs, in it, or at its end.
LEMMA MovesOn ==
    ASSUME IInv, NEW p \in Proc, NEW x, Goes(p, x),
           \/ at[p] \in Unsent /\ x \in Sending \cup Claiming \cup {"failed"}
           \/ at[p] = "send_write" /\ x = "sent"
           \/ at[p] \in Claiming \cup Telling \cup {"running"} /\ x \in Claiming \cup Telling \cup {"running", "close"}
           \/ at[p] \in Closing /\ x \in Closing \cup {"quit"}
           \/ at[p] \notin Ended /\ x = "killed"
    PROVE  Moves(p, x)
<1>1. /\ at' = [at EXCEPT ![p] = x] /\ x \in Place /\ at[p] \notin Ended
      /\ x = "sent" => at[p] = "send_write"
  BY DEF Goes, Unsent, Place, Sending, Claiming, Telling, Closing, Ended
<1>2. at[p] \in Closing => x \in Closing \cup Ended
  BY DEF Unsent, Sending, Claiming, Telling, Closing, Ended
<1>3. x \in Unsent => at[p] \in Unsent
  BY DEF Unsent, Sending, Claiming, Telling, Closing
<1> QED
  BY <1>1, <1>2, <1>3 DEF Moves

LEMMA SendingMoves ==
    ASSUME IInv, NEW p \in Proc, Start(p) \/ try_send(p) \/ NobodyTookIt(p)
    PROVE  \E x : Moves(p, x)
<1>1. CASE Start(p)
  <2>1. at[p] \in Unsent /\ (Goes(p, "send") \/ Goes(p, "claim"))
    BY <1>1 DEF Start, Unsent
  <2>2. "send" \in Sending /\ "claim" \in Claiming
    BY DEF Sending, Claiming
  <2> QED  BY <2>1, <2>2, MovesOn
<1>2. CASE try_send(p)
  <2>1. \/ UNCHANGED at
        \/ at[p] = "send" /\ Goes(p, "send_connect")
        \/ at[p] = "tell" /\ Goes(p, "tell_connect")
    BY <1>2, InsteadGoes DEF try_send, Sending, Claiming
  <2>2. at[p] \in {"send", "tell"}
    BY <1>2 DEF try_send
  <2>3. "send" \in Unsent /\ "send_connect" \in Sending /\ {"tell", "tell_connect"} \subseteq Telling
        /\ "send" \notin Ended /\ "tell" \notin Ended
    BY DEF Unsent, Sending, Telling, Ended
  <2> QED  BY <2>1, <2>2, <2>3, MovesOn, Stays
<1>3. CASE NobodyTookIt(p)
  <2>1. at[p] = "send" /\ (UNCHANGED at \/ Goes(p, "failed") \/ Goes(p, "claim"))
    BY <1>3 DEF NobodyTookIt
  <2>2. "send" \in Unsent /\ "claim" \in Claiming /\ "send" \notin Ended
    BY DEF Unsent, Sending, Claiming, Ended
  <2> QED  BY <2>1, <2>2, MovesOn, Stays
<1> QED
  BY <1>1, <1>2, <1>3

LEMMA ClaimNextMoves ==
    ASSUME IInv, NEW p \in Proc, at[p] \in Claiming, ClaimNext(p)
    PROVE  \E x : Moves(p, x)
<1>1. Goes(p, "claim") \/ Goes(p, "tell")
  BY DEF ClaimNext
<1>2. "claim" \in Claiming /\ "tell" \in Telling
  BY DEF Claiming, Telling
<1> QED
  BY <1>1, <1>2, MovesOn

LEMMA SocketMoves ==
    ASSUME IInv, NEW p \in Proc,
           Connected(p) \/ Refused(p) \/ Unlinked(p) \/ Written(p) \/ NotWritten(p)
    PROVE  \E x : Moves(p, x)
<1>1. /\ {"send", "send_connect", "send_unlink", "send_write"} \subseteq Sending \cap Unsent
      /\ {"claim", "claim_connect", "claim_unlink", "claim_bind"} \subseteq Claiming
      /\ {"tell", "tell_connect", "tell_unlink", "tell_write"} \subseteq Telling
  BY DEF Unsent, Sending, Claiming, Telling
<1>2. CASE Connected(p)
  <2>1. \/ at[p] = "claim_connect" /\ ClaimNext(p)
        \/ at[p] = "send_connect" /\ Goes(p, "send_write")
        \/ at[p] = "tell_connect" /\ Goes(p, "tell_write")
    <3>1. at[p] \in Connecting /\ (at[p] = "claim_connect" => ClaimNext(p))
          /\ (at[p] # "claim_connect" => Instead(p, "send_write", "", "tell_write"))
      BY <1>2, Zenon DEF Connected
    <3> QED  BY <3>1, InsteadGoes DEF Connecting, Sending, Claiming
  <2> QED  BY <1>1, <2>1, MovesOn, ClaimNextMoves
<1>3. CASE Refused(p)
  <2>1. \/ at[p] = "send_connect" /\ Goes(p, "send_unlink")
        \/ at[p] = "claim_connect" /\ Goes(p, "claim_unlink")
        \/ at[p] = "tell_connect" /\ Goes(p, "tell_unlink")
    BY <1>3, InsteadGoes DEF Refused, Connecting, Sending, Claiming
  <2> QED  BY <1>1, <2>1, MovesOn
<1>4. CASE Unlinked(p)
  <2>1. \/ at[p] = "send_unlink" /\ Goes(p, "send")
        \/ at[p] = "claim_unlink" /\ Goes(p, "claim_bind")
        \/ at[p] = "tell_unlink" /\ Goes(p, "tell")
    BY <1>4, InsteadGoes DEF Unlinked, Unlinking, Sending, Claiming
  <2> QED  BY <1>1, <2>1, MovesOn
<1>5. CASE Written(p)
  <2>1. \/ at[p] = "send_write" /\ Goes(p, "sent")
        \/ at[p] = "tell_write" /\ Goes(p, "tell")
    BY <1>5 DEF Written, Writing
  <2> QED  BY <1>1, <2>1, MovesOn
<1>6. CASE NotWritten(p)
  <2>1. \/ at[p] = "send_write" /\ Goes(p, "send")
        \/ at[p] = "tell_write" /\ Goes(p, "tell")
    BY <1>6, InsteadGoes DEF NotWritten, Writing, Sending, Claiming
  <2> QED  BY <1>1, <2>1, MovesOn
<1> QED
  BY <1>2, <1>3, <1>4, <1>5, <1>6

LEMMA InstanceMoves ==
    ASSUME IInv, NEW p \in Proc, Claim(p) \/ Bound(p) \/ Listen(p) \/ Tell(p) \/ Visit(p) \/ Quit(p)
    PROVE  \E x : Moves(p, x)
<1>1. {"claim", "claim_connect", "claim_bind", "claim_listen"} \subseteq Claiming /\ "tell" \in Telling \ Ended
  BY DEF Claiming, Telling, Ended
<1>2. CASE Claim(p)
  <2>1. at[p] = "claim" /\ Goes(p, "claim_connect")
    BY <1>2 DEF Claim
  <2> QED  BY <1>1, <2>1, MovesOn
<1>3. CASE Bound(p) \/ Listen(p)
  <2>1. at[p] \in {"claim_bind", "claim_listen"} /\ (Goes(p, "claim_listen") \/ ClaimNext(p))
    BY <1>3, Zenon DEF Bound, Listen
  <2> QED  BY <1>1, <2>1, MovesOn, ClaimNextMoves
<1>4. CASE Tell(p)
  <2>1. at[p] = "tell" /\ (UNCHANGED at \/ Goes(p, "close") \/ Goes(p, "running"))
    BY <1>4 DEF Tell
  <2> QED  BY <1>1, <2>1, MovesOn, Stays
<1>5. CASE Visit(p) \/ Quit(p)
  <2>1. at[p] = "running" /\ Goes(p, "tell")
    BY <1>5 DEF Visit, Quit
  <2> QED  BY <1>1, <2>1, MovesOn
<1> QED
  BY <1>2, <1>3, <1>4, <1>5

LEMMA LoopMoves ==
    ASSUME IInv, NEW p \in Proc, MainLoop(p)
    PROVE  \E x : Moves(p, x)
<1>1. at[p] = "running" /\ (UNCHANGED at \/ Goes(p, "tell"))
  BY Zenon DEF MainLoop, accept_connection, read_input
<1>2. "running" \notin Ended /\ "tell" \in Telling
  BY DEF Ended, Telling
<1> QED
  BY <1>1, <1>2, MovesOn, Stays

LEMMA EndMoves ==
    ASSUME IInv, NEW p \in Proc,
           Shutdown(p) \/ ShutdownUnlink(p) \/ ShutdownRmdir(p) \/ Killed(p) \/ KilledWriting(p)
    PROVE  \E x : Moves(p, x)
<1>1. {"close", "close_unlink", "close_rmdir"} \subseteq Closing
  BY DEF Closing
<1>2. CASE Shutdown(p)
  <2>1. at[p] = "close" /\ (Goes(p, "quit") \/ Goes(p, "close_unlink"))
    BY <1>2 DEF Shutdown
  <2> QED  BY <1>1, <2>1, MovesOn
<1>3. CASE ShutdownUnlink(p) \/ ShutdownRmdir(p)
  <2>1. at[p] \in {"close_unlink", "close_rmdir"} /\ (Goes(p, "close_rmdir") \/ Goes(p, "close"))
    BY <1>3 DEF ShutdownUnlink, ShutdownRmdir
  <2> QED  BY <1>1, <2>1, MovesOn
<1>4. CASE Killed(p) \/ KilledWriting(p)
  <2>1. Goes(p, "killed") /\ at[p] \notin Ended
    BY <1>4 DEF Killed, KilledWriting, Dies, Writing, Ended
  <2> QED  BY <2>1, MovesOn
<1> QED
  BY <1>2, <1>3, <1>4

\* What a process may do.
Acts(p) == Start(p) \/ Step(p) \/ MainLoop(p) \/ Visit(p) \/ Quit(p) \/ Killed(p) \/ KilledWriting(p)

LEMMA OneMoves ==
    ASSUME IInv, NEW p \in Proc, Acts(p)
    PROVE  \E x : Moves(p, x)
BY SendingMoves, SocketMoves, InstanceMoves, LoopMoves, EndMoves, Zenon DEF Acts, Step

\* A process that looks for an instance has no sockets: nobody waits there.
FreshAt(q) == sockets[q] = {} /\ \A n \in Name : conns[q][n] = <<>> /\ backlog[q][n] = <<>>

Fresh == \A q \in Proc : at[q] \in Unsent => FreshAt(q)

LEMMA FreshInit == ASSUME Init PROVE Fresh
BY AppInputAssumption DEF Init, Fresh, FreshAt, Unsent, Sending

\* What touches no socket and no connection.
Elsewhere(p) ==
    \/ Start(p) \/ try_send(p) \/ NobodyTookIt(p) \/ Refused(p) \/ Unlinked(p) \/ NotWritten(p)
    \/ Claim(p) \/ Bound(p) \/ Tell(p) \/ Visit(p) \/ Quit(p) \/ ShutdownUnlink(p) \/ ShutdownRmdir(p)

LEMMA ElsewhereKeeps ==
    ASSUME NEW p \in Proc, Elsewhere(p)
    PROVE  UNCHANGED <<conns, backlog, sockets, taker>>
<1>1. Start(p) \/ try_send(p) \/ NobodyTookIt(p) => UNCHANGED <<conns, backlog, sockets, taker>>
  BY Zenon DEF Start, try_send, NobodyTookIt
<1>2. Refused(p) \/ Unlinked(p) \/ NotWritten(p) => UNCHANGED <<conns, backlog, sockets, taker>>
  BY Zenon DEF Refused, Unlinked, NotWritten
<1>3. Claim(p) \/ Bound(p) \/ Tell(p) \/ Visit(p) => UNCHANGED <<conns, backlog, sockets, taker>>
  BY Zenon DEF Claim, Bound, Tell, Visit
<1>4. Quit(p) \/ ShutdownUnlink(p) \/ ShutdownRmdir(p) => UNCHANGED <<conns, backlog, sockets, taker>>
  BY Zenon DEF Quit, ShutdownUnlink, ShutdownRmdir
<1> QED
  BY <1>1, <1>2, <1>3, <1>4, Zenon DEF Elsewhere

LEMMA ActsAre ==
    ASSUME NEW p \in Proc, Acts(p)
    PROVE  \/ Elsewhere(p) \/ Connected(p) \/ Written(p) \/ Listen(p) \/ Shutdown(p)
           \/ (\E n \in Name : accept_connection(p, n) \/ read_input(p, n))
           \/ (Dies(p) /\ at[p] \notin Ended)
<1>1. Killed(p) \/ KilledWriting(p) => Dies(p) /\ at[p] \notin Ended
  BY DEF Killed, KilledWriting, Writing, Ended
<1> QED
  BY <1>1, Zenon DEF Acts, Step, MainLoop, Elsewhere

LEMMA FilledEmpty == ASSUME NEW p, NEW msg PROVE Filled(p, <<>>, msg) = <<>>
BY DEF Filled

\* Another process, and one that has not yet run.
LEMMA FreshStays ==
    ASSUME IInv, NEW p \in Proc, Acts(p), NEW q \in Proc, at[q] \in Unsent, FreshAt(q)
    PROVE  FreshAt(q)'
<1>1. /\ conns \in [Proc -> [Name -> Seq(Connection)]] /\ backlog \in [Proc -> [Name -> Seq(Connection)]]
      /\ sockets \in [Proc -> SUBSET Name]
  BY DEF IInv, WiresOK, ProcessesOK
<1>2. CASE Elsewhere(p)
  BY <1>2, ElsewhereKeeps DEF FreshAt
<1>3. CASE Connected(p)
  <2>1. PICK n \in Name : n = target[p]
    BY DEF IInv, ProcessesOK
  <2>2. /\ n \in sockets[file[n]]
        /\ \E c : backlog' = [backlog EXCEPT ![file[n]][n] = Append(@, c)]
        /\ UNCHANGED <<conns, sockets>>
    BY <1>3, <2>1, Zenon DEF Connected, Listens
  <2>3. file[n] # q
    BY <2>2 DEF FreshAt
  <2>4. backlog'[q] = backlog[q]
    BY <1>1, <2>2, <2>3
  <2> QED  BY <2>2, <2>4 DEF FreshAt
<1>4. CASE Written(p)
  <2>1. sockets' = sockets /\ \E msg : Ends(p, msg)
    BY <1>4, Zenon DEF Written
  <2>2. \A n \in Name : \E msg : conns'[q][n] = Filled(p, <<>>, msg) /\ backlog'[q][n] = Filled(p, <<>>, msg)
    BY <2>1 DEF Ends, FreshAt
  <2> QED  BY <2>1, <2>2, FilledEmpty DEF FreshAt
<1>5. CASE Listen(p)
  <2>1. /\ at[p] = "claim_listen" /\ sockets' = [sockets EXCEPT ![p] = @ \cup {target[p]}]
        /\ UNCHANGED <<conns, backlog>>
    BY <1>5, Zenon DEF Listen
  <2>2. p # q
    BY <2>1 DEF Unsent, Sending
  <2> QED  BY <1>1, <2>1, <2>2 DEF FreshAt
<1>6. CASE Shutdown(p)
  <2>1. /\ at[p] = "close"
        /\ \/ UNCHANGED <<conns, backlog, sockets>>
           \/ \E n : /\ sockets' = [sockets EXCEPT ![p] = @ \ {n}]
                     /\ backlog' = [backlog EXCEPT ![p][n] = <<>>]
                     /\ conns' = [conns EXCEPT ![p][n] = <<>>]
    BY <1>6, Zenon DEF Shutdown
  <2>2. p # q
    BY <2>1 DEF Unsent, Sending
  <2> QED  BY <1>1, <2>1, <2>2 DEF FreshAt
<1>7. ASSUME NEW n \in Name, accept_connection(p, n) \/ read_input(p, n) PROVE FreshAt(q)'
  <2>1. /\ at[p] = "running" /\ sockets' = sockets
        /\ \E s : conns' = [conns EXCEPT ![p][n] = s]
        /\ \E s : backlog' = [backlog EXCEPT ![p][n] = s]
    <3>1. CASE accept_connection(p, n)
      BY <3>1 DEF accept_connection
    <3>2. CASE read_input(p, n)
      <4>1. at[p] = "running" /\ UNCHANGED <<sockets, backlog>> /\ \E s : conns' = [conns EXCEPT ![p][n] = s]
        BY <3>2, Zenon DEF read_input
      <4>2. backlog' = [backlog EXCEPT ![p][n] = backlog[p][n]]
        BY <1>1, <4>1
      <4> QED  BY <4>1, <4>2
    <3> QED  BY <1>7, <3>1, <3>2
  <2>2. p # q
    BY <2>1 DEF Unsent, Sending
  <2> QED  BY <1>1, <2>1, <2>2 DEF FreshAt
<1>8. CASE Dies(p)
  <2>1. \A n \in Name : /\ conns'[q][n] \in {<<>>, Filled(p, <<>>, Nothing)}
                        /\ backlog'[q][n] \in {<<>>, Filled(p, <<>>, Nothing)}
    BY <1>8 DEF Dies, FreshAt
  <2>2. sockets'[q] = {}
    BY <1>1, <1>8 DEF Dies, FreshAt
  <2> QED  BY <2>1, <2>2, FilledEmpty DEF FreshAt
<1> QED
  BY <1>2, <1>3, <1>4, <1>5, <1>6, <1>7, <1>8, ActsAre

LEMMA FreshStep == ASSUME IInv, Fresh, NEW p \in Proc, Acts(p) PROVE Fresh'
<1>1. PICK x : Moves(p, x)
  BY OneMoves
<1>2. \A q \in Proc : at'[q] \in Unsent => at[q] \in Unsent
  BY <1>1 DEF Moves, IInv, ProcessesOK
<1> QED
  BY <1>2, FreshStays DEF Fresh

-----------------------------------------------------------------------------
(* Where the files of a process wait *)

Brings(s, r) == \E c \in Elems(s) : c.from = r /\ c.msg = Files

Bring(q, n, r) == Brings(conns[q][n], r) \/ Brings(backlog[q][n], r)

LEMMA WaitBrings ==
    ASSUME NEW r, NEW q
    PROVE  WaitAt(r, q) <=> \E n \in Name : Bring(q, n, r)
<1>1. ASSUME NEW s PROVE Brings(s, r) <=> \E i \in DOMAIN s : s[i].from = r /\ s[i].msg = Files
  BY Zenon DEF Brings, Elems
<1> QED
  BY <1>1 DEF WaitAt, Bring

LEMMA BringsAppended ==
    ASSUME NEW s \in Seq(Connection), NEW c \in Connection, NEW r
    PROVE  Brings(Append(s, c), r) <=> Brings(s, r) \/ (c.from = r /\ c.msg = Files)
BY Appended DEF Brings

LEMMA BringsTail ==
    ASSUME NEW s \in Seq(Connection), s # <<>>, NEW r
    PROVE  Brings(s, r) <=> Brings(Tail(s), r) \/ (Head(s).from = r /\ Head(s).msg = Files)
<1>1. PICK t \in Seq(Connection) : t = Tail(s)
  BY HeadTailProperties
<1>2. /\ Len(s) \in Nat /\ Len(s) >= 1 /\ Len(t) = Len(s) - 1 /\ Head(s) = s[1]
      /\ \A i \in 1 .. Len(t) : t[i] = s[i + 1]
  BY <1>1, HeadTailProperties
<1>3. Elems(s) = Elems(t) \cup {Head(s)}
  <2>1. ASSUME NEW i \in DOMAIN t PROVE t[i] \in Elems(s)
    <3>1. i + 1 \in DOMAIN s /\ t[i] = s[i + 1]
      BY <1>2
    <3> QED  BY <3>1 DEF Elems
  <2>2. ASSUME NEW i \in DOMAIN s, i # 1 PROVE s[i] \in Elems(t)
    <3>1. i - 1 \in DOMAIN t /\ t[i - 1] = s[(i - 1) + 1] /\ (i - 1) + 1 = i
      BY <1>2, <2>2
    <3> QED  BY <3>1 DEF Elems
  <2>3. 1 \in DOMAIN s
    BY <1>2
  <2>4. Elems(s) \subseteq Elems(t) \cup {Head(s)}
    <3>1. \A i \in DOMAIN s : s[i] \in Elems(t) \cup {Head(s)}
      BY <1>2, <2>2
    <3> QED  BY <3>1, Zenon DEF Elems
  <2>5. Elems(t) \subseteq Elems(s)
    BY <2>1, Zenon DEF Elems
  <2>6. Head(s) \in Elems(s)
    BY <1>2, <2>3 DEF Elems
  <2> QED  BY <2>4, <2>5, <2>6
<1> QED
  BY <1>1, <1>3 DEF Brings

LEMMA BringsRemoved ==
    ASSUME NEW s \in Seq(Connection), NEW i \in DOMAIN s, NEW r, Brings(Removed(s, i), r)
    PROVE  Brings(s, r)
<1>1. Elems(Removed(s, i) \o <<>>) \subseteq Elems(s \o <<>>)
  <2>1. <<>> \in Seq(Connection)
    OBVIOUS
  <2> QED  BY <2>1, ReadFrom
<1>2. Removed(s, i) \o <<>> = Removed(s, i) /\ s \o <<>> = s
  BY RemovedType, ConcatEmptySeq
<1> QED
  BY <1>1, <1>2 DEF Brings

LEMMA BringsFilled ==
    ASSUME NEW p \in Proc, NEW s \in Seq(Connection), NEW msg, NEW r, r # p,
           \A c \in Elems(s) : c.open => c.msg # Files
    PROVE  Brings(Filled(p, s, msg), r) <=> Brings(s, r)
<1>1. PICK t : t = Filled(p, s, msg)
  OBVIOUS
<1>2. \A i \in DOMAIN s : s[i] \in Connection
  OBVIOUS
<1>3. DOMAIN t = DOMAIN s
  BY <1>1 DEF Filled
<1>4. ASSUME NEW i \in DOMAIN s
      PROVE  t[i].from = r /\ t[i].msg = Files <=> s[i].from = r /\ s[i].msg = Files
  <2>1. t[i] = IF s[i].from = p /\ s[i].open
               THEN [s[i] EXCEPT !.open = FALSE, !.msg = msg] ELSE s[i]
    BY <1>1 DEF Filled, Mine
  <2>2. [s[i] EXCEPT !.open = FALSE, !.msg = msg].from = s[i].from
    BY <1>2 DEF Connection
  <2> QED  BY <2>1, <2>2
<1>5. \A l : Brings(l, r) <=> \E i \in DOMAIN l : l[i].from = r /\ l[i].msg = Files
  BY Zenon DEF Brings, Elems
<1>6. Brings(t, r) <=> \E i \in DOMAIN s : t[i].from = r /\ t[i].msg = Files
  BY <1>3, <1>5
<1>7. Brings(s, r) <=> \E i \in DOMAIN s : s[i].from = r /\ s[i].msg = Files
  BY <1>5
<1> QED
  BY <1>1, <1>4, <1>6, <1>7

\* What Carried says of both lists of a socket.
LEMMA CarriedHere ==
    ASSUME IInv, FilesInv, NEW q \in Proc, NEW n \in Name
    PROVE  /\ conns[q][n] \in Seq(Connection) /\ backlog[q][n] \in Seq(Connection)
           /\ \A c \in Elems(conns[q][n]) \cup Elems(backlog[q][n]) :
                 /\ c.open => c.msg # Files
                 /\ c.msg = Files => at[c.from] = "sent" /\ taker[c.from] = q /\ openers[c.from] = {}
<1>1. PICK s \in Seq(Connection), r \in Seq(Connection) :
          s = conns[q][n] /\ r = backlog[q][n] /\ Lines[q][n] = s \o r
  BY LinesType DEF IInv
<1>2. Elems(Lines[q][n]) = Elems(s) \cup Elems(r)
  BY <1>1, JoinIs
<1>3. Nothing # Files
  BY DEF Nothing, Files
<1>4. \A c \in Elems(Lines[q][n]) :
         /\ c.open => c.msg = Nothing
         /\ c.msg = Files => at[c.from] = "sent" /\ taker[c.from] = q /\ openers[c.from] = {}
  BY Zenon DEF FilesInv, FilesGood, Carried
<1>5. Elems(conns[q][n]) \cup Elems(backlog[q][n]) = Elems(Lines[q][n])
  BY <1>1, <1>2
<1>6. conns[q][n] \in Seq(Connection) /\ backlog[q][n] \in Seq(Connection)
  BY <1>1
<1>7. PICK all : all = Elems(Lines[q][n])
  OBVIOUS
<1>8. ASSUME NEW c \in all
      PROVE  /\ c.open => c.msg # Files
             /\ c.msg = Files => at[c.from] = "sent" /\ taker[c.from] = q /\ openers[c.from] = {}
  <2>1. /\ c.open => c.msg = Nothing
        /\ c.msg = Files => at[c.from] = "sent" /\ taker[c.from] = q /\ openers[c.from] = {}
    BY <1>4, <1>7, Zenon
  <2> QED  BY <1>3, <2>1
<1> QED
  BY <1>5, <1>6, <1>7, <1>8

\* What waits of a process that is not the one that acts: nothing is added, and what
\* waits at others stays.
LEMMA ListStays ==
    ASSUME IInv, FilesInv, NEW p \in Proc, Acts(p), NEW q \in Proc, NEW n \in Name, NEW r, r # p
    PROVE  (Bring(q, n, r)' => Bring(q, n, r)) /\ (q # p => (Bring(q, n, r) => Bring(q, n, r)'))
<1>1. /\ conns \in [Proc -> [Name -> Seq(Connection)]] /\ backlog \in [Proc -> [Name -> Seq(Connection)]]
      /\ conns[q][n] \in Seq(Connection) /\ backlog[q][n] \in Seq(Connection)
  BY CarriedHere DEF IInv, WiresOK
<1>2. CASE UNCHANGED <<conns, backlog>>
  BY <1>2 DEF Bring
<1>3. CASE Connected(p)
  <2>1. PICK m \in Name : m = target[p]
    BY DEF IInv, ProcessesOK
  <2>2. PICK c : c = [from |-> p, open |-> at[p] # "claim_connect", msg |-> Nothing]
    OBVIOUS
  <2>3. backlog' = [backlog EXCEPT ![file[m]][m] = Append(@, c)] /\ conns' = conns
    BY <1>3, <2>1, <2>2 DEF Connected
  <2>4. c \in Connection /\ c.from = p
    BY <2>2, Messages DEF Connection
  <2>5. backlog'[q][n] \in {backlog[q][n], Append(backlog[q][n], c)}
    BY <1>1, <2>3
  <2>6. PICK s \in Seq(Connection) : s = backlog[q][n]
    BY <1>1
  <2>7. Brings(Append(s, c), r) <=> Brings(s, r)
    BY <2>4, BringsAppended
  <2> QED  BY <2>3, <2>5, <2>6, <2>7 DEF Bring
<1>4. CASE Written(p)
  <2>1. PICK msg : Ends(p, msg)
    BY <1>4, Zenon DEF Written
  <2>2. conns'[q][n] = Filled(p, conns[q][n], msg) /\ backlog'[q][n] = Filled(p, backlog[q][n], msg)
    BY <2>1 DEF Ends
  <2>3. /\ Brings(Filled(p, conns[q][n], msg), r) <=> Brings(conns[q][n], r)
        /\ Brings(Filled(p, backlog[q][n], msg), r) <=> Brings(backlog[q][n], r)
    BY CarriedHere, BringsFilled
  <2> QED  BY <2>2, <2>3 DEF Bring
<1>5. CASE Shutdown(p)
  <2>1. \/ UNCHANGED <<conns, backlog>>
        \/ \E m : /\ backlog' = [backlog EXCEPT ![p][m] = <<>>]
                  /\ conns' = [conns EXCEPT ![p][m] = <<>>]
    BY <1>5, Zenon DEF Shutdown
  <2>2. \/ conns'[q][n] = conns[q][n] /\ backlog'[q][n] = backlog[q][n]
        \/ q = p /\ conns'[q][n] = <<>> /\ backlog'[q][n] = <<>>
    BY <1>1, <2>1
  <2>3. ~Brings(<<>>, r)
    BY DEF Brings, Elems
  <2> QED  BY <2>2, <2>3 DEF Bring
<1>6. ASSUME NEW m \in Name, accept_connection(p, m)
      PROVE  Bring(q, n, r)' <=> Bring(q, n, r)
  <2>1. /\ conns' = [conns EXCEPT ![p][m] = Append(@, Head(backlog[p][m]))]
        /\ backlog' = [backlog EXCEPT ![p][m] = Tail(@)] /\ backlog[p][m] # <<>>
    BY <1>6 DEF accept_connection
  <2>2. CASE q = p /\ n = m
    <3>1. PICK s \in Seq(Connection), b \in Seq(Connection) : s = conns[q][n] /\ b = backlog[q][n]
      BY <1>1
    <3>2. conns'[q][n] = Append(s, Head(b)) /\ backlog'[q][n] = Tail(b) /\ b # <<>>
      BY <1>1, <2>1, <2>2, <3>1
    <3>3. Head(b) \in Connection
      BY <3>2, HeadTailProperties
    <3>4. /\ Brings(Append(s, Head(b)), r) <=> Brings(s, r) \/ (Head(b).from = r /\ Head(b).msg = Files)
          /\ Brings(b, r) <=> Brings(Tail(b), r) \/ (Head(b).from = r /\ Head(b).msg = Files)
      BY <3>2, <3>3, BringsAppended, BringsTail
    <3> QED  BY <3>1, <3>2, <3>4 DEF Bring
  <2>3. CASE ~(q = p /\ n = m)
    <3>1. conns'[q][n] = conns[q][n] /\ backlog'[q][n] = backlog[q][n]
      BY <1>1, <2>1, <2>3
    <3> QED  BY <3>1 DEF Bring
  <2> QED  BY <2>2, <2>3
<1>7. ASSUME NEW m \in Name, read_input(p, m)
      PROVE  (Bring(q, n, r)' => Bring(q, n, r)) /\ (q # p => (Bring(q, n, r) => Bring(q, n, r)'))
  <2>1. PICK i \in DOMAIN conns[p][m] : conns' = [conns EXCEPT ![p][m] = Removed(@, i)]
    BY <1>7, Zenon DEF read_input
  <2>2. backlog' = backlog
    BY <1>7, Zenon DEF read_input
  <2>3. CASE q = p /\ n = m
    <3>1. conns'[q][n] = Removed(conns[q][n], i)
      BY <1>1, <2>1, <2>3
    <3>2. PICK s \in Seq(Connection) : s = conns[q][n]
      BY <1>1
    <3>3. i \in DOMAIN s /\ (Brings(Removed(s, i), r) => Brings(s, r))
      BY <2>1, <2>3, <3>2, BringsRemoved
    <3> QED  BY <2>2, <2>3, <3>1, <3>2, <3>3 DEF Bring
  <2>4. CASE ~(q = p /\ n = m)
    <3>1. conns'[q][n] = conns[q][n]
      BY <1>1, <2>1, <2>4
    <3> QED  BY <2>2, <3>1 DEF Bring
  <2> QED  BY <2>3, <2>4
<1>8. CASE Dies(p)
  <2>1. /\ conns'[q][n] = IF q = p THEN <<>> ELSE Filled(p, conns[q][n], Nothing)
        /\ backlog'[q][n] = IF q = p THEN <<>> ELSE Filled(p, backlog[q][n], Nothing)
    BY <1>8 DEF Dies
  <2>2. /\ Brings(Filled(p, conns[q][n], Nothing), r) <=> Brings(conns[q][n], r)
        /\ Brings(Filled(p, backlog[q][n], Nothing), r) <=> Brings(backlog[q][n], r)
    BY CarriedHere, BringsFilled
  <2>3. ~Brings(<<>>, r)
    BY DEF Brings, Elems
  <2> QED  BY <2>1, <2>2, <2>3 DEF Bring
<1>9. Elsewhere(p) \/ Listen(p) => UNCHANGED <<conns, backlog>>
  BY ElsewhereKeeps, Zenon DEF Listen
<1> QED
  BY <1>2, <1>3, <1>4, <1>5, <1>6, <1>7, <1>8, <1>9, ActsAre

LEMMA WaitsStay ==
    ASSUME IInv, FilesInv, NEW p \in Proc, Acts(p), NEW q \in Proc, NEW r, r # p
    PROVE  /\ WaitAt(r, q)' => WaitAt(r, q)
           /\ q # p => (WaitAt(r, q) => WaitAt(r, q)')
<1>1. \A s : Brings(s, r) <=> \E i \in DOMAIN s : s[i].from = r /\ s[i].msg = Files
  BY Zenon DEF Brings, Elems
<1>2. WaitAt(r, q) <=> \E n \in Name : Bring(q, n, r)
  BY <1>1 DEF WaitAt, Bring
<1>3. WaitAt(r, q)' <=> \E n \in Name : Bring(q, n, r)'
  BY <1>1 DEF WaitAt, Bring
<1>4. \A n \in Name : (Bring(q, n, r)' => Bring(q, n, r)) /\ (q # p => (Bring(q, n, r) => Bring(q, n, r)'))
  BY ListStays
<1> QED
  BY <1>2, <1>3, <1>4

\* The three things a step does with files: nothing, sending them, opening them.
Leaves(p) == UNCHANGED <<openers, taker>> /\ at'[p] # "sent"

Sends(p, q) ==
    /\ at[p] = "send_write" /\ at'[p] = "sent" /\ openers' = openers
    /\ q \in HasOther(p) /\ taker' = [taker EXCEPT ![p] = q] /\ Ends(p, Files)

Opens(p, r) ==
    /\ openers' = [openers EXCEPT ![r] = @ \cup {p}] /\ taker' = taker /\ at'[p] = "tell"
    /\ \/ r = p /\ at[p] \in Claiming
       \/ at[p] = "running" /\ at[r] = "sent" /\ taker[r] = p /\ openers[r] = {} /\ WaitAt(r, p)

LEMMA ClaimNextHands ==
    ASSUME IInv, NEW p \in Proc, at[p] \in Claiming, ClaimNext(p), taker' = taker
    PROVE  Leaves(p) \/ Opens(p, p)
<1>1. \/ Goes(p, "claim") /\ openers' = openers
      \/ Goes(p, "tell") /\ openers' = [openers EXCEPT ![p] = @ \cup {p}]
  BY DEF ClaimNext
<1> QED
  BY <1>1 DEF Leaves, Opens, Goes, IInv, ProcessesOK

LEMMA ElsewhereHands ==
    ASSUME IInv, NEW p \in Proc, Elsewhere(p)
    PROVE  Leaves(p) \/ Opens(p, p)
<1>1. taker' = taker
  BY ElsewhereKeeps
<1>2. CASE Bound(p)
  <2>1. at[p] = "claim_bind" /\ (ClaimNext(p) \/ (Goes(p, "claim_listen") /\ openers' = openers))
    BY <1>2, Zenon DEF Bound
  <2>2. "claim_bind" \in Claiming
    BY DEF Claiming
  <2>3. CASE ClaimNext(p)
    BY <1>1, <2>1, <2>2, <2>3, ClaimNextHands
  <2>4. CASE Goes(p, "claim_listen") /\ openers' = openers
    BY <1>1, <2>4 DEF Leaves, Goes, IInv, ProcessesOK
  <2> QED  BY <2>1, <2>3, <2>4
<1>3. CASE ~Bound(p)
  <2>1. openers' = openers
    <3>1. Start(p) \/ try_send(p) \/ NobodyTookIt(p) \/ Refused(p) => openers' = openers
      BY Zenon DEF Start, try_send, NobodyTookIt, Refused
    <3>2. Unlinked(p) \/ NotWritten(p) \/ Claim(p) \/ Tell(p) => openers' = openers
      BY Zenon DEF Unlinked, NotWritten, Claim, Tell
    <3>3. Visit(p) \/ Quit(p) \/ ShutdownUnlink(p) \/ ShutdownRmdir(p) => openers' = openers
      BY Zenon DEF Visit, Quit, ShutdownUnlink, ShutdownRmdir
    <3> QED  BY <1>3, <3>1, <3>2, <3>3, Zenon DEF Elsewhere
  <2>2. PICK x : Moves(p, x)
    <3>1. Acts(p)
      BY Zenon DEF Elsewhere, Acts, Step
    <3> QED  BY <3>1, OneMoves
  <2>3. x # "sent"
    <3>1. at[p] = "send_write" => NotWritten(p)
      BY <1>3 DEF Elsewhere, Start, try_send, NobodyTookIt, Refused, Connecting, Unlinked, Unlinking, Claim,
         Tell, Visit, Quit, ShutdownUnlink, ShutdownRmdir
    <3>2. NotWritten(p) /\ at[p] = "send_write" => Goes(p, "send")
      BY InsteadGoes DEF NotWritten, Sending
    <3> QED  BY <2>2, <3>1, <3>2 DEF Moves, Goes, IInv, ProcessesOK
  <2>4. at'[p] = x
    BY <2>2 DEF Moves, IInv, ProcessesOK
  <2> QED  BY <1>1, <2>1, <2>3, <2>4 DEF Leaves
<1> QED
  BY <1>2, <1>3

LEMMA ActsHand ==
    ASSUME IInv, FilesInv, NEW p \in Proc, Acts(p)
    PROVE  Leaves(p) \/ (\E q \in Proc : Sends(p, q)) \/ \E r \in Proc : Opens(p, r)
<1>1. at \in [Proc -> Place]
  BY DEF IInv, ProcessesOK
<1>2. CASE Elsewhere(p)
  BY <1>2, ElsewhereHands
<1>3. CASE Connected(p)
  <2>1. at[p] \in Connecting /\ taker' = taker
    BY <1>3, Zenon DEF Connected
  <2>2. CASE at[p] = "claim_connect"
    <3>1. ClaimNext(p) /\ at[p] \in Claiming
      BY <1>3, <2>2, Zenon DEF Connected, Claiming
    <3> QED  BY <2>1, <3>1, ClaimNextHands
  <2>3. CASE at[p] # "claim_connect"
    <3>1. Instead(p, "send_write", "", "tell_write") /\ openers' = openers
      BY <1>3, <2>3, Zenon DEF Connected
    <3>2. Goes(p, "send_write") \/ Goes(p, "tell_write")
      BY <2>1, <2>3, <3>1, InsteadGoes DEF Connecting, Sending, Claiming
    <3> QED  BY <1>1, <2>1, <3>1, <3>2 DEF Leaves, Goes
  <2> QED  BY <2>2, <2>3
<1>4. CASE Written(p)
  <2>1. CASE at[p] = "send_write"
    <3>1. /\ Ends(p, Files) /\ Goes(p, "sent") /\ openers' = openers
          /\ \E q \in HasOther(p) : taker' = [taker EXCEPT ![p] = q]
      BY <1>4, <2>1 DEF Written
    <3>2. HasOther(p) \subseteq Proc
      BY DEF HasOther
    <3> QED  BY <1>1, <2>1, <3>1, <3>2 DEF Sends, Goes
  <2>2. CASE at[p] # "send_write"
    <3>1. Goes(p, "tell") /\ UNCHANGED <<taker, openers>>
      BY <1>4, <2>2 DEF Written
    <3> QED  BY <1>1, <3>1 DEF Leaves, Goes
  <2> QED  BY <2>1, <2>2
<1>5. CASE Listen(p)
  <2>1. at[p] \in Claiming /\ ClaimNext(p) /\ taker' = taker
    BY <1>5 DEF Listen, Claiming
  <2> QED  BY <2>1, ClaimNextHands
<1>6. CASE Shutdown(p)
  <2>1. UNCHANGED <<taker, openers>> /\ (Goes(p, "quit") \/ Goes(p, "close_unlink"))
    BY <1>6, Zenon DEF Shutdown
  <2> QED  BY <1>1, <2>1 DEF Leaves, Goes
<1>7. CASE Dies(p)
  BY <1>1, <1>7 DEF Dies, Leaves, Goes
<1>8. ASSUME NEW n \in Name, accept_connection(p, n) PROVE Leaves(p)
  BY <1>8 DEF accept_connection, Leaves
<1>9. ASSUME NEW n \in Name, read_input(p, n) PROVE Leaves(p) \/ \E r \in Proc : Opens(p, r)
  <2>1. PICK i \in DOMAIN conns[p][n] :
            \/ /\ conns[p][n][i].msg = Files
               /\ openers' = [openers EXCEPT ![conns[p][n][i].from] = @ \cup {p}]
               /\ Goes(p, "tell")
            \/ UNCHANGED <<at, openers>>
    BY <1>9, Zenon DEF read_input
  <2>2. at[p] = "running" /\ taker' = taker
    BY <1>9, Zenon DEF read_input
  <2>3. PICK s \in Seq(Connection) : s = conns[p][n]
    BY DEF IInv, WiresOK
  <2>4. PICK r : r = s[i].from
    OBVIOUS
  <2>5. r \in Proc
    <3>1. i \in DOMAIN s
      BY <2>3
    <3>2. s[i] \in Connection
      BY <3>1, ElementOfSeq
    <3> QED  BY <2>4, <3>2 DEF Connection
  <2>6. CASE /\ s[i].msg = Files /\ Goes(p, "tell")
             /\ openers' = [openers EXCEPT ![r] = @ \cup {p}]
    <3>1. s[i] \in Elems(s)
      BY <2>3 DEF Elems
    <3>2. at[r] = "sent" /\ taker[r] = p /\ openers[r] = {}
      BY <2>3, <2>4, <2>6, <3>1, CarriedHere
    <3>3. WaitAt(r, p)
      BY <2>3, <2>4, <2>6, Zenon DEF WaitAt
    <3> QED  BY <1>1, <2>2, <2>5, <2>6, <3>2, <3>3 DEF Opens, Goes
  <2>7. CASE UNCHANGED <<at, openers>>
    BY <1>1, <2>2, <2>7 DEF Leaves
  <2> QED  BY <2>1, <2>3, <2>4, <2>6, <2>7
<1> QED
  BY <1>2, <1>3, <1>4, <1>5, <1>6, <1>7, <1>8, <1>9, ActsAre

-----------------------------------------------------------------------------
(* The steps of FileHandover *)

\* What has become of the files of `p', which `q' is to open.
FilesHere(p, q) ==
    IF openers[p] # {} THEN "open" ELSE IF at[p] # "sent" THEN "kept"
    ELSE IF WaitAt(p, q) THEN "given" ELSE "lost"

HandoverOK == \A p \in Proc : \E q \in Proc :
    /\ Keeper(p) = q /\ q = (IF at[p] = "sent" THEN taker[p] ELSE p)
    /\ openers[p] \in {{}, {q}}
    /\ at[p] \in Unsent => openers[p] = {}
    /\ FilesAre(p) = FilesHere(p, q)
    /\ FilesHere(p, q) = "lost" => Stopped(q)

LEMMA FilesAreHere ==
    ASSUME NEW p \in Proc, openers[p] \in {{}, {Keeper(p)}}
    PROVE  FilesAre(p) = FilesHere(p, Keeper(p))
<1>1. CASE openers[p] # {}
  BY <1>1 DEF FilesAre, FilesHere
<1>2. CASE openers[p] = {}
  BY <1>2 DEF FilesAre, FilesHere, Keeper
<1> QED
  BY <1>1, <1>2

LEMMA HandoverKnown == ASSUME IInv, FilesInv PROVE HandoverOK
<1> SUFFICES ASSUME NEW p \in Proc
             PROVE  \E q \in Proc :
                       /\ Keeper(p) = q /\ q = (IF at[p] = "sent" THEN taker[p] ELSE p)
                       /\ openers[p] \in {{}, {q}}
                       /\ at[p] \in Unsent => openers[p] = {}
                       /\ FilesAre(p) = FilesHere(p, q)
                       /\ FilesHere(p, q) = "lost" => Stopped(q)
  BY DEF HandoverOK
<1>1. Own(at, openers) /\ Taken(Lines, at, openers, taker)
  BY DEF FilesInv, FilesGood
<1>2. PICK q : q = Keeper(p)
  OBVIOUS
<1>3. q \in Proc /\ openers[p] \subseteq {q}
  BY <1>1, <1>2 DEF Own, Taken, Keeper
<1>4. openers[p] \in {{}, {q}}
  BY <1>3
<1>5. at[p] \in Unsent => openers[p] = {}
  BY <1>1 DEF Own, Unsent
<1>6. FilesAre(p) = FilesHere(p, q)
  BY <1>2, <1>4, FilesAreHere
<1>7. FilesHere(p, q) = "lost" => Stopped(q)
  <2>1. FilesOpenedOnce
    BY FilesEnough DEF IInv
  <2> QED  BY <1>2, <2>1 DEF FilesHere, Keeper, FilesOpenedOnce
<1> QED
  BY <1>2, <1>3, <1>4, <1>5, <1>6, <1>7 DEF Keeper

\* Only the process that acts moves, and it does not come back from its end.
LEMMA OthersAre ==
    ASSUME IInv, NEW p \in Proc, Acts(p)
    PROVE  /\ at[p] \notin Ended
           /\ \A w \in Proc : w # p => at'[w] = at[w] /\ (Stopped(w)' <=> Stopped(w))
           /\ Stopped(p) => Stopped(p)'
<1>1. PICK x : Moves(p, x)
  BY OneMoves
<1> QED
  BY <1>1 DEF Moves, Stopped, IInv, ProcessesOK

\* What the step of `p' leaves of the files of `w', when nobody else opens or gets them.
LEMMA FilesStay ==
    ASSUME IInv, FilesInv, HandoverOK, HandoverOK', NEW p \in Proc, Acts(p),
           NEW w \in Proc, openers'[w] = openers[w], taker'[w] = taker[w],
           at'[w] = "sent" <=> at[w] = "sent"
    PROVE  /\ Keeper(w)' = Keeper(w)
           /\ \/ FilesAre(w)' = FilesAre(w)
              \/ FilesAre(w) = "given" /\ FilesAre(w)' = "lost" /\ Stopped(Keeper(w))'
           /\ FilesAre(w) # "lost" \/ FilesAre(w)' = "lost"
<1>1. PICK q \in Proc :
          /\ Keeper(w) = q /\ q = (IF at[w] = "sent" THEN taker[w] ELSE w)
          /\ FilesAre(w) = FilesHere(w, q)
  BY DEF HandoverOK
<1>2. PICK r \in Proc :
          /\ Keeper(w)' = r /\ r = (IF at'[w] = "sent" THEN taker'[w] ELSE w)
          /\ FilesAre(w)' = FilesHere(w, r)'
          /\ FilesHere(w, r)' = "lost" => Stopped(r)'
  BY DEF HandoverOK
<1>3. r = q
  BY <1>1, <1>2
<1>4. at[w] = "sent" => (WaitAt(w, q)' => WaitAt(w, q))
  <2>1. at[w] = "sent" => w # p
    BY OthersAre DEF Ended
  <2> QED  BY <2>1, WaitsStay
<1>5. /\ FilesHere(w, q) = IF openers[w] # {} THEN "open" ELSE IF at[w] # "sent" THEN "kept"
                           ELSE IF WaitAt(w, q) THEN "given" ELSE "lost"
      /\ FilesHere(w, q)' = IF openers[w] # {} THEN "open" ELSE IF at[w] # "sent" THEN "kept"
                            ELSE IF WaitAt(w, q)' THEN "given" ELSE "lost"
  BY DEF FilesHere
<1>6. FilesAre(w) = FilesHere(w, q) /\ FilesAre(w)' = FilesHere(w, q)'
      /\ Keeper(w) = q /\ Keeper(w)' = q
  BY <1>1, <1>2, <1>3
<1>7. FilesAre(w)' = "lost" => Stopped(Keeper(w))'
  <2>1. FilesAre(w)' = "lost" => Stopped(q)'
    BY <1>2, <1>3
  <2>2. Stopped(Keeper(w))' <=> Stopped(q)'
    BY <1>6 DEF Stopped
  <2> QED  BY <2>1, <2>2
<1> QED
  BY <1>4, <1>5, <1>6, <1>7

LEMMA LeavesHandover ==
    ASSUME IInv, FilesInv, HandoverOK, HandoverOK', NEW p \in Proc, Acts(p), Leaves(p)
    PROVE  [Handover!Next]_(Handover!vars)
<1>1. openers' = openers /\ taker' = taker
  BY DEF Leaves
<1>2. \A w \in Proc : at'[w] = "sent" <=> at[w] = "sent"
  BY OthersAre DEF Leaves, Ended
<1>3. \A w \in Proc :
          /\ Keeper(w)' = Keeper(w)
          /\ \/ FilesAre(w)' = FilesAre(w)
             \/ FilesAre(w) = "given" /\ FilesAre(w)' = "lost" /\ Stopped(Keeper(w))'
  BY <1>1, <1>2, FilesStay
<1>4. PICK k, s, t, e, f :
          /\ k = [w \in Proc |-> Keeper(w)]
          /\ s = [w \in Proc |-> FilesAre(w)] /\ t = [w \in Proc |-> FilesAre(w)']
          /\ e = {w \in Proc : Stopped(w)} /\ f = {w \in Proc : Stopped(w)'}
  OBVIOUS
<1>5. PICK lost : lost = {w \in Proc : s[w] = "given" /\ t[w] = "lost"}
  OBVIOUS
<1>6. /\ [w \in Proc |-> Keeper(w)]' = k
      /\ t = [w \in Proc |-> IF w \in lost THEN "lost" ELSE s[w]]
  <2>1. \A w \in Proc : t[w] = IF w \in lost THEN "lost" ELSE s[w]
    BY <1>3, <1>4, <1>5
  <2> QED  BY <1>3, <1>4, <2>1
<1>7. \A w \in Proc : w \in lost => k[w] \in Proc /\ k[w] \in f
  <2>1. \A w \in Proc : Keeper(w) \in Proc
    BY DEF HandoverOK
  <2>2. \A w \in Proc : \A q \in Proc : Keeper(w) = q => (Stopped(Keeper(w))' <=> Stopped(q)')
    BY <1>3 DEF Stopped
  <2> QED  BY <1>3, <1>4, <1>5, <2>1, <2>2
<1>8. f = e \/ f = e \cup {p}
  BY <1>4, OthersAre
<1>9. lost \in SUBSET {w \in Proc : s[w] = "given" /\ k[w] \in f}
  BY <1>5, <1>7
<1>10. ASSUME NEW q \in Proc, f = e \cup {q}
       PROVE  Handover!Ends(q)
  BY <1>4, <1>6, <1>9, <1>10 DEF Handover!Ends
<1>11. CASE p \in f
  <2>1. f = e \cup {p}
    BY <1>8, <1>11
  <2> QED  BY <1>10, <2>1 DEF Handover!Next
<1>12. CASE p \notin f /\ lost = {}
  <2>1. f = e /\ t = s
    BY <1>4, <1>6, <1>8, <1>12
  <2> QED  BY <1>4, <1>6, <2>1 DEF Handover!vars
<1>13. CASE p \notin f /\ lost # {}
  <2>1. PICK w \in Proc : w \in lost
    BY <1>5, <1>13
  <2>2. k[w] \in Proc /\ f = e \cup {k[w]}
    BY <1>7, <1>8, <1>13, <2>1
  <2> QED  BY <1>10, <2>2 DEF Handover!Next
<1> QED
  BY <1>11, <1>12, <1>13

\* Nobody's files wait at a process that looks for an instance.
LEMMA FreshHasNone ==
    ASSUME NEW q \in Proc, FreshAt(q), NEW r
    PROVE  ~WaitAt(r, q) /\ q \notin HasOther(r)
<1>1. \A n \in Name : DOMAIN conns[q][n] = {} /\ DOMAIN backlog[q][n] = {}
  BY DEF FreshAt
<1> QED
  BY <1>1 DEF WaitAt, HasOther, Mine

\* What is written waits where the connection is open.
LEMMA SentWaits ==
    ASSUME IInv, NEW p \in Proc, NEW q \in Proc, Ends(p, Files), q \in HasOther(p)
    PROVE  WaitAt(p, q)'
<1>1. PICK n \in Name : Mine(p, backlog[q][n]) \cup Mine(p, conns[q][n]) # {}
  BY DEF HasOther
<1>2. /\ backlog'[q][n] = Filled(p, backlog[q][n], Files)
      /\ conns'[q][n] = Filled(p, conns[q][n], Files)
  BY DEF Ends
<1>3. ASSUME NEW l \in Seq(Connection), NEW i \in Mine(p, l)
      PROVE  /\ i \in DOMAIN Filled(p, l, Files) /\ Filled(p, l, Files)[i].from = p
             /\ Filled(p, l, Files)[i].msg = Files
  <2>1. i \in DOMAIN l /\ l[i].from = p
    BY <1>3 DEF Mine
  <2>2. Filled(p, l, Files)[i] = [l[i] EXCEPT !.open = FALSE, !.msg = Files]
    BY <1>3, <2>1 DEF Filled
  <2>3. l[i] \in Connection
    BY <2>1, ElementOfSeq
  <2> QED  BY <2>1, <2>2, <2>3 DEF Filled, Connection
<1>9. backlog[q][n] \in Seq(Connection) /\ conns[q][n] \in Seq(Connection)
  BY DEF IInv, WiresOK
<1>4. CASE Mine(p, backlog[q][n]) # {}
  <2>1. PICK i : i \in Mine(p, backlog[q][n])
    BY <1>4
  <2> QED  BY <1>9, <1>2, <1>3, <2>1 DEF WaitAt
<1>5. CASE Mine(p, conns[q][n]) # {}
  <2>1. PICK i : i \in Mine(p, conns[q][n])
    BY <1>5
  <2> QED  BY <1>9, <1>2, <1>3, <2>1 DEF WaitAt
<1> QED
  BY <1>1, <1>4, <1>5

\* do_send() of a message with files.
LEMMA SendsHandover ==
    ASSUME IInv, FilesInv, Fresh, HandoverOK, HandoverOK', NEW p \in Proc, Acts(p),
           NEW q \in Proc, Sends(p, q)
    PROVE  Handover!Give(p, q)
<1>1. /\ at[p] = "send_write" /\ at'[p] = "sent" /\ openers' = openers
      /\ q \in HasOther(p) /\ taker' = [taker EXCEPT ![p] = q] /\ Ends(p, Files)
      /\ taker \in [Proc -> Proc \cup {None}]
  BY DEF Sends, IInv, ProcessesOK
<1>2. at[p] \in Unsent /\ openers[p] = {}
  BY <1>1 DEF HandoverOK, Unsent, Sending
<1>3. FreshAt(p) /\ q # p
  BY <1>1, <1>2, FreshHasNone DEF Fresh
<1>4. /\ Keeper(p) = p /\ FilesAre(p) = "kept" /\ ~Stopped(p)
      /\ Keeper(p)' = q /\ FilesAre(p)' = "given" /\ Stopped(p)'
  <2>1. WaitAt(p, q)'
    BY <1>1, SentWaits
  <2>2. /\ Keeper(p) = p /\ FilesAre(p) = "kept" /\ ~Stopped(p)
    BY <1>1, <1>2 DEF Keeper, FilesAre, Stopped, Closing, Ended
  <2>3. Keeper(p)' = q /\ Stopped(p)'
    BY <1>1 DEF Keeper, Stopped, Ended
  <2>4. FilesAre(p)' = FilesHere(p, q)'
    <3>1. PICK r \in Proc : Keeper(p)' = r /\ FilesAre(p)' = FilesHere(p, r)'
      BY DEF HandoverOK
    <3> QED  BY <2>3, <3>1
  <2>5. FilesHere(p, q)' = "given"
    BY <1>1, <1>2, <2>1 DEF FilesHere
  <2> QED  BY <2>2, <2>3, <2>4, <2>5
<1>5. ASSUME NEW w \in Proc, w # p
      PROVE  Keeper(w)' = Keeper(w) /\ FilesAre(w)' = FilesAre(w) /\ (Stopped(w)' <=> Stopped(w))
  <2>1. at'[w] = at[w] /\ (Stopped(w)' <=> Stopped(w)) /\ taker'[w] = taker[w]
    BY <1>1, <1>5, OthersAre
  <2>2. PICK r \in Proc : /\ Keeper(w) = r /\ r = (IF at[w] = "sent" THEN taker[w] ELSE w)
                          /\ FilesAre(w) = FilesHere(w, r)
    BY DEF HandoverOK
  <2>3. PICK z \in Proc : /\ Keeper(w)' = z /\ z = (IF at'[w] = "sent" THEN taker'[w] ELSE w)
                          /\ FilesAre(w)' = FilesHere(w, z)'
    BY DEF HandoverOK
  <2>4. z = r
    BY <2>1, <2>2, <2>3
  <2>5. WaitAt(w, r)' <=> WaitAt(w, r)
    <3>1. CASE r = p
      BY <1>3, <1>5, <3>1, FreshHasNone, WaitsStay
    <3>2. CASE r # p
      BY <1>5, <3>2, WaitsStay
    <3> QED  BY <3>1, <3>2
  <2>6. FilesHere(w, r)' = FilesHere(w, r)
    BY <1>1, <2>1, <2>5 DEF FilesHere
  <2> QED  BY <2>1, <2>2, <2>3, <2>4, <2>6
<1>6. [w \in Proc |-> Keeper(w)]' = [[w \in Proc |-> Keeper(w)] EXCEPT ![p] = q]
  BY <1>4, <1>5
<1>7. [w \in Proc |-> FilesAre(w)]' = [[w \in Proc |-> FilesAre(w)] EXCEPT ![p] = "given"]
  BY <1>4, <1>5
<1>8. {w \in Proc : Stopped(w)}' = {w \in Proc : Stopped(w)} \cup {p}
  BY <1>4, <1>5
<1>9. [w \in Proc |-> FilesAre(w)][p] = "kept" /\ p \notin {w \in Proc : Stopped(w)}
  BY <1>4
<1> QED
  BY <1>3, <1>6, <1>7, <1>8, <1>9 DEF Handover!Give

\* The end of input_channel_start(), and read_input() of a message with files.
LEMMA OpensHandover ==
    ASSUME IInv, FilesInv, HandoverOK, HandoverOK', NEW p \in Proc, Acts(p),
           NEW r \in Proc, Opens(p, r)
    PROVE  [Handover!Open(r)]_(Handover!vars)
<1>1. /\ openers' = [openers EXCEPT ![r] = @ \cup {p}] /\ taker' = taker /\ at'[p] = "tell"
      /\ \/ r = p /\ at[p] \in Claiming
         \/ at[p] = "running" /\ at[r] = "sent" /\ taker[r] = p /\ openers[r] = {} /\ WaitAt(r, p)
      /\ openers \in [Proc -> SUBSET Proc]
  BY DEF Opens, IInv, ProcessesOK
<1>2. at[p] # "sent" /\ ~Stopped(p) /\ ~Stopped(p)'
  BY <1>1 DEF Stopped, Closing, Ended, Claiming
<1>3. ASSUME NEW w \in Proc
      PROVE  /\ (Stopped(w)' <=> Stopped(w)) /\ taker'[w] = taker[w]
             /\ at'[w] = "sent" <=> at[w] = "sent"
             /\ w # r => openers'[w] = openers[w]
  BY <1>1, <1>2, OthersAre
<1>4. ASSUME NEW w \in Proc, w # r
      PROVE  Keeper(w)' = Keeper(w) /\ FilesAre(w)' = FilesAre(w)
  <2>1. PICK q \in Proc : /\ Keeper(w) = q /\ q = (IF at[w] = "sent" THEN taker[w] ELSE w)
                          /\ FilesAre(w) = FilesHere(w, q) /\ (FilesHere(w, q) = "lost" => Stopped(q))
    BY DEF HandoverOK
  <2>2. PICK z \in Proc : /\ Keeper(w)' = z /\ z = (IF at'[w] = "sent" THEN taker'[w] ELSE w)
                          /\ FilesAre(w)' = FilesHere(w, z)' /\ (FilesHere(w, z)' = "lost" => Stopped(z)')
    BY DEF HandoverOK
  <2>3. z = q
    BY <1>3, <2>1, <2>2
  <2>4. at[w] = "sent" => w # p
    BY <1>2
  <2>5. CASE q # p
    <3>1. at[w] = "sent" => (WaitAt(w, q)' <=> WaitAt(w, q))
      BY <2>4, <2>5, WaitsStay
    <3>2. FilesHere(w, q)' = FilesHere(w, q)
      BY <1>3, <1>4, <3>1 DEF FilesHere
    <3> QED  BY <2>1, <2>2, <2>3, <3>2
  <2>6. CASE q = p
    <3>1. FilesHere(w, q) # "lost" /\ FilesHere(w, q)' # "lost"
      BY <1>2, <2>1, <2>2, <2>3, <2>6
    <3>2. FilesHere(w, q)' = FilesHere(w, q)
      BY <1>3, <1>4, <3>1 DEF FilesHere
    <3> QED  BY <2>1, <2>2, <2>3, <3>2
  <2> QED  BY <2>5, <2>6
<1>5. Keeper(r)' = Keeper(r) /\ Keeper(r) = p
  BY <1>1, <1>2, <1>3 DEF Keeper
<1>6. FilesAre(r)' = "open" /\ FilesAre(r) \in {"kept", "given", "open"}
  <2>1. PICK q \in Proc : FilesAre(r) = FilesHere(r, q) /\ (FilesHere(r, q) = "lost" => Stopped(q)) /\ Keeper(r) = q
    BY DEF HandoverOK
  <2>2. PICK z \in Proc : FilesAre(r)' = FilesHere(r, z)'
    BY DEF HandoverOK
  <2>3. openers'[r] # {}
    BY <1>1
  <2>4. FilesHere(r, z)' = "open"
    BY <2>3 DEF FilesHere
  <2>5. FilesHere(r, q) \in {"kept", "given", "open", "lost"}
    BY DEF FilesHere
  <2>6. FilesHere(r, q) # "lost"
    BY <1>2, <1>5, <2>1
  <2> QED  BY <2>1, <2>2, <2>4, <2>5, <2>6
<1>7. [w \in Proc |-> Keeper(w)]' = [w \in Proc |-> Keeper(w)]
  BY <1>4, <1>5
<1>8. [w \in Proc |-> FilesAre(w)]' = [[w \in Proc |-> FilesAre(w)] EXCEPT ![r] = "open"]
  BY <1>4, <1>6
<1>9. {w \in Proc : Stopped(w)}' = {w \in Proc : Stopped(w)}
  BY <1>3
<1>10. [w \in Proc |-> Keeper(w)][r] \notin {w \in Proc : Stopped(w)}
  BY <1>2, <1>5
<1>11. CASE FilesAre(r) \in {"kept", "given"}
  <2>1. [w \in Proc |-> FilesAre(w)][r] \in {"kept", "given"}
    BY <1>11
  <2> QED  BY <1>7, <1>8, <1>9, <1>10, <2>1 DEF Handover!Open
<1>12. CASE FilesAre(r) = "open"
  <2>1. [w \in Proc |-> FilesAre(w)]' = [w \in Proc |-> FilesAre(w)]
    BY <1>8, <1>12
  <2> QED  BY <1>7, <1>9, <2>1 DEF Handover!vars
<1> QED
  BY <1>6, <1>11, <1>12

LEMMA HandoverInit == ASSUME Init, HandoverOK PROVE Handover!Init
<1>1. \A p \in Proc : at[p] = IF p = Ready THEN "running" ELSE "off"
  BY DEF Init
<1>2. \A p \in Proc : at[p] # "sent" /\ ~Stopped(p)
  BY <1>1 DEF Stopped, Closing, Ended
<1>3. \A p \in Proc : openers[p] = IF p = Ready THEN {p} ELSE {}
  BY DEF Init
<1>4. \A p \in Proc : Keeper(p) = p
  BY <1>2 DEF Keeper
<1>5. \A p \in Proc : FilesAre(p) = IF p = Ready THEN "open" ELSE "kept"
  <2>1. \A p \in Proc : \A q \in Proc : FilesHere(p, q) = IF p = Ready THEN "open" ELSE "kept"
    BY <1>2, <1>3 DEF FilesHere
  <2> QED  BY <2>1 DEF HandoverOK
<1> QED
  BY <1>2, <1>4, <1>5 DEF Handover!Init

LEMMA HandoverStep ==
    ASSUME IInv, FilesInv, Fresh, HandoverOK, HandoverOK', [Next]_vars
    PROVE  [Handover!Next]_(Handover!vars)
<1>1. CASE UNCHANGED vars
  <2>1. UNCHANGED <<at, openers, taker, backlog, conns>>
    BY <1>1 DEF vars
  <2>2. \A p \in Proc : Keeper(p)' = Keeper(p) /\ (Stopped(p)' <=> Stopped(p))
    BY <2>1 DEF Keeper, Stopped
  <2>3. \A p \in Proc : FilesAre(p)' = FilesAre(p)
    BY <2>1 DEF FilesAre, Keeper, WaitAt
  <2> QED  BY <2>2, <2>3 DEF Handover!vars
<1>2. ASSUME NEW p \in Proc, Acts(p) PROVE [Handover!Next]_(Handover!vars)
  <2>1. CASE Leaves(p)
    BY <1>2, <2>1, LeavesHandover
  <2>2. ASSUME NEW q \in Proc, Sends(p, q) PROVE Handover!Next
    BY <1>2, <2>2, SendsHandover DEF Handover!Next
  <2>3. ASSUME NEW r \in Proc, Opens(p, r) PROVE [Handover!Next]_(Handover!vars)
    <3>1. [Handover!Open(r)]_(Handover!vars)
      BY <1>2, <2>3, OpensHandover
    <3>2. Handover!Open(r) => Handover!Next
      BY DEF Handover!Next
    <3> QED  BY <3>1, <3>2
  <2> QED  BY <1>2, <2>1, <2>2, <2>3, ActsHand
<1>3. Next => \E p \in Proc : Acts(p)
  BY DEF Next, Acts
<1> QED
  BY <1>1, <1>2, <1>3

LEMMA FreshNext == ASSUME IInv, Fresh, [Next]_vars PROVE Fresh'
<1>1. CASE UNCHANGED vars
  BY <1>1 DEF vars, Fresh, FreshAt
<1>2. Next => \E p \in Proc : Acts(p)
  BY DEF Next, Acts
<1> QED
  BY <1>1, <1>2, FreshStep

(***************************************************************************)
(* AppInput implements FileHandover: however the steps of try_connect(),   *)
(* do_send(), read_input() and input_channel_shutdown() of the processes   *)
(* mix, a medit gives its files to one other at most, and before anyone    *)
(* has opened them; they are opened once, by the one that is to, or lost   *)
(* with it when it ends.  A process that has not become an instance has no *)
(* sockets (Fresh), so nobody's files wait at one that gives its own away. *)
(***************************************************************************)
THEOREM AppInputImplementsFileHandover == Spec => FilesAreHandedOver
<1>1. Init => IInv /\ FilesInv /\ Fresh
  BY InitInv, FilesInit, FreshInit
<1>2. IInv /\ FilesInv /\ Fresh /\ [Next]_vars => (IInv /\ FilesInv /\ Fresh)'
  BY NextInv, FilesStep, FreshNext
<1>3. IInv /\ FilesInv => HandoverOK
  BY HandoverKnown
<1>4. Init /\ HandoverOK => Handover!Init
  BY HandoverInit
<1>5. IInv /\ FilesInv /\ Fresh /\ HandoverOK /\ HandoverOK' /\ [Next]_vars
      => [Handover!Next]_(Handover!vars)
  BY HandoverStep
<1> QED
  BY <1>1, <1>2, <1>3, <1>4, <1>5, PTL DEF Spec, FilesAreHandedOver, Handover!Spec

=============================================================================
