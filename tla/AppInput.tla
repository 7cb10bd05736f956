------------------------------ MODULE AppInput ------------------------------
(***************************************************************************)
(* Several medits: who opens the files, and what they tell each other      *)
(* (main() of medit-app/main.cpp, mooutils/mooappinput-unix.cpp,           *)
(* mooutils/mooapp-ipc.cpp).                                               *)
(*                                                                         *)
(* `medit FILE' hands its files to an instance that runs, or becomes one.  *)
(* An instance listens on two sockets, in-<pid> and in-main, in a directory*)
(* they share, and tells all others of the documents it opens and closes.  *)
(* Nothing but the file system is between them: a process looks at a path, *)
(* connects, and removes the path when it cannot, each a step of its own.  *)
(*                                                                         *)
(* A process is one run of the program; its in-<pid> is named by itself.   *)
(***************************************************************************)
EXTENDS Integers, FiniteSets, Sequences

CONSTANTS
    Proc,       \* runs of the program
    Main,       \* the name "main"
    Alone,      \* those with --new-app and --use-session, which look for no instance
    Ready,      \* the instance that runs in the beginning, if there is one
    Asked,      \* what --pid or MEDIT_PID may give, and Main for neither
    None,       \* no process
    Capacity,   \* connections that wait to be accepted: 6, since listen() is given 5
    MaxNews,    \* broadcasts
    MaxBurst,   \* broadcasts made in one callback: documents opened or closed at once
    MaxStops    \* instances that quit or are killed

ASSUME AppInputAssumption ==
    /\ IsFiniteSet(Proc) /\ None \notin Proc /\ Main \notin Proc
    /\ Alone \subseteq Proc /\ Ready \in Proc \cup {None} /\ Asked \subseteq Proc \cup {Main}
    /\ Capacity \in Nat \ {0} /\ MaxNews \in Nat /\ MaxBurst \in Nat \ {0} /\ MaxStops \in Nat

VARIABLES
    file,       \* whose socket the path in-<name> leads to
    dir,        \* whether the directory exists
    backlog,    \* connections to each socket that listens, to be accepted
    conns,      \* ch->connections: accepted, by socket, oldest first
    at,         \* what a process is doing
    target,     \* the name it does it to
    todo,       \* names it has still to try
    listed,     \* it has looked into the directory
    sockets,    \* the names it listens on
    wanted,     \* the name given by --pid or MEDIT_PID, Main when there was none
    left,       \* broadcasts of this callback still to make
    quitting,   \* instances in moo_app_do_quit()
    stamp,      \* ipc_data.stamp
    stamp_hash, \* ipc_data.stamp_hash, 0 for an instance not heard of
    openers,    \* who opened the files of each process
    taker,      \* who was sent them
    heard,      \* the broadcasts each instance handled, in order
    told,       \* how many of MaxNews there were, or will be
    stops       \* how many of MaxStops have happened

paths   == <<file, dir>>
wires   == <<backlog, conns>>
history == <<stamp, stamp_hash, heard>>
files   == <<openers, taker>>
vars    == <<file, dir, backlog, conns, at, target, todo, listed, sockets, wanted, left,
             quitting, stamp, stamp_hash, openers, taker, heard, told, stops>>

Name == Proc \cup {Main}

\* What a connection carries: a whole message, or nothing while its other end has
\* not written or when it was closed without.
Nothing == [kind |-> "nothing", n |-> 0]
Files   == [kind |-> "files", n |-> 0]
News(n) == [kind |-> "news", n |-> n]
Message == {Nothing, Files} \cup {News(n) : n \in 1..MaxNews}
Connection == [from : Proc, open : BOOLEAN, msg : Message]

\* Looking for an instance, claiming a socket, telling the others, closing.
Sending   == {"send", "send_connect", "send_unlink", "send_write"}
Claiming  == {"claim", "claim_connect", "claim_unlink", "claim_bind", "claim_listen"}
Telling   == {"tell", "tell_connect", "tell_unlink", "tell_write"}
Closing   == {"close", "close_unlink", "close_rmdir"}
Ended     == {"sent", "failed", "quit", "killed"}
Connecting == {"send_connect", "claim_connect", "tell_connect"}
Unlinking  == {"send_unlink", "claim_unlink", "tell_unlink"}
Writing    == {"send_write", "tell_write"}
Place     == {"off", "running"} \cup Sending \cup Claiming \cup Telling \cup Closing \cup Ended

Init ==
    /\ file = [n \in Name |-> IF n \in {Ready, Main} THEN Ready ELSE None]
    /\ dir = (Ready # None)
    /\ backlog = [p \in Proc |-> [n \in Name |-> <<>>]]
    /\ conns = backlog
    /\ at = [p \in Proc |-> IF p = Ready THEN "running" ELSE "off"]
    /\ target = [p \in Proc |-> Main] /\ wanted = target
    /\ todo = [p \in Proc |-> {}]
    /\ sockets = [p \in Proc |-> IF p = Ready THEN {p, Main} ELSE {}]
    /\ openers = [p \in Proc |-> IF p = Ready THEN {p} ELSE {}]
    /\ listed = [p \in Proc |-> FALSE]
    /\ left = [p \in Proc |-> 0] /\ stamp = left
    /\ quitting = {}
    /\ stamp_hash = [p \in Proc |-> left]
    /\ taker = [p \in Proc |-> None]
    /\ heard = [p \in Proc |-> <<>>]
    /\ told = 0 /\ stops = 0
-----------------------------------------------------------------------------
Existing == {n \in Name : file[n] # None}

\* The names of the directory that begin with "in-".
InDir    == IF dir THEN Existing ELSE {}

Goes(p, place) == at' = [at EXCEPT ![p] = place]

\* What comes next for one that sends, claims a name, or tells the others.
Instead(p, send, claim, tell) ==
    Goes(p, CASE at[p] \in Sending -> send [] at[p] \in Claiming -> claim [] OTHER -> tell)

\* Broadcasts of the documents just opened or closed.
Burst(p, k) ==
    /\ k <= MaxNews - told /\ told' = told + k
    /\ left' = [left EXCEPT ![p] = k]

\* remove() of the directory: nothing while there is a file in it.
DirRemoved == dir' = (dir /\ Existing # {})

(***************************************************************************)
(* A run begins: main().  With --pid, or MEDIT_PID, only that instance is  *)
(* tried; with --new-app and --use-session none is.                        *)
(***************************************************************************)
Start(p) ==
    /\ at[p] = "off"
    /\ \/ /\ p \notin Alone
          /\ Goes(p, "send")
          /\ \E n \in Asked :
                /\ wanted' = [wanted EXCEPT ![p] = n]
                /\ todo' = [todo EXCEPT ![p] = {n}]
          /\ UNCHANGED target
       \/ /\ p \in Alone
          /\ Goes(p, "claim")
          /\ target' = [target EXCEPT ![p] = p]
          /\ UNCHANGED <<wanted, todo>>
    /\ UNCHANGED <<paths, wires, listed, sockets, left, told, quitting, history, files, stops>>

\* try_send(): the next name, if there is such a file.
try_send(p) ==
    /\ at[p] \in {"send", "tell"}
    /\ \E n \in todo[p] :
          /\ todo' = [todo EXCEPT ![p] = @ \ {n}]
          /\ IF file[n] = None
             THEN UNCHANGED <<at, target>>
             ELSE /\ Instead(p, "send_connect", "", "tell_connect")
                  /\ target' = [target EXCEPT ![p] = n]
    /\ UNCHANGED <<paths, wires, listed, sockets, wanted, left, told, quitting, history, files, stops>>

\* _moo_app_input_send_msg(): "main" did not answer, so any other; none did, so
\* this process becomes an instance.
NobodyTookIt(p) ==
    /\ at[p] = "send" /\ todo[p] = {}
    /\ IF wanted[p] # Main
       THEN Goes(p, "failed") /\ UNCHANGED <<todo, listed, target>>
       ELSE IF ~listed[p]
       THEN /\ listed' = [listed EXCEPT ![p] = TRUE]
            /\ todo' = [todo EXCEPT ![p] = InDir]
            /\ UNCHANGED <<at, target>>
       ELSE /\ Goes(p, "claim")
            /\ target' = [target EXCEPT ![p] = p]
            /\ UNCHANGED <<todo, listed>>
    /\ UNCHANGED <<paths, wires, sockets, wanted, left, told, quitting, history, files, stops>>
-----------------------------------------------------------------------------
(***************************************************************************)
(* try_connect() and do_send().                                            *)
(***************************************************************************)

\* Somebody listens behind the path; with the backlog full connect() waits.
Listens(n) == file[n] # None /\ n \in sockets[file[n]]

\* After a channel that was started or was not, the next one; then the instance is
\* complete and opens its own files.
ClaimNext(p) ==
    IF target[p] = p
    THEN /\ Goes(p, "claim")
         /\ target' = [target EXCEPT ![p] = Main]
         /\ UNCHANGED <<left, told, openers>>
    ELSE /\ Goes(p, "tell")
         /\ openers' = [openers EXCEPT ![p] = @ \cup {p}]
         /\ \E k \in 0..MaxBurst : Burst(p, k)
         /\ UNCHANGED target

\* connect() succeeds.  A process that looks whether a name is in use closes the
\* connection at once, and does not claim the name.
Connected(p) ==
    /\ at[p] \in Connecting
    /\ LET n == target[p]
           q == file[n]
           claims == at[p] = "claim_connect"
       IN /\ Listens(n) /\ Len(backlog[q][n]) < Capacity
          /\ backlog' = [backlog EXCEPT ![q][n] =
                            Append(@, [from |-> p, open |-> ~claims, msg |-> Nothing])]
          /\ IF claims THEN ClaimNext(p)
             ELSE /\ Instead(p, "send_write", "", "tell_write")
                  /\ UNCHANGED <<target, left, told, openers>>
    /\ UNCHANGED <<paths, conns, todo, listed, sockets, wanted, quitting, history, taker, stops>>

\* connect() is refused, or the path is gone.
Refused(p) ==
    /\ at[p] \in Connecting
    /\ ~Listens(target[p])
    /\ Instead(p, "send_unlink", "claim_unlink", "tell_unlink")
    /\ UNCHANGED <<paths, wires, target, todo, listed, sockets, wanted, left, told, quitting, history, files, stops>>

\* ... and the path is removed, whoever it leads to by now.
Unlinked(p) ==
    /\ at[p] \in Unlinking
    /\ file' = [file EXCEPT ![target[p]] = None]
    /\ Instead(p, "send", "claim_bind", "tell")
    /\ UNCHANGED <<dir, wires, target, todo, listed, sockets, wanted, left, told, quitting, history, files, stops>>

\* The connection that `p' has open, where its other end keeps it.
Mine(p, list) == {i \in DOMAIN list : list[i].from = p /\ list[i].open}

Filled(p, list, msg) ==
    [i \in DOMAIN list |-> IF i \in Mine(p, list)
                           THEN [list[i] EXCEPT !.open = FALSE, !.msg = msg] ELSE list[i]]

Ends(p, msg) ==
    /\ backlog' = [q \in Proc |-> [n \in Name |-> Filled(p, backlog[q][n], msg)]]
    /\ conns' = [q \in Proc |-> [n \in Name |-> Filled(p, conns[q][n], msg)]]

HasOther(p) == {q \in Proc : \E n \in Name :
                   Mine(p, backlog[q][n]) \cup Mine(p, conns[q][n]) # {}}

\* A mutant: the loop goes on to the next name when one took the message.
SentToAll(p) ==
    /\ at[p] \in Writing /\ HasOther(p) # {}
    /\ Ends(p, IF at[p] = "send_write" THEN Files ELSE News(stamp[p]))
    /\ Instead(p, "send", "", "tell")
    /\ UNCHANGED <<paths, target, todo, listed, sockets, wanted, left, told, quitting, history, files, stops>>

\* do_send(): the message is written, and the connection closed.
Written(p) ==
    /\ at[p] \in Writing /\ HasOther(p) # {}
    /\ Ends(p, IF at[p] = "send_write" THEN Files ELSE News(stamp[p]))
    /\ IF at[p] = "send_write"
       THEN /\ Goes(p, "sent")
            /\ taker' = [taker EXCEPT ![p] = CHOOSE q \in HasOther(p) : TRUE]
       ELSE Goes(p, "tell") /\ UNCHANGED taker
    /\ UNCHANGED <<paths, target, todo, listed, sockets, wanted, left, told, quitting, history, openers, stops>>

\* The other end is closed.  Nothing in medit ignores SIGPIPE: unless GIO has used
\* a socket of its own before, the process dies of it.
NotWritten(p) ==
    /\ at[p] \in Writing /\ HasOther(p) = {}
    /\ Instead(p, "send", "", "tell")
    /\ UNCHANGED <<paths, wires, target, todo, listed, sockets, wanted, left, told, quitting, history, files, stops>>
-----------------------------------------------------------------------------
(***************************************************************************)
(* input_channel_start(): mkdir(), is the name in use?, bind(), listen().  *)
(***************************************************************************)
Claim(p) ==
    /\ at[p] = "claim"
    /\ dir' = TRUE
    /\ Goes(p, "claim_connect")
    /\ UNCHANGED <<file, wires, target, todo, listed, sockets, wanted, left, told, quitting, history, files, stops>>

Bound(p) ==
    /\ at[p] = "claim_bind"
    /\ IF dir /\ file[target[p]] = None
       THEN /\ file' = [file EXCEPT ![target[p]] = p]
            /\ Goes(p, "claim_listen")
            /\ UNCHANGED <<dir, target, left, told, openers>>
       ELSE ClaimNext(p) /\ DirRemoved /\ UNCHANGED file
    /\ UNCHANGED <<wires, todo, listed, sockets, wanted, quitting, history, taker, stops>>

Listen(p) ==
    /\ at[p] = "claim_listen"
    /\ sockets' = [sockets EXCEPT ![p] = @ \cup {target[p]}]
    /\ ClaimNext(p)
    /\ UNCHANGED <<paths, wires, todo, listed, wanted, quitting, history, taker, stops>>
-----------------------------------------------------------------------------
(***************************************************************************)
(* An instance in its main loop.                                           *)
(***************************************************************************)

accept_connection(p, n) ==
    /\ at[p] = "running" /\ n \in sockets[p] /\ backlog[p][n] # <<>>
    /\ conns' = [conns EXCEPT ![p][n] = Append(@, Head(backlog[p][n]))]
    /\ backlog' = [backlog EXCEPT ![p][n] = Tail(@)]
    /\ UNCHANGED <<paths, at, target, todo, listed, sockets, wanted, left, told, quitting, history, files, stops>>

\* A mutant: only the stamp heard last is known.
StampNotLast(p, q, n) == stamp_hash[p][q] # n

\* check_stamp(): an instance is told twice when it listens on two names.
check_stamp(p, q, n) == stamp_hash[p][q] < n

\* Connections that were written to or closed: the first of a socket is read first.
Readable(list) == {i \in DOMAIN list : ~list[i].open}
IsFirst(i, s)  == i \in s /\ \A j \in s : i <= j

\* A mutant: the connection after it is taken off the list.
NextRemoved(list, i) == SubSeq(list, 1, i) \o SubSeq(list, i + 2, Len(list))

Removed(list, i) == SubSeq(list, 1, i - 1) \o SubSeq(list, i + 1, Len(list))

\* read_input(), and what is done with a whole message: files are opened, and the
\* others told of them; news is handled once.
read_input(p, n) ==
    /\ at[p] = "running"
    /\ \E i \in DOMAIN conns[p][n] :
          LET c == conns[p][n][i] IN
          /\ IsFirst(i, Readable(conns[p][n]))
          /\ conns' = [conns EXCEPT ![p][n] = Removed(@, i)]
          /\ \/ /\ c.msg = Files
                /\ openers' = [openers EXCEPT ![c.from] = @ \cup {p}]
                /\ Goes(p, "tell")
                /\ \E k \in 0..MaxBurst : Burst(p, k)
                /\ UNCHANGED <<stamp_hash, heard>>
             \/ /\ c.msg.kind = "news" /\ c.from # p /\ check_stamp(p, c.from, c.msg.n)
                /\ stamp_hash' = [stamp_hash EXCEPT ![p][c.from] = c.msg.n]
                /\ heard' = [heard EXCEPT ![p] = Append(@, <<c.from, c.msg.n>>)]
                /\ UNCHANGED <<at, left, told, openers>>
             \/ /\ c.msg = Nothing \/ (c.msg.kind = "news" /\ (c.from = p \/ ~check_stamp(p, c.from, c.msg.n)))
                /\ UNCHANGED <<at, left, told, openers, stamp_hash, heard>>
    /\ UNCHANGED <<paths, backlog, target, todo, listed, sockets, wanted, quitting, stamp, taker, stops>>

\* The user opens, saves or closes documents, several in one callback or one.
Visit(p) ==
    /\ at[p] = "running"
    /\ \E k \in 1..MaxBurst : Burst(p, k)
    /\ Goes(p, "tell")
    /\ UNCHANGED <<paths, wires, target, todo, listed, sockets, wanted, quitting, history, files, stops>>

\* moo_ipc_send() for the next document, or no more of them.
Tell(p) ==
    /\ at[p] = "tell" /\ todo[p] = {}
    /\ IF left[p] > 0
       THEN /\ left' = [left EXCEPT ![p] = @ - 1]
            /\ stamp' = [stamp EXCEPT ![p] = @ + 1]
            /\ todo' = [todo EXCEPT ![p] = InDir \ sockets[p]]
            /\ UNCHANGED at
       ELSE /\ Goes(p, IF p \in quitting THEN "close" ELSE "running")
            /\ UNCHANGED <<left, stamp, todo>>
    /\ UNCHANGED <<paths, wires, target, listed, sockets, wanted, told, quitting, stamp_hash, heard, files, stops>>
-----------------------------------------------------------------------------
(***************************************************************************)
(* The end of an instance.                                                 *)
(***************************************************************************)

\* moo_app_do_quit(): all documents are closed, then _moo_app_input_shutdown().
Quit(p) ==
    /\ at[p] = "running"
    /\ stops < MaxStops /\ stops' = stops + 1
    /\ quitting' = quitting \cup {p}
    /\ Goes(p, "tell")
    /\ \E k \in 0..MaxBurst : Burst(p, k)
    /\ UNCHANGED <<paths, wires, target, todo, listed, sockets, wanted, history, files>>

\* input_channel_shutdown(), "main" first: what was not read is lost; the path is
\* removed, whoever it leads to by now.
Shutdown(p) ==
    /\ at[p] = "close"
    /\ IF sockets[p] = {}
       THEN Goes(p, "quit") /\ UNCHANGED <<wires, target, sockets>>
       ELSE LET n == IF Main \in sockets[p] THEN Main ELSE p IN
            /\ sockets' = [sockets EXCEPT ![p] = @ \ {n}]
            /\ backlog' = [backlog EXCEPT ![p][n] = <<>>]
            /\ conns' = [conns EXCEPT ![p][n] = <<>>]
            /\ target' = [target EXCEPT ![p] = n]
            /\ Goes(p, "close_unlink")
    /\ UNCHANGED <<paths, todo, listed, wanted, left, told, quitting, history, files, stops>>

ShutdownUnlink(p) ==
    /\ at[p] = "close_unlink"
    /\ file' = [file EXCEPT ![target[p]] = None]
    /\ Goes(p, "close_rmdir")
    /\ UNCHANGED <<dir, wires, target, todo, listed, sockets, wanted, left, told, quitting, history, files, stops>>

ShutdownRmdir(p) ==
    /\ at[p] = "close_rmdir"
    /\ DirRemoved
    /\ Goes(p, "close")
    /\ UNCHANGED <<file, wires, target, todo, listed, sockets, wanted, left, told, quitting, history, files, stops>>

\* The kernel closes what a process had open; its paths stay.
Dies(p) ==
    /\ Goes(p, "killed")
    /\ sockets' = [sockets EXCEPT ![p] = {}]
    /\ backlog' = [q \in Proc |-> [n \in Name |->
                      IF q = p THEN <<>> ELSE Filled(p, backlog[q][n], Nothing)]]
    /\ conns' = [q \in Proc |-> [n \in Name |->
                      IF q = p THEN <<>> ELSE Filled(p, conns[q][n], Nothing)]]
    /\ UNCHANGED <<paths, target, todo, listed, wanted, left, told, quitting, history, files>>

Killed(p) ==
    /\ at[p] \notin Ended \cup {"off"}
    /\ stops < MaxStops /\ stops' = stops + 1
    /\ Dies(p)

\* SIGPIPE.
KilledWriting(p) ==
    /\ at[p] \in Writing /\ HasOther(p) = {}
    /\ Dies(p) /\ UNCHANGED stops
-----------------------------------------------------------------------------
\* What a process does without being asked.
Step(p) ==
    \/ try_send(p) \/ NobodyTookIt(p)
    \/ Connected(p) \/ Refused(p) \/ Unlinked(p) \/ Written(p) \/ NotWritten(p)
    \/ Claim(p) \/ Bound(p) \/ Listen(p) \/ Tell(p)
    \/ Shutdown(p) \/ ShutdownUnlink(p) \/ ShutdownRmdir(p)

\* A mutant: only the channel of "main" is watched.
MainWatched(p) == accept_connection(p, Main) \/ read_input(p, Main)

MainLoop(p) == \E n \in Name : accept_connection(p, n) \/ read_input(p, n)

Next == \E p \in Proc :
    \/ Start(p) \/ Step(p) \/ MainLoop(p)
    \/ Visit(p) \/ Quit(p) \/ Killed(p) \/ KilledWriting(p)

\* A process that can go on does, and the main loop dispatches what is ready.
Fairness == \A p \in Proc : WF_vars(Step(p)) /\ WF_vars(MainLoop(p))

Spec == Init /\ [][Next]_vars /\ Fairness
-----------------------------------------------------------------------------
TypeOK ==
    /\ file \in [Name -> Proc \cup {None}]
    /\ dir \in BOOLEAN
    /\ backlog \in [Proc -> [Name -> Seq(Connection)]]
    /\ conns \in [Proc -> [Name -> Seq(Connection)]]
    /\ at \in [Proc -> Place]
    /\ target \in [Proc -> Name]
    /\ todo \in [Proc -> SUBSET Name]
    /\ listed \in [Proc -> BOOLEAN]
    /\ sockets \in [Proc -> SUBSET Name]
    /\ wanted \in [Proc -> Name]
    /\ left \in [Proc -> 0..MaxNews] /\ stamp \in [Proc -> Nat]
    /\ told \in 0..MaxNews
    /\ quitting \subseteq Proc
    /\ stamp_hash \in [Proc -> [Proc -> 0..MaxNews]]
    /\ openers \in [Proc -> SUBSET Proc]
    /\ taker \in [Proc -> Proc \cup {None}]
    /\ heard \in [Proc -> Seq(Proc \X (1..MaxNews))]
    /\ stops \in 0..MaxStops

\* The files of `p' wait at `q' to be read.
WaitAt(p, q) == \E n \in Name :
    \/ \E i \in DOMAIN backlog[q][n] : backlog[q][n][i].from = p /\ backlog[q][n][i].msg = Files
    \/ \E i \in DOMAIN conns[q][n] : conns[q][n][i].from = p /\ conns[q][n][i].msg = Files

Stopped(q) == at[q] \in Closing \cup Ended

(***************************************************************************)
(* The files given to a medit are opened by one instance at most, however  *)
(* many sockets were tried and whatever was removed meanwhile; and a medit *)
(* that ended because another took them (exit status 0) can rely on it:    *)
(* they are open there, or will be read, unless that instance ended.       *)
(***************************************************************************)
FilesOpenedOnce ==
    \A p \in Proc :
        /\ \A q, r \in openers[p] : q = r
        /\ at[p] = "sent" =>
              taker[p] # None /\
              (taker[p] \in openers[p] \/ WaitAt(p, taker[p]) \/ Stopped(taker[p]))

\* Who is to open the files of `p', and what has become of them.
Keeper(p) == IF at[p] = "sent" THEN taker[p] ELSE p

FilesAre(p) ==
    CASE openers[p] = {} /\ at[p] # "sent" -> "kept"
      [] openers[p] = {} /\ at[p] = "sent" /\ WaitAt(p, taker[p]) -> "given"
      [] openers[p] = {} /\ at[p] = "sent" /\ ~WaitAt(p, taker[p]) -> "lost"
      [] openers[p] = {Keeper(p)} -> "open"
      [] OTHER -> "opened elsewhere"

(***************************************************************************)
(* A medit gives its files to one other at most, before anyone has opened  *)
(* them, and they are opened once, by the one that was given them last,    *)
(* or are lost with it: the steps of FileHandover, however the steps of    *)
(* try_connect(), do_send() and read_input() of several processes mix.     *)
(***************************************************************************)
Handover == INSTANCE FileHandover WITH
    keeper <- [p \in Proc |-> Keeper(p)],
    state  <- [p \in Proc |-> FilesAre(p)],
    ending <- {p \in Proc : Stopped(p)}

FilesAreHandedOver == Handover!Spec

(***************************************************************************)
(* An instance handles a broadcast once at most, those of one other in the *)
(* order in which they were made, and none of its own, although each is    *)
(* sent to every name it listens on and connections of two sockets are read*)
(* as they come.                                                           *)
(***************************************************************************)
NewsHandledOnce ==
    \A p \in Proc : \A i, j \in DOMAIN heard[p] :
        /\ heard[p][i][1] # p
        /\ i < j /\ heard[p][i][1] = heard[p][j][1] => heard[p][i][2] < heard[p][j][2]

\* Broadcasts that wait on the accepted connections of `p', and those it has handled.
NewsAt(p)  == {m \in Proc \X (1..MaxNews) : \E n \in Name : \E i \in DOMAIN conns[p][n] :
                  conns[p][n][i].from = m[1] /\ conns[p][n][i].msg = News(m[2])}
HeardBy(p) == {heard[p][i] : i \in DOMAIN heard[p]}

(***************************************************************************)
(* What moohistorymgr.cpp:1084 says of a broadcast, that it "tells the     *)
(* other instances": one that an instance reads, and does not lose because *)
(* it closes the socket, is handled by it, now or when it came the first   *)
(* time (_moo_ipc_dispatch()).  It does not hold: one that was sent before *)
(* the instance took "main" over is dropped when a later one is read first *)
(* on the new socket (check_stamp()), which NewsHandledOnce allows.        *)
(***************************************************************************)
OthersAreTold ==
    [][\A p \in Proc : sockets'[p] = sockets[p] =>
          \A m \in NewsAt(p) : m[1] # p => m \in NewsAt(p)' \cup HeardBy(p)']_vars

\* An instance waits in connect() for another to accept, in the middle of telling.
TellingWaits == \E q \in Proc :
    at[q] = "tell_connect" /\ Listens(target[q]) /\
    Len(backlog[file[target[q]]][target[q]]) >= Capacity

(***************************************************************************)
(* A medit started with files ends up with them open, in another instance  *)
(* or as one itself; or it failed, since there is no instance of that pid; *)
(* or the instance they were sent to ended.  The exception is an instance  *)
(* that waits for another in the middle of a broadcast and hears nobody.   *)
(* One that is there already, or was started with --new-app, looks for no  *)
(* other.                                                                  *)
(***************************************************************************)
FilesAreOpened == \A p \in Proc \ (Alone \cup {Ready}) :
    at[p] \in Sending ~>
        \/ openers[p] # {} \/ at[p] \in {"failed", "killed"}
        \/ at[p] = "sent" /\ Stopped(taker[p])
        \/ TellingWaits

(***************************************************************************)
(* "A second medit hands its files to the first one", and "the second copy *)
(* exited" (tests/app/second_instance/test.py:1 and 34): one that looks    *)
(* for an instance comes to an end of it.                                  *)
(***************************************************************************)
SecondCopyExits == \A p \in Proc : at[p] \in Sending ~> at[p] \notin Sending
=============================================================================
