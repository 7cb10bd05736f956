--------------------------- MODULE CmdViewProofs ---------------------------
(***************************************************************************)
(* Theorems about CmdView, for every set of panes and any number of        *)
(* commands and lines.                                                     *)
(***************************************************************************)
EXTENDS CmdView, SequenceTheorems, TLAPS

USE CmdViewAssumption

Lines(n) == [i \in 1..n |-> i]

\* A command of a pane was started, and no two panes have the same.
OnePane ==
    /\ \A v \in View : cmd[v] \in 0..started
    /\ \A u, v \in View : cmd[u] = cmd[v] /\ cmd[u] # 0 => u = v

\* What is not Current is not watched; what is Current and was waited for has
\* its process behind it; and the pane shows what was read.
CommandOK(c) ==
    /\ c > started => shell[c] = "none"
    /\ pid[c] \/ watch[c] # {} => Current(c)
    /\ pid[c] => shell[c] \in {"runs", "exited"}
    /\ Current(c) /\ ~pid[c] => shell[c] = "reaped"
    /\ \A s \in Stream :
          /\ got[c][s] <= wrote[c][s]
          /\ Current(c) /\ c \notin stopped /\ s \notin watch[c] => got[c][s] = wrote[c][s]
    /\ \/ \A s \in Stream : shown[c][s] = Lines(got[c][s])
       \/ /\ \A s \in Stream : shown[c][s] = Append(Lines(got[c][s]), Exit)
          /\ ~Current(c) /\ shell[c] = "reaped"
          /\ c \notin stopped => \A s \in Stream : got[c][s] = wrote[c][s]

CommandInvariant ==
    TypeOK /\ StopReaches /\ OnePane /\ \A c \in Cmd : CommandOK(c)
-----------------------------------------------------------------------------
LEMMA LinesType == \A n \in Nat : Lines(n) \in Seq(Nat) /\ Len(Lines(n)) = n
BY DEF Lines

\* More lines read are more lines shown.
LEMMA LinesGrow ==
    ASSUME NEW n \in Nat, NEW k \in Nat
    PROVE  /\ [i \in 1..k |-> n + i] \in Seq(Nat)
           /\ Lines(n) \o [i \in 1..k |-> n + i] = Lines(n + k)
<1> DEFINE more == [i \in 1..k |-> n + i]
<1>1. more \in Seq(Nat) /\ Len(more) = k
  OBVIOUS
<1>2. Lines(n) \in Seq(Nat) /\ Len(Lines(n)) = n /\ Lines(n + k) \in Seq(Nat) /\ Len(Lines(n + k)) = n + k
  BY LinesType
<1>3. Lines(n) \o more \in Seq(Nat) /\ Len(Lines(n) \o more) = n + k
  BY <1>1, <1>2
<1>4. ASSUME NEW i \in 1..(n + k) PROVE (Lines(n) \o more)[i] = Lines(n + k)[i]
  <2>1. CASE i <= n
    BY <1>1, <1>2, <2>1 DEF Lines
  <2>2. CASE i > n
    BY <1>1, <1>2, <2>2 DEF Lines
  <2>3. i <= n \/ i > n
    OBVIOUS
  <2> QED
    BY <2>1, <2>2, <2>3, Zenon
<1> HIDE DEF more
<1> QED
  BY <1>1, <1>2, <1>3, <1>4, SeqEqual DEF more

\* A step that leaves a command alone keeps what is known of it.
LEMMA LeftAlone ==
    ASSUME NEW c \in Cmd, CommandOK(c), TypeOK,
           started' \in Nat, started' >= started,
           shell'[c] = shell[c], pid'[c] = pid[c], watch'[c] = watch[c],
           got'[c] = got[c], wrote'[c] = wrote[c], shown'[c] = shown[c],
           Current(c)' <=> Current(c), c \in stopped' <=> c \in stopped
    PROVE  CommandOK(c)'
BY DEF CommandOK, TypeOK, Cmd
-----------------------------------------------------------------------------
LEMMA InitHolds == Init => CommandInvariant
<1> SUFFICES ASSUME Init PROVE CommandInvariant
  OBVIOUS
<1>1. <<>> \in Seq(Nat) /\ <<>> = Lines(0)
  BY DEF Lines
<1>2. TypeOK
  <2>1. wrote \in [Cmd -> [Stream -> 0..MaxLines]] /\ got \in [Cmd -> [Stream -> 0..MaxLines]]
    BY DEF Init
  <2>2. shown \in [Cmd -> [Stream -> Seq(Nat)]]
    BY <1>1 DEF Init
  <2>3. cmd \in [View -> 0..MaxCmds] /\ jobs \in [View -> Nat] /\ started \in 0..MaxCmds
    BY DEF Init
  <2> QED
    BY <2>1, <2>2, <2>3 DEF Init, TypeOK
<1>3. StopReaches /\ OnePane
  BY DEF Init, StopReaches, OnePane
<1>4. ASSUME NEW c \in Cmd PROVE CommandOK(c)
  BY <1>1 DEF Init, CommandOK, Current, Cmd, Stream
<1> QED
  BY <1>2, <1>3, <1>4 DEF CommandInvariant
-----------------------------------------------------------------------------
(***************************************************************************)
(* The processes.                                                          *)
(***************************************************************************)
LEMMA WritesKeeps ==
    ASSUME CommandInvariant, NEW c \in Cmd, NEW s \in Stream, Writes(c, s)
    PROVE  CommandInvariant'
<1>1. TypeOK'
  <2>1. wrote' \in [Cmd -> [Stream -> 0..MaxLines]]
    BY DEF Writes, CommandInvariant, TypeOK
  <2> QED
    BY <2>1 DEF Writes, CommandInvariant, TypeOK, panes
<1>2. StopReaches' /\ OnePane'
  BY DEF Writes, CommandInvariant, StopReaches, OnePane, panes
<1>3. ASSUME NEW d \in Cmd, d # c PROVE CommandOK(d)'
  <2>1. UNCHANGED <<started, cmd, shell, pid, watch, got, stopped, shown>>
    BY DEF Writes, panes
  <2>2. started \in Nat /\ wrote'[d] = wrote[d] /\ (Current(d)' <=> Current(d))
    BY <1>3, <2>1 DEF Writes, CommandInvariant, TypeOK, Current
  <2> QED
    BY <2>1, <2>2, LeftAlone DEF CommandInvariant
<1>4. CommandOK(c)'
  <2>1. UNCHANGED <<started, cmd, shell, pid, watch, got, stopped, shown>>
    BY DEF Writes, panes
  <2>2. s \in watch[c] /\ wrote'[c][s] = wrote[c][s] + 1 /\ wrote[c][s] \in Nat /\ got[c][s] \in Nat
    BY DEF Writes, CommandInvariant, TypeOK
  <2>3. \A t \in Stream : t # s => wrote'[c][t] = wrote[c][t]
    BY DEF Writes, CommandInvariant, TypeOK
  <2>4. CommandOK(c) /\ (Current(c)' <=> Current(c))
    BY <2>1 DEF CommandInvariant, Current
  <2>5. ~(~Current(c) /\ shell[c] = "reaped" /\ (c \notin stopped => \A t \in Stream : got[c][t] = wrote[c][t]))
    BY <2>2, <2>4 DEF CommandOK
  <2>6. \A t \in Stream :
           /\ got'[c][t] <= wrote'[c][t]
           /\ Current(c)' /\ c \notin stopped' /\ t \notin watch'[c] => got'[c][t] = wrote'[c][t]
    BY <2>1, <2>2, <2>3, <2>4 DEF CommandOK
  <2>7. \A t \in Stream : shown'[c][t] = Lines(got'[c][t])
    BY <2>1, <2>4, <2>5 DEF CommandOK
  <2> QED
    BY <2>1, <2>4, <2>6, <2>7 DEF CommandOK
<1> QED
  BY <1>1, <1>2, <1>3, <1>4 DEF CommandInvariant

LEMMA ClosesKeeps ==
    ASSUME CommandInvariant, NEW c \in Cmd, NEW s \in Stream, Closes(c, s)
    PROVE  CommandInvariant'
<1>1. TypeOK'
  BY DEF Closes, CommandInvariant, TypeOK, panes
<1>2. StopReaches' /\ OnePane'
  BY DEF Closes, CommandInvariant, StopReaches, OnePane, panes
<1>3. ASSUME NEW d \in Cmd PROVE CommandOK(d)'
  <2>1. UNCHANGED <<started, cmd, shell, pid, watch, got, wrote, stopped, shown>>
    BY DEF Closes, panes
  <2>2. started \in Nat /\ (Current(d)' <=> Current(d))
    BY <2>1 DEF CommandInvariant, TypeOK, Current
  <2> QED
    BY <2>1, <2>2, LeftAlone DEF CommandInvariant
<1> QED
  BY <1>1, <1>2, <1>3 DEF CommandInvariant

LEMMA ExitsKeeps ==
    ASSUME CommandInvariant, NEW c \in Cmd, Exits(c)
    PROVE  CommandInvariant'
<1>1. TypeOK'
  <2>1. open' \in [Cmd -> SUBSET Stream]
    BY DEF Exits, CommandInvariant, TypeOK
  <2> QED
    BY <2>1 DEF Exits, CommandInvariant, TypeOK, panes
<1>2. StopReaches' /\ OnePane'
  BY DEF Exits, CommandInvariant, StopReaches, OnePane, panes
<1>3. UNCHANGED <<started, cmd, pid, watch, got, wrote, stopped, shown>>
  BY DEF Exits, panes
<1>4. \A d \in Cmd : CommandOK(d) /\ (Current(d)' <=> Current(d))
  BY <1>3 DEF CommandInvariant, Current
<1>5. ASSUME NEW d \in Cmd, d # c PROVE CommandOK(d)'
  <2>1. started \in Nat /\ shell'[d] = shell[d]
    BY <1>5 DEF Exits, CommandInvariant, TypeOK
  <2> QED
    BY <1>3, <1>4, <2>1, LeftAlone DEF CommandInvariant
<1>6. CommandOK(c)'
  <2>1. shell[c] = "runs" /\ shell'[c] = "exited"
    BY DEF Exits, CommandInvariant, TypeOK
  <2> QED
    BY <1>3, <1>4, <2>1 DEF CommandOK
<1> QED
  BY <1>1, <1>2, <1>5, <1>6 DEF CommandInvariant
-----------------------------------------------------------------------------
(***************************************************************************)
(* The end of a command.                                                   *)
(***************************************************************************)
\* What check_stop() of command `c' leaves, `log' being what was shown of it.
PaneLeft(c, log) ==
    /\ cmd' \in [View -> 0..MaxCmds] /\ find_cmd' \subseteq View /\ jobs' \in [View -> Nat]
    /\ shown' \in [Cmd -> [Stream -> Seq(Nat)]]
    /\ StopReaches' /\ OnePane'
    /\ \A d \in Cmd : d # c => shown'[d] = shown[d] /\ (Current(d)' <=> Current(d))
    /\ AllGone(c, pid', watch') => /\ ~Current(c)'
                                    /\ \A s \in Stream : shown'[c][s] = Append(log[s], Exit)
    /\ ~AllGone(c, pid', watch') => Current(c)' /\ shown'[c] = log

\* check_stop() of the command of pane `v', when the rest of the step keeps it
\* watched as CommandOK says.
LEMMA CheckStopPanes ==
    ASSUME CommandInvariant, NEW v \in View, NEW c \in Cmd, cmd[v] = c, NEW log,
           log \in [Stream -> Seq(Nat)], started' = started, closed' = closed,
           check_stop(v, c, log)
    PROVE  PaneLeft(c, log)
<1> USE DEF CommandInvariant
<1>1. c # 0
  BY DEF Cmd
<1>2. CASE AllGone(c, pid', watch')
  <2>1. /\ shown' = [shown EXCEPT ![c] = [s \in Stream |-> Append(log[s], Exit)]]
        /\ find_cmd' = find_cmd \ {v}
        /\ jobs' = [jobs EXCEPT ![v] = IF @ = 0 THEN 0 ELSE @ - 1]
        /\ cmd' = [cmd EXCEPT ![v] = 0]
    BY <1>2 DEF check_stop, JobFinished
  <2>2. [s \in Stream |-> Append(log[s], Exit)] \in [Stream -> Seq(Nat)]
    BY DEF Exit
  <2>3. jobs' \in [View -> Nat] /\ cmd' \in [View -> 0..MaxCmds] /\ find_cmd' \subseteq View
    BY <2>1 DEF TypeOK
  <2>4. shown' \in [Cmd -> [Stream -> Seq(Nat)]] /\ \A s \in Stream : shown'[c][s] = Append(log[s], Exit)
    BY <2>1, <2>2 DEF TypeOK
  <2>5. OnePane'
    BY <2>1 DEF TypeOK, OnePane
  <2>6. StopReaches'
    BY <2>1 DEF TypeOK, StopReaches
  <2>7. \A d \in Cmd : d # c => shown'[d] = shown[d] /\ (Current(d)' <=> Current(d))
    BY <2>1 DEF TypeOK, Current, Cmd
  <2>8. ~Current(c)'
    BY <2>1, <1>1 DEF TypeOK, Current, OnePane
  <2> QED
    BY <1>2, <2>3, <2>4, <2>5, <2>6, <2>7, <2>8 DEF PaneLeft
<1>3. CASE ~AllGone(c, pid', watch')
  <2>1. shown' = [shown EXCEPT ![c] = log] /\ UNCHANGED <<find_cmd, jobs, cmd>>
    BY <1>3 DEF check_stop
  <2>2. shown' \in [Cmd -> [Stream -> Seq(Nat)]] /\ shown'[c] = log
    BY <2>1 DEF TypeOK
  <2>3. OnePane' /\ StopReaches'
    BY <2>1 DEF OnePane, StopReaches
  <2>4. \A d \in Cmd : d # c => shown'[d] = shown[d] /\ (Current(d)' <=> Current(d))
    BY <2>1 DEF TypeOK, Current
  <2>5. Current(c)'
    BY <2>1 DEF Current
  <2> QED
    BY <1>3, <2>1, <2>2, <2>3, <2>4, <2>5 DEF TypeOK, PaneLeft
<1> QED
  BY <1>2, <1>3

LEMMA CommandExitKeeps ==
    ASSUME CommandInvariant, NEW c \in Cmd, command_exit(c)
    PROVE  CommandInvariant'
<1> USE DEF CommandInvariant
<1>1. /\ UNCHANGED <<started, closed, hup, open, wrote, got, stopped>>
      /\ shell[c] = "exited" /\ shell' = [shell EXCEPT ![c] = "reaped"]
  BY DEF command_exit
<1>2. shell' \in [Cmd -> {"none", "runs", "exited", "reaped"}] /\ shell'[c] = "reaped"
  BY <1>1 DEF TypeOK
<1>3. \A d \in Cmd : d # c => shell'[d] = shell[d]
  BY <1>1 DEF TypeOK
<1>6. started \in Nat
  BY DEF TypeOK
<1>4. CASE ~pid[c]
  <2>1. UNCHANGED <<pid, watch, cmd, find_cmd, jobs, shown>>
    BY <1>4 DEF command_exit
  <2>2. \A d \in Cmd : CommandOK(d) /\ (Current(d)' <=> Current(d))
    BY <2>1 DEF Current
  <2>3. TypeOK' /\ StopReaches' /\ OnePane'
    BY <1>1, <1>2, <2>1 DEF TypeOK, StopReaches, OnePane
  <2>4. ASSUME NEW d \in Cmd, d # c PROVE CommandOK(d)'
    BY <1>1, <1>3, <1>6, <2>1, <2>2, <2>4, LeftAlone
  <2>5. CommandOK(c)'
    BY <1>1, <1>2, <1>4, <2>1, <2>2 DEF CommandOK
  <2> QED
    BY <2>3, <2>4, <2>5
<1>5. CASE pid[c]
  <2>1. PICK v \in View : cmd[v] = c /\ check_stop(v, c, shown[c])
    BY <1>5 DEF command_exit
  <2>2. pid' = [pid EXCEPT ![c] = FALSE] /\ watch' = watch
    BY <1>5 DEF command_exit
  <2>3. shown[c] \in [Stream -> Seq(Nat)]
    BY DEF TypeOK
  <2>4. /\ cmd' \in [View -> 0..MaxCmds] /\ find_cmd' \subseteq View /\ jobs' \in [View -> Nat]
        /\ shown' \in [Cmd -> [Stream -> Seq(Nat)]]
        /\ StopReaches' /\ OnePane'
        /\ \A d \in Cmd : d # c => shown'[d] = shown[d] /\ (Current(d)' <=> Current(d))
        /\ AllGone(c, pid', watch') => /\ ~Current(c)'
                                        /\ \A s \in Stream : shown'[c][s] = Append(shown[c][s], Exit)
        /\ ~AllGone(c, pid', watch') => Current(c)' /\ shown'[c] = shown[c]
    <3>1. PICK log \in [Stream -> Seq(Nat)] : log = shown[c]
      BY <2>3
    <3>2. started' = started /\ closed' = closed /\ check_stop(v, c, log)
      BY <1>1, <2>1, <3>1
    <3>3. PaneLeft(c, log)
      BY <2>1, <3>1, <3>2, CheckStopPanes
    <3> QED
      BY <3>1, <3>3 DEF PaneLeft
  <2>5. pid' \in [Cmd -> BOOLEAN] /\ ~pid'[c] /\ \A d \in Cmd : d # c => pid'[d] = pid[d]
    BY <2>2 DEF TypeOK
  <2>6. TypeOK'
    BY <1>1, <1>2, <2>2, <2>4, <2>5 DEF TypeOK
  <2>7. ASSUME NEW d \in Cmd, d # c PROVE CommandOK(d)'
    <3>1. shell'[d] = shell[d] /\ pid'[d] = pid[d] /\ shown'[d] = shown[d] /\ (Current(d)' <=> Current(d))
      BY <1>3, <2>4, <2>5, <2>7
    <3>2. /\ CommandOK(d) /\ TypeOK /\ started' = started /\ watch'[d] = watch[d]
          /\ got'[d] = got[d] /\ wrote'[d] = wrote[d] /\ stopped' = stopped
      BY <1>1, <2>2
    <3>3. started' \in Nat /\ started' >= started /\ (d \in stopped' <=> d \in stopped)
      BY <1>6, <3>2
    <3> QED
      BY <3>1, <3>2, <3>3, LeftAlone
  <2>8. CommandOK(c)'
    <3>1. CommandOK(c) /\ Current(c) /\ \A s \in Stream : shown[c][s] = Lines(got[c][s])
      BY <2>1 DEF Current, CommandOK
    <3>2. c > started' => shell'[c] = "none"
      BY <1>1, <3>1 DEF CommandOK
    <3>3. \A s \in Stream : got'[c][s] <= wrote'[c][s] /\
             (c \notin stopped' /\ s \notin watch'[c] => got'[c][s] = wrote'[c][s])
      BY <1>1, <2>2, <3>1 DEF CommandOK
    <3>4. CASE AllGone(c, pid', watch')
      <4>1. watch'[c] = {}
        BY <3>4 DEF AllGone
      <4>2. \A s \in Stream : shown'[c][s] = Append(Lines(got'[c][s]), Exit)
        BY <1>1, <2>4, <3>1, <3>4
      <4> QED
        BY <1>2, <2>4, <2>5, <3>2, <3>3, <3>4, <4>1, <4>2 DEF CommandOK
    <3>5. CASE ~AllGone(c, pid', watch')
      <4>1. \A s \in Stream : shown'[c][s] = Lines(got'[c][s])
        BY <1>1, <2>4, <3>1, <3>5
      <4> QED
        BY <1>2, <2>4, <2>5, <3>2, <3>3, <3>5, <4>1 DEF CommandOK
    <3> QED
      BY <3>4, <3>5
  <2> QED
    BY <2>4, <2>6, <2>7, <2>8
<1> QED
  BY <1>4, <1>5

LEMMA OutOrErrKeeps ==
    ASSUME CommandInvariant, NEW c \in Cmd, NEW s \in Stream, command_out_or_err(c, s)
    PROVE  CommandInvariant'
<1> USE DEF CommandInvariant
<1>1. PICK k \in 1..Waiting(c, s) :
          /\ got' = [got EXCEPT ![c][s] = @ + k]
          /\ shown' = [shown EXCEPT ![c] = Showing(c, s, k)]
  BY DEF command_out_or_err
<1>2. s \in watch[c] /\ UNCHANGED <<panes, process, pid, watch, stopped>>
  BY DEF command_out_or_err
<1>3. /\ got[c][s] \in Nat /\ wrote[c][s] \in Nat /\ wrote[c][s] <= MaxLines
      /\ k \in Nat /\ got[c][s] + k <= wrote[c][s]
  BY DEF TypeOK, Waiting
<1>4. /\ CommandOK(c) /\ Current(c)
      /\ \A t \in Stream : shown[c][t] = Lines(got[c][t])
  BY <1>2 DEF CommandOK
<1>5. /\ got' \in [Cmd -> [Stream -> 0..MaxLines]] /\ got'[c][s] = got[c][s] + k
      /\ \A t \in Stream : t # s => got'[c][t] = got[c][t]
      /\ \A d \in Cmd : d # c => got'[d] = got[d]
  BY <1>1, <1>3 DEF TypeOK
<1>6. /\ Showing(c, s, k) \in [Stream -> Seq(Nat)]
      /\ \A t \in Stream : Showing(c, s, k)[t] = Lines(got'[c][t])
  <2>1. /\ shown[c] \in [Stream -> Seq(Nat)]
        /\ Showing(c, s, k) = [shown[c] EXCEPT ![s] = Lines(got[c][s]) \o [i \in 1..k |-> got[c][s] + i]]
    BY <1>4 DEF Showing, TypeOK
  <2>2. /\ Lines(got[c][s]) \o [i \in 1..k |-> got[c][s] + i] = Lines(got[c][s] + k)
        /\ Lines(got[c][s] + k) \in Seq(Nat)
    <3>1. got[c][s] \in Nat /\ k \in Nat /\ got[c][s] + k \in Nat
      BY <1>3
    <3> QED
      BY <3>1, LinesGrow, LinesType, Zenon
  <2>3. Showing(c, s, k) = [shown[c] EXCEPT ![s] = Lines(got[c][s] + k)]
    BY <2>1, <2>2
  <2> QED
    BY <1>4, <1>5, <2>1, <2>2, <2>3
<1>7. /\ shown' \in [Cmd -> [Stream -> Seq(Nat)]] /\ shown'[c] = Showing(c, s, k)
      /\ \A d \in Cmd : d # c => shown'[d] = shown[d]
  BY <1>1, <1>6 DEF TypeOK
<1>8. TypeOK' /\ StopReaches' /\ OnePane' /\ \A d \in Cmd : Current(d)' <=> Current(d)
  BY <1>2, <1>5, <1>7 DEF TypeOK, StopReaches, OnePane, Current, panes, process
<1>9. ASSUME NEW d \in Cmd, d # c PROVE CommandOK(d)'
  <2>1. started \in Nat /\ UNCHANGED <<started, shell, pid, watch, wrote, stopped>>
    BY <1>2 DEF TypeOK, panes, process
  <2> QED
    BY <1>5, <1>7, <1>8, <1>9, <2>1, LeftAlone
<1>10. CommandOK(c)'
  <2>1. \A t \in Stream :
          /\ got'[c][t] <= wrote'[c][t]
          /\ Current(c)' /\ c \notin stopped' /\ t \notin watch'[c] => got'[c][t] = wrote'[c][t]
    BY <1>2, <1>3, <1>4, <1>5 DEF CommandOK, process
  <2> QED
    BY <1>2, <1>4, <1>6, <1>7, <1>8, <2>1 DEF CommandOK, panes, process
<1> QED
  BY <1>8, <1>9, <1>10

LEMMA WatchRemovedKeeps ==
    ASSUME CommandInvariant, NEW c \in Cmd, NEW s \in Stream, watch_removed(c, s)
    PROVE  CommandInvariant'
<1> DEFINE k   == Waiting(c, s)
           log == Showing(c, s, k)
<1> USE DEF CommandInvariant
<1>1. /\ s \in watch[c]
      /\ got' = [got EXCEPT ![c][s] = @ + k]
      /\ watch' = [watch EXCEPT ![c] = @ \ {s}]
      /\ UNCHANGED <<pid, started, closed, process, stopped>>
      /\ \E v \in View : cmd[v] = c /\ check_stop(v, c, log)
  BY DEF watch_removed, Leftover
<1>2. /\ CommandOK(c) /\ Current(c) /\ started \in Nat
      /\ \A t \in Stream : shown[c][t] = Lines(got[c][t])
  BY <1>1 DEF CommandOK, TypeOK
<1>3. /\ got[c][s] \in Nat /\ wrote[c][s] \in Nat /\ wrote[c][s] <= MaxLines
      /\ k \in Nat /\ got[c][s] + k = wrote[c][s]
  BY <1>2 DEF TypeOK, Waiting, CommandOK
<1>4. /\ got' \in [Cmd -> [Stream -> 0..MaxLines]] /\ got'[c][s] = got[c][s] + k
      /\ \A t \in Stream : t # s => got'[c][t] = got[c][t]
      /\ \A d \in Cmd : d # c => got'[d] = got[d]
  BY <1>1, <1>3 DEF TypeOK
<1>5. /\ watch' \in [Cmd -> SUBSET Stream] /\ watch'[c] = watch[c] \ {s}
      /\ \A d \in Cmd : d # c => watch'[d] = watch[d]
  BY <1>1 DEF TypeOK
<1>6. /\ log \in [Stream -> Seq(Nat)]
      /\ \A t \in Stream : log[t] = Lines(got'[c][t])
  <2>1. /\ shown[c] \in [Stream -> Seq(Nat)]
        /\ log = [shown[c] EXCEPT ![s] = Lines(got[c][s]) \o [i \in 1..k |-> got[c][s] + i]]
    BY <1>2 DEF Showing, TypeOK
  <2>2. /\ Lines(got[c][s]) \o [i \in 1..k |-> got[c][s] + i] = Lines(got[c][s] + k)
        /\ Lines(got[c][s] + k) \in Seq(Nat)
    <3>1. got[c][s] \in Nat /\ k \in Nat /\ got[c][s] + k \in Nat
      BY <1>3
    <3> HIDE DEF k
    <3> QED
      BY <3>1, LinesGrow, LinesType, Zenon
  <2>3. log = [shown[c] EXCEPT ![s] = Lines(got[c][s] + k)]
    BY <2>1, <2>2
  <2> HIDE DEF log, k
  <2> QED
    BY <1>2, <1>4, <2>1, <2>2, <2>3
<1> HIDE DEF log, k
<1>7. PICK v \in View : cmd[v] = c /\ check_stop(v, c, log)
  BY <1>1
<1>8. /\ cmd' \in [View -> 0..MaxCmds] /\ find_cmd' \subseteq View /\ jobs' \in [View -> Nat]
      /\ shown' \in [Cmd -> [Stream -> Seq(Nat)]]
      /\ StopReaches' /\ OnePane'
      /\ \A d \in Cmd : d # c => shown'[d] = shown[d] /\ (Current(d)' <=> Current(d))
      /\ AllGone(c, pid', watch') => /\ ~Current(c)'
                                      /\ \A t \in Stream : shown'[c][t] = Append(log[t], Exit)
      /\ ~AllGone(c, pid', watch') => Current(c)' /\ shown'[c] = log
  <2>1. PICK shows \in [Stream -> Seq(Nat)] : shows = log
    BY <1>6
  <2>2. /\ started' = started /\ closed' = closed /\ check_stop(v, c, shows)
        /\ cmd[v] = c /\ shows \in [Stream -> Seq(Nat)]
    BY <1>1, <1>7, <2>1
  <2>3. PaneLeft(c, shows)
    BY <2>2, CheckStopPanes
  <2> QED
    BY <2>1, <2>3 DEF PaneLeft
<1>9. TypeOK'
  BY <1>1, <1>4, <1>5, <1>8 DEF TypeOK, process
<1>10. ASSUME NEW d \in Cmd, d # c PROVE CommandOK(d)'
  <2>1. /\ got'[d] = got[d] /\ watch'[d] = watch[d] /\ shown'[d] = shown[d]
        /\ Current(d)' <=> Current(d)
    BY <1>4, <1>5, <1>8, <1>10
  <2>2. UNCHANGED <<started, shell, pid, wrote, stopped>>
    BY <1>1 DEF process
  <2> QED
    BY <1>2, <2>1, <2>2, LeftAlone
<1>11. CommandOK(c)'
  <2>1. UNCHANGED <<started, shell, pid, wrote, stopped>>
    BY <1>1 DEF process
  <2>2. /\ c > started' => shell'[c] = "none"
        /\ pid'[c] => shell'[c] \in {"runs", "exited"}
        /\ ~pid'[c] => shell'[c] = "reaped"
    BY <1>2, <2>1 DEF CommandOK
  <2>3. \A t \in Stream :
           /\ got'[c][t] <= wrote'[c][t]
           /\ c \notin stopped' /\ t \notin watch'[c] => got'[c][t] = wrote'[c][t]
    BY <1>2, <1>3, <1>4, <1>5, <2>1 DEF CommandOK
  <2>4. CASE AllGone(c, pid', watch')
    <3>1. /\ ~Current(c)' /\ ~pid'[c] /\ watch'[c] = {}
          /\ \A t \in Stream : shown'[c][t] = Append(Lines(got'[c][t]), Exit)
      BY <1>6, <1>8, <2>4 DEF AllGone
    <3> QED
      BY <2>2, <2>3, <3>1 DEF CommandOK
  <2>5. CASE ~AllGone(c, pid', watch')
    <3>1. Current(c)' /\ \A t \in Stream : shown'[c][t] = Lines(got'[c][t])
      BY <1>6, <1>8, <2>5
    <3> QED
      BY <2>2, <2>3, <3>1 DEF CommandOK
  <2> QED
    BY <2>4, <2>5
<1> QED
  BY <1>8, <1>9, <1>10, <1>11
-----------------------------------------------------------------------------
(***************************************************************************)
(* The user.                                                               *)
(***************************************************************************)
\* A command that a pane drops.
LEMMA DroppedOK ==
    ASSUME NEW c \in Cmd, CommandOK(c), TypeOK,
           started' \in Nat, started' >= started,
           shell'[c] = shell[c], got'[c] = got[c], wrote'[c] = wrote[c], shown'[c] = shown[c],
           ~pid'[c], watch'[c] = {}, ~Current(c)', c \in stopped' <=> c \in stopped
    PROVE  CommandOK(c)'
<1>1. \/ \A s \in Stream : shown'[c][s] = Lines(got'[c][s])
      \/ /\ \A s \in Stream : shown'[c][s] = Append(Lines(got'[c][s]), Exit)
         /\ shell'[c] = "reaped"
         /\ c \notin stopped' => \A s \in Stream : got'[c][s] = wrote'[c][s]
  BY DEF CommandOK
<1>2. /\ c > started' => shell'[c] = "none"
      /\ \A s \in Stream : got'[c][s] <= wrote'[c][s]
  BY DEF CommandOK, TypeOK, Cmd
<1> QED
  BY <1>1, <1>2 DEF CommandOK

LEMMA RunKeeps ==
    ASSUME CommandInvariant, NEW v \in View, Run(v),
           find_cmd' \subseteq View, v \in Search => v \in find_cmd',
           \A u \in View : u \in find_cmd => u \in find_cmd'
    PROVE  CommandInvariant'
<1> USE DEF CommandInvariant
<1>1. /\ started' = started + 1 /\ started < MaxCmds /\ started \in Nat
      /\ hup' = hup \cup Abortable({v})
      /\ UNCHANGED <<closed, wrote, got, stopped, shown>>
  BY DEF Run, TypeOK
<1>2. started' \in Cmd /\ started' \in 0..MaxCmds /\ started' # 0
  BY <1>1 DEF Cmd
<1>3. hup' \subseteq Cmd
  BY <1>1 DEF Abortable, TypeOK
<1>4. \A d \in Cmd : d \in Dropped({v}) <=> cmd[v] = d
  BY DEF Dropped
<1>5. \A u \in View : cmd[u] \in 0..started /\ cmd[u] # started'
  BY <1>1 DEF OnePane
<1>6. CASE /\ cmd' = [cmd EXCEPT ![v] = 0]
           /\ pid' = [c \in Cmd |-> pid[c] /\ c \notin Dropped({v})]
           /\ watch' = [c \in Cmd |-> IF c \in Dropped({v}) THEN {} ELSE watch[c]]
           /\ UNCHANGED <<jobs, shell, open>>
  <2>1. \A d \in Cmd : /\ pid'[d] = (pid[d] /\ cmd[v] # d)
                       /\ watch'[d] = IF cmd[v] = d THEN {} ELSE watch[d]
    BY <1>4, <1>6
  <2>2. /\ cmd'[v] = 0 /\ cmd' \in [View -> 0..MaxCmds]
        /\ \A u \in View : u # v => cmd'[u] = cmd[u]
    BY <1>6 DEF TypeOK
  <2>3. TypeOK'
    <3>1. pid' \in [Cmd -> BOOLEAN] /\ watch' \in [Cmd -> SUBSET Stream]
      BY <1>6 DEF TypeOK
    <3> QED
      BY <1>1, <1>2, <1>3, <1>6, <2>2, <3>1 DEF TypeOK
  <2>4. OnePane' /\ StopReaches'
    BY <1>1, <1>5, <1>6, <2>2 DEF OnePane, StopReaches
  <2>5. ASSUME NEW d \in Cmd PROVE CommandOK(d)'
    <3>1. /\ CommandOK(d) /\ TypeOK /\ started' \in Nat /\ started' >= started
          /\ shell'[d] = shell[d] /\ got'[d] = got[d] /\ wrote'[d] = wrote[d] /\ shown'[d] = shown[d]
          /\ (d \in stopped' <=> d \in stopped)
      BY <1>1, <1>6
    <3>2. CASE cmd[v] = d
      <4>1. ~Current(d)'
        BY <2>2, <3>2 DEF Current, OnePane, Cmd
      <4>2. ~pid'[d] /\ watch'[d] = {}
        BY <2>1, <3>2
      <4> QED
        BY <3>1, <4>1, <4>2, DroppedOK
    <3>3. CASE cmd[v] # d
      <4>1. Current(d)' <=> Current(d)
        BY <2>2, <3>3 DEF Current, Cmd
      <4>2. pid'[d] = pid[d] /\ watch'[d] = watch[d]
        BY <2>1, <3>3 DEF TypeOK
      <4> QED
        BY <3>1, <4>1, <4>2, LeftAlone
    <3> QED
      BY <3>2, <3>3
  <2> QED
    BY <2>3, <2>4, <2>5
<1>7. CASE /\ cmd' = [cmd EXCEPT ![v] = started']
           /\ jobs' = [jobs EXCEPT ![v] = @ + 1]
           /\ shell' = [shell EXCEPT ![started'] = "runs"]
           /\ open' = [open EXCEPT ![started'] = Stream]
           /\ pid' = [c \in Cmd |-> c = started' \/ (pid[c] /\ c \notin Dropped({v}))]
           /\ watch' = [c \in Cmd |-> IF c = started' THEN Stream
                                      ELSE IF c \in Dropped({v}) THEN {} ELSE watch[c]]
  <2>1. PICK new \in Cmd : new = started'
    BY <1>2
  <2>2. /\ \A d \in Cmd : d # new => shell'[d] = shell[d]
        /\ shell'[new] = "runs"
    BY <1>7, <2>1 DEF TypeOK
  <2>3. /\ \A d \in Cmd : d # new => watch'[d] = IF cmd[v] = d THEN {} ELSE watch[d]
        /\ watch'[new] = Stream
    BY <1>4, <1>7, <2>1
  <2>4. /\ \A d \in Cmd : d # new => (pid'[d] <=> pid[d] /\ cmd[v] # d)
        /\ pid'[new]
    BY <1>4, <1>7, <2>1
  <2>5. /\ cmd'[v] = started' /\ cmd' \in [View -> 0..MaxCmds]
        /\ \A u \in View : u # v => cmd'[u] = cmd[u]
    BY <1>2, <1>7 DEF TypeOK
  <2>6. TypeOK'
    <3>1. pid' \in [Cmd -> BOOLEAN] /\ watch' \in [Cmd -> SUBSET Stream]
      BY <1>7 DEF TypeOK
    <3>2. jobs' \in [View -> Nat]
      BY <1>7 DEF TypeOK
    <3>4. open' \in [Cmd -> SUBSET Stream]
      BY <1>7 DEF TypeOK
    <3>3. shell' \in [Cmd -> {"none", "runs", "exited", "reaped"}]
      BY <1>7 DEF TypeOK
    <3> QED
      BY <1>1, <1>2, <1>3, <2>5, <3>1, <3>2, <3>3, <3>4 DEF TypeOK
  <2>7. OnePane' /\ StopReaches'
    <3>1. OnePane'
      BY <1>1, <1>2, <1>5, <2>5 DEF OnePane
    <3>2. \A u \in View : jobs[u] \in Nat /\ jobs'[u] = IF u = v THEN jobs[u] + 1 ELSE jobs[u]
      BY <1>7 DEF TypeOK
    <3>3. StopReaches'
      BY <2>5, <3>2 DEF StopReaches
    <3> QED
      BY <3>1, <3>3
  <2>8. ASSUME NEW d \in Cmd, d # new PROVE CommandOK(d)'
    <3>1. /\ CommandOK(d) /\ TypeOK /\ started' \in Nat /\ started' >= started
          /\ shell'[d] = shell[d] /\ got'[d] = got[d] /\ wrote'[d] = wrote[d] /\ shown'[d] = shown[d]
          /\ (d \in stopped' <=> d \in stopped)
      BY <1>1, <2>1, <2>2, <2>8
    <3>2. CASE cmd[v] = d
      <4>1. ~Current(d)'
        BY <2>1, <2>5, <2>8, <3>2 DEF Current, OnePane, Cmd
      <4>2. ~pid'[d] /\ watch'[d] = {}
        BY <2>3, <2>4, <2>8, <3>2
      <4> QED
        BY <3>1, <4>1, <4>2, DroppedOK
    <3>3. CASE cmd[v] # d
      <4>1. Current(d)' <=> Current(d)
        BY <2>1, <2>5, <2>8, <3>3 DEF Current
      <4>2. pid'[d] = pid[d] /\ watch'[d] = watch[d]
        <5>1. pid'[d] \in BOOLEAN /\ pid[d] \in BOOLEAN
          BY <2>6 DEF TypeOK
        <5>2. pid'[d] <=> pid[d]
          BY <2>4, <2>8, <3>3, Zenon
        <5>3. watch'[d] = watch[d]
          BY <2>3, <2>8, <3>3
        <5> QED
          BY <5>1, <5>2, <5>3
      <4> QED
        BY <3>1, <4>1, <4>2, LeftAlone
    <3> QED
      BY <3>2, <3>3
  <2>9. ASSUME NEW d \in Cmd, d = new PROVE CommandOK(d)'
    <3>1. CommandOK(d) /\ d > started
      BY <1>1, <2>1, <2>9
    <3>2. /\ \A s \in Stream : got'[d][s] <= wrote'[d][s] /\ s \in watch'[d]
          /\ \A s \in Stream : shown'[d][s] = Lines(got'[d][s])
      BY <1>1, <2>3, <2>9, <3>1 DEF CommandOK
    <3>3. Current(d)' /\ pid'[d] /\ shell'[d] = "runs" /\ ~(d > started')
      BY <1>1, <2>1, <2>2, <2>4, <2>5, <2>9 DEF Current
    <3> QED
      BY <3>2, <3>3 DEF CommandOK
  <2> QED
    BY <2>6, <2>7, <2>8, <2>9
<1> QED
  BY <1>6, <1>7 DEF Run, JobStarted

LEMMA StopKeeps ==
    ASSUME CommandInvariant, Stop
    PROVE  CommandInvariant'
<1> USE DEF CommandInvariant
<1>1. PICK aborted \in SUBSET Cmd :
          /\ \A c \in aborted : pid[c]
          /\ hup' = hup \cup aborted /\ stopped' = stopped \cup aborted
          /\ watch' = [c \in Cmd |-> IF c \in aborted THEN {} ELSE watch[c]]
  <2>1. /\ Abortable({v \in View : jobs[v] > 0}) \in SUBSET Cmd
        /\ \A c \in Abortable({v \in View : jobs[v] > 0}) : pid[c]
    BY DEF Abortable
  <2> QED
    BY <2>1 DEF Stop
<1>2. UNCHANGED <<panes, shell, open, wrote, got, pid, shown>>
  BY DEF Stop
<1>3. watch' \in [Cmd -> SUBSET Stream] /\ hup' \subseteq Cmd /\ stopped' \subseteq Cmd
  BY <1>1 DEF TypeOK
<1>4. TypeOK' /\ StopReaches' /\ OnePane'
  BY <1>2, <1>3 DEF TypeOK, StopReaches, OnePane, panes
<1>5. ASSUME NEW c \in Cmd PROVE CommandOK(c)'
  <2>1. CommandOK(c) /\ (Current(c)' <=> Current(c))
    BY <1>2 DEF Current, panes
  <2>2. CASE c \in aborted
    <3>1. pid[c] /\ Current(c) /\ c \in stopped' /\ watch'[c] = {}
      BY <1>1, <2>1, <2>2 DEF CommandOK
    <3>2. \A s \in Stream : got[c][s] <= wrote[c][s] /\ shown[c][s] = Lines(got[c][s])
      BY <2>1, <3>1 DEF CommandOK
    <3> QED
      BY <1>2, <2>1, <3>1, <3>2 DEF CommandOK, panes
  <2>3. CASE c \notin aborted
    <3>1. started \in Nat /\ watch'[c] = watch[c] /\ (c \in stopped' <=> c \in stopped)
      BY <1>1, <2>3 DEF TypeOK
    <3>2. UNCHANGED <<started, shell, wrote, got, pid, shown>>
      BY <1>2 DEF panes
    <3> QED
      BY <2>1, <3>1, <3>2, LeftAlone
  <2> QED
    BY <2>2, <2>3
<1> QED
  BY <1>4, <1>5

LEMMA CloseKeeps ==
    ASSUME CommandInvariant, Close
    PROVE  CommandInvariant'
<1> USE DEF CommandInvariant
<1>1. /\ UNCHANGED <<started, find_cmd, shell, open, wrote, got, stopped, shown>>
      /\ cmd' = [v \in View |-> 0] /\ jobs' = [v \in View |-> 0] /\ closed' = TRUE
  BY DEF Close
<1>2. hup' \subseteq Cmd /\ pid' \in [Cmd -> BOOLEAN] /\ watch' \in [Cmd -> SUBSET Stream]
  BY DEF Close, Abortable, TypeOK
<1>3. TypeOK' /\ StopReaches' /\ OnePane'
  BY <1>1, <1>2 DEF TypeOK, StopReaches, OnePane
<1>4. ASSUME NEW c \in Cmd PROVE CommandOK(c)'
  <2>1. CommandOK(c) /\ started \in Nat /\ ~Current(c)'
    BY <1>1 DEF Current, Cmd, TypeOK
  <2>2. c \in Dropped(View) <=> Current(c)
    BY DEF Dropped, Current
  <2>3. ~pid'[c]
    <3>1. pid'[c] <=> pid[c] /\ c \notin Dropped(View)
      BY DEF Close
    <3>2. pid[c] => Current(c)
      BY <2>1 DEF CommandOK
    <3> QED
      BY <2>2, <3>1, <3>2, Zenon
  <2>4. watch'[c] = {}
    BY <2>1, <2>2 DEF Close, CommandOK
  <2> QED
    BY <1>1, <2>1, <2>3, <2>4, DroppedOK
<1> QED
  BY <1>3, <1>4

LEMMA StepKeeps ==
    ASSUME CommandInvariant, [Next]_vars
    PROVE  CommandInvariant'
<1>1. ASSUME NEW v \in View, RunTool(v) PROVE CommandInvariant'
  BY <1>1, RunKeeps DEF RunTool, CommandInvariant, TypeOK
<1>2. ASSUME NEW v \in View, execute_grep(v) PROVE CommandInvariant'
  BY <1>2, RunKeeps DEF execute_grep, CommandInvariant, TypeOK
<1>3. ASSUME NEW v \in View, execute_find(v) PROVE CommandInvariant'
  BY <1>3, RunKeeps DEF execute_find, CommandInvariant, TypeOK
<1>4. CASE User
  BY <1>1, <1>2, <1>3, <1>4, StopKeeps, CloseKeeps DEF User
<1>5. ASSUME NEW c \in Cmd, Process(c) PROVE CommandInvariant'
  BY <1>5, WritesKeeps, ClosesKeeps, ExitsKeeps DEF Process
<1>6. ASSUME NEW c \in Cmd, MainLoop(c) PROVE CommandInvariant'
  BY <1>6, CommandExitKeeps, OutOrErrKeeps, WatchRemovedKeeps DEF MainLoop
<1>7. CASE UNCHANGED vars
  <2>1. TypeOK' /\ StopReaches' /\ OnePane'
    BY <1>7 DEF vars, CommandInvariant, TypeOK, StopReaches, OnePane
  <2>2. ASSUME NEW c \in Cmd PROVE CommandOK(c)'
    BY <1>7 DEF vars, CommandInvariant, CommandOK, Current
  <2> QED
    BY <2>1, <2>2 DEF CommandInvariant
<1> QED
  BY <1>4, <1>5, <1>6, <1>7 DEF Next

LEMMA CommandInvariantHolds == Spec => []CommandInvariant
BY InitHolds, StepKeeps, PTL DEF Spec
-----------------------------------------------------------------------------
\* The variables of CmdView keep their types: what a pane shows is a sequence of
\* lines however many were written.
THEOREM CommandTypeCorrect == Spec => []TypeOK
<1>1. CommandInvariant => TypeOK
  BY DEF CommandInvariant
<1> QED
  BY <1>1, CommandInvariantHolds, PTL

\* A pane with a command has a job, and a search is one the plugin knows of
\* (moo_edit_window_abort_jobs() reaches it, moofind.cpp:986 never fails).
THEOREM StopReachesEveryCommand == Spec => []StopReaches
<1>1. CommandInvariant => StopReaches
  BY DEF CommandInvariant
<1> QED
  BY <1>1, CommandInvariantHolds, PTL

\* The end of a command is shown once, after every line of both its pipes
\* (moo_cmd_check_stop() against try_channel_leftover()).
THEOREM OutputIsShownBeforeExit == Spec => []OutputThenExit
<1>1. ASSUME CommandInvariant, NEW c \in Cmd
      PROVE  /\ \A s \in Stream :
                    shown[c][s] = IF EndTold(c) THEN Append(Lines(got[c][s]), Exit) ELSE Lines(got[c][s])
             /\ EndTold(c) =>
                    /\ ~Current(c) /\ shell[c] = "reaped"
                    /\ c \notin stopped => got[c] = wrote[c]
  <2>1. /\ CommandOK(c)
        /\ got[c] \in [Stream -> 0..MaxLines] /\ wrote[c] \in [Stream -> 0..MaxLines]
    BY <1>1 DEF CommandInvariant, TypeOK
  <2>2. CASE \A s \in Stream : shown[c][s] = Lines(got[c][s])
    <3>1. ~EndTold(c)
      <4>1. ASSUME NEW s \in Stream, NEW i \in DOMAIN shown[c][s] PROVE shown[c][s][i] # Exit
        <5>1. got[c][s] \in Nat /\ shown[c][s] = [j \in 1..got[c][s] |-> j]
          BY <2>1, <2>2 DEF Lines
        <5> QED
          BY <5>1 DEF Exit
      <4> QED
        BY <4>1 DEF EndTold
    <3> QED
      BY <2>2, <3>1
  <2>3. CASE /\ \A s \in Stream : shown[c][s] = Append(Lines(got[c][s]), Exit)
             /\ ~Current(c) /\ shell[c] = "reaped"
             /\ c \notin stopped => \A s \in Stream : got[c][s] = wrote[c][s]
    <3>1. EndTold(c)
      <4>1. got[c]["stdout"] \in Nat
        BY <2>1 DEF Stream
      <4>2. /\ Lines(got[c]["stdout"]) \in Seq(Nat) /\ Len(Lines(got[c]["stdout"])) = got[c]["stdout"]
        BY <4>1, LinesType
      <4>3. /\ got[c]["stdout"] + 1 \in DOMAIN shown[c]["stdout"]
            /\ shown[c]["stdout"][got[c]["stdout"] + 1] = Exit
        BY <2>3, <4>1, <4>2 DEF Stream
      <4> QED
        BY <4>3 DEF EndTold, Stream
    <3>2. c \notin stopped => got[c] = wrote[c]
      BY <2>1, <2>3
    <3> QED
      BY <2>3, <3>1, <3>2
  <2> QED
    BY <2>1, <2>2, <2>3 DEF CommandOK
<1>2. CommandInvariant => OutputThenExit
  BY <1>1 DEF OutputThenExit, Lines
<1> QED
  BY <1>2, CommandInvariantHolds, PTL

-----------------------------------------------------------------------------
(***************************************************************************)
(* CmdView implements CommandOutput.                                       *)
(***************************************************************************)
\* A command that was stopped was started, and is not watched.
StoppedOK == \A c \in stopped : c <= started /\ watch[c] = {}

OutputInvariant == CommandInvariant /\ StoppedOK

LEMMA StoppedInit == Init => StoppedOK
BY DEF Init, StoppedOK

LEMMA RunStopped ==
    ASSUME CommandInvariant, StoppedOK, NEW v \in View, Run(v)
    PROVE  StoppedOK'
<1>1. /\ started' = started + 1 /\ started \in Nat /\ stopped' = stopped /\ stopped \subseteq Cmd
      /\ watch \in [Cmd -> SUBSET Stream]
  BY DEF Run, CommandInvariant, TypeOK
<1>2. \A c \in Cmd : c # started' => watch'[c] = watch[c] \/ watch'[c] = {}
  BY <1>1, Zenon DEF Run
<1>3. ASSUME NEW c \in stopped PROVE c <= started' /\ watch'[c] = {}
  <2>1. c \in Cmd /\ c <= started /\ watch[c] = {}
    BY <1>1 DEF StoppedOK
  <2>2. c # started' /\ c <= started'
    BY <1>1, <2>1 DEF Cmd
  <2> QED  BY <1>2, <2>1, <2>2
<1> QED
  BY <1>1, <1>3 DEF StoppedOK

LEMMA StopStopped ==
    ASSUME CommandInvariant, StoppedOK, Stop
    PROVE  StoppedOK'
<1>0. PICK aborted : aborted = Abortable({v \in View : jobs[v] > 0})
  OBVIOUS
<1>1. /\ stopped' = stopped \cup aborted /\ started' = started
      /\ watch' = [c \in Cmd |-> IF c \in aborted THEN {} ELSE watch[c]]
      /\ \A c \in aborted : c \in Cmd /\ Current(c)
  <2>1. \A c \in aborted : c \in Cmd /\ Current(c)
    BY <1>0 DEF Abortable, Current
  <2> QED  BY <1>0, <2>1 DEF Stop, panes
<1>2. \A c \in aborted : c <= started
  BY <1>1, SMT DEF Current, CommandInvariant, OnePane, TypeOK
<1>3. stopped \subseteq Cmd
  BY DEF CommandInvariant, TypeOK
<1> QED
  BY <1>1, <1>2, <1>3 DEF StoppedOK

LEMMA StoppedStep == ASSUME CommandInvariant, StoppedOK, [Next]_vars PROVE StoppedOK'
<1>1. ASSUME UNCHANGED <<started, stopped>>, \A c \in Cmd : watch'[c] \subseteq watch[c]
      PROVE  StoppedOK'
  BY <1>1 DEF StoppedOK, CommandInvariant, TypeOK
<1>2. CASE UNCHANGED vars
  BY <1>2 DEF vars, StoppedOK
<1>3. ASSUME NEW v \in View, RunTool(v) \/ execute_grep(v) \/ execute_find(v) PROVE StoppedOK'
  BY <1>3, RunStopped DEF RunTool, execute_grep, execute_find
<1>4. CASE Close
  BY <1>1, <1>4 DEF Close
<1>5. ASSUME NEW c \in Cmd, Process(c) PROVE StoppedOK'
  BY <1>1, <1>5 DEF Process, Exits, Writes, Closes, panes
<1>6. ASSUME NEW c \in Cmd, MainLoop(c) PROVE StoppedOK'
  <2>1. UNCHANGED <<started, stopped>>
    BY <1>6, Zenon DEF MainLoop, command_exit, command_out_or_err, watch_removed, panes
  <2>2. watch' = watch \/ \E s \in Stream : watch' = [watch EXCEPT ![c] = @ \ {s}]
    BY <1>6, Zenon DEF MainLoop, command_exit, command_out_or_err, watch_removed
  <2>3. \A d \in Cmd : watch'[d] \subseteq watch[d]
    BY <2>2 DEF CommandInvariant, TypeOK
  <2> QED  BY <1>1, <2>1, <2>3
<1> QED
  BY <1>2, <1>3, <1>4, <1>5, <1>6, StopStopped DEF Next, User

\* A command that is watched is shown by a pane and was not stopped: its lines are
\* those read.
LEMMA WatchedActive ==
    ASSUME OutputInvariant, NEW c \in Cmd, watch[c] # {}
    PROVE  /\ c \notin stopped /\ \E v \in View : cmd[v] = c /\ Output!Active(v)
           /\ \A s \in Stream : shown[c][s] = Lines(got[c][s])
<1>1. CommandOK(c) /\ StoppedOK
  BY DEF OutputInvariant, CommandInvariant
<1>2. c \notin stopped
  BY <1>1 DEF StoppedOK
<1>3. PICK v \in View : cmd[v] = c
  BY <1>1 DEF CommandOK, Current
<1>4. Output!Active(v)
  BY <1>2, <1>3 DEF Output!Active, Cmd
<1> QED
  BY <1>1, <1>2, <1>3, <1>4 DEF CommandOK, Current

LEMMA WritesOutput ==
    ASSUME OutputInvariant, NEW c \in Cmd, NEW s \in Stream, Writes(c, s)
    PROVE  Output!Next
<1>1. PICK v \in View : cmd[v] = c /\ Output!Active(v)
  BY WatchedActive DEF Writes
<1>2. Output!Writes(v, s)
  BY <1>1 DEF Writes, Output!Writes, panes
<1> QED
  BY <1>2 DEF Output!Next, Stream, Output!Stream

\* The lines of one stream up to the last that was read.
LEMMA ShowsOutput ==
    ASSUME OutputInvariant, NEW c \in Cmd, NEW s \in Stream, watch[c] # {},
           NEW n \in Nat, got[c][s] <= n, n <= wrote[c][s],
           shown' = [shown EXCEPT ![c] = [shown[c] EXCEPT ![s] = Lines(n)]],
           UNCHANGED <<started, cmd, closed, stopped, wrote>>
    PROVE  Output!Next
<1>1. PICK v \in View : cmd[v] = c /\ Output!Active(v)
  BY WatchedActive
<1>2. got[c][s] \in Nat /\ wrote[c][s] \in Nat
  BY DEF OutputInvariant, CommandInvariant, TypeOK
<1>3. shown[c][s] = Lines(got[c][s]) /\ Len(Lines(got[c][s])) = got[c][s]
  BY <1>2, WatchedActive, LinesType
<1>4. n \in Len(shown[cmd[v]][s]) .. wrote[cmd[v]][s]
  BY <1>1, <1>2, <1>3
<1>5. shown' = [shown EXCEPT ![cmd[v]][s] = Output!LinesTo(n)]
  BY <1>1 DEF Output!LinesTo, Lines
<1>6. Output!Shows(v, s)
  BY <1>1, <1>4, <1>5 DEF Output!Shows
<1> QED
  BY <1>6 DEF Output!Next, Stream, Output!Stream

LEMMA OutOrErrOutput ==
    ASSUME OutputInvariant, NEW c \in Cmd, NEW s \in Stream, command_out_or_err(c, s)
    PROVE  Output!Next
<1>1. PICK k \in 1..Waiting(c, s) : shown' = [shown EXCEPT ![c] = Showing(c, s, k)]
  BY DEF command_out_or_err
<1>2. watch[c] # {} /\ UNCHANGED <<started, cmd, closed, stopped, wrote>>
  BY DEF command_out_or_err, panes, process
<1>3. got[c][s] \in Nat /\ wrote[c][s] \in Nat /\ k \in Nat /\ got[c][s] + k <= wrote[c][s]
  BY DEF OutputInvariant, CommandInvariant, TypeOK, Waiting
<1>4. shown[c][s] = Lines(got[c][s]) /\ Lines(got[c][s]) \o [i \in 1..k |-> got[c][s] + i] = Lines(got[c][s] + k)
  BY <1>2, <1>3, WatchedActive, LinesGrow
<1>5. shown[c] \in [Stream -> Seq(Nat)]
  BY DEF OutputInvariant, CommandInvariant, TypeOK
<1>6. Showing(c, s, k) = [shown[c] EXCEPT ![s] = Lines(got[c][s] + k)]
  BY <1>4, <1>5 DEF Showing
<1>7. shown' = [shown EXCEPT ![c] = [shown[c] EXCEPT ![s] = Lines(got[c][s] + k)]]
  BY <1>1, <1>6
<1>8. got[c][s] + k \in Nat /\ got[c][s] <= got[c][s] + k
  BY <1>3
<1> QED
  BY <1>2, <1>3, <1>7, <1>8, ShowsOutput

\* The end of the command of `v', when `log' is what was shown before: every line
\* unless it was stopped.
LEMMA EndsOutput ==
    ASSUME OutputInvariant, NEW v \in View, NEW c \in Cmd, cmd[v] = c, NEW log,
           \A s \in Stream : log[s] = IF c \in stopped THEN shown[c][s] ELSE Lines(wrote[c][s]),
           AllGone(c, pid', watch'), check_stop(v, c, log),
           UNCHANGED <<started, closed, stopped, wrote>>
    PROVE  Output!Next
<1>1. /\ shown' = [shown EXCEPT ![c] = [s \in Stream |-> Append(log[s], Exit)]]
      /\ cmd' = [cmd EXCEPT ![v] = 0]
  BY DEF check_stop
<1>2. Output!Active(v) <=> c \notin stopped
  BY DEF Output!Active, Cmd
<1>3. [s \in Stream |-> Append(log[s], Exit)]
      = [s \in Output!Stream |-> Append(IF Output!Active(v) THEN Output!LinesTo(wrote[cmd[v]][s])
                                        ELSE shown[cmd[v]][s], 0)]
  BY <1>2 DEF Stream, Output!Stream, Output!LinesTo, Lines, Exit
<1>4. cmd[v] # 0
  BY DEF Cmd
<1>5. Output!Ends(v)
  BY <1>1, <1>3, <1>4 DEF Output!Ends
<1> QED
  BY <1>5 DEF Output!Next

LEMMA WatchRemovedOutput ==
    ASSUME OutputInvariant, NEW c \in Cmd, NEW s \in Stream, watch_removed(c, s)
    PROVE  Output!Next
<1>1. PICK log : log = Showing(c, s, Waiting(c, s))
  OBVIOUS
<1>2. PICK v \in View : cmd[v] = c /\ check_stop(v, c, log)
  BY <1>1 DEF watch_removed, Leftover
<1>3. /\ UNCHANGED <<started, closed, stopped, wrote>> /\ s \in watch[c]
      /\ watch' = [watch EXCEPT ![c] = @ \ {s}]
  BY DEF watch_removed, process
<1>4. got[c][s] \in Nat /\ wrote[c][s] \in Nat /\ got[c][s] <= wrote[c][s]
  BY DEF OutputInvariant, CommandInvariant, TypeOK, CommandOK
<1>5. PICK k \in Nat : k = Waiting(c, s) /\ got[c][s] + k = wrote[c][s]
  BY <1>4 DEF Waiting
<1>6. /\ c \notin stopped /\ \A t \in Stream : shown[c][t] = Lines(got[c][t])
      /\ Lines(got[c][s]) \o [i \in 1..k |-> got[c][s] + i] = Lines(wrote[c][s])
  <2>1. c \notin stopped /\ \A t \in Stream : shown[c][t] = Lines(got[c][t])
    BY <1>3, WatchedActive
  <2>2. Lines(got[c][s]) \o [i \in 1..k |-> got[c][s] + i] = Lines(got[c][s] + k)
    BY <1>4, LinesGrow
  <2> QED  BY <1>5, <2>1, <2>2
<1>7. shown[c] \in [Stream -> Seq(Nat)]
  BY DEF OutputInvariant, CommandInvariant, TypeOK
<1>8. log = [shown[c] EXCEPT ![s] = Lines(wrote[c][s])]
  BY <1>1, <1>5, <1>6, <1>7 DEF Showing
<1>9. CASE ~AllGone(c, pid', watch')
  <2>1. shown' = [shown EXCEPT ![c] = [shown[c] EXCEPT ![s] = Lines(wrote[c][s])]] /\ cmd' = cmd
    BY <1>2, <1>8, <1>9 DEF check_stop
  <2>2. wrote[c][s] <= wrote[c][s] /\ watch[c] # {}
    BY <1>3, <1>4
  <2> QED  BY <1>3, <1>4, <2>1, <2>2, ShowsOutput
<1>10. CASE AllGone(c, pid', watch')
  <2>1. watch[c] \subseteq {s}
    BY <1>3, <1>10 DEF AllGone, OutputInvariant, CommandInvariant, TypeOK
  <2>2. \A t \in Stream : t # s => got[c][t] = wrote[c][t]
    BY <1>2, <1>6, <2>1 DEF OutputInvariant, CommandInvariant, CommandOK, Current
  <2>3. \A t \in Stream : log[t] = Lines(wrote[c][t])
    BY <1>6, <1>7, <1>8, <2>2
  <2>4. \A t \in Stream : log[t] = IF c \in stopped THEN shown[c][t] ELSE Lines(wrote[c][t])
    BY <1>6, <2>3
  <2>5. UNCHANGED <<started, closed, stopped, wrote>>
    BY <1>3
  <2> QED  BY <1>2, <1>10, <2>4, <2>5, EndsOutput
<1> QED
  BY <1>9, <1>10

LEMMA CommandExitOutput ==
    ASSUME OutputInvariant, NEW c \in Cmd, command_exit(c)
    PROVE  [Output!Next]_(Output!vars)
<1>1. UNCHANGED <<started, closed, stopped, wrote>>
  BY DEF command_exit
<1>2. CASE ~pid[c]
  BY <1>1, <1>2 DEF command_exit, Output!vars
<1>3. CASE pid[c]
  <2>1. PICK log : log = shown[c]
    OBVIOUS
  <2>2. PICK v \in View : cmd[v] = c /\ check_stop(v, c, log)
    BY <1>3, <2>1 DEF command_exit
  <2>3. watch' = watch
    BY <1>3 DEF command_exit
  <2>4. CASE ~AllGone(c, pid', watch')
    <3>1. shown' = [shown EXCEPT ![c] = shown[c]] /\ cmd' = cmd
      BY <2>1, <2>2, <2>4 DEF check_stop
    <3>2. shown' = shown
      BY <3>1 DEF OutputInvariant, CommandInvariant, TypeOK
    <3> QED  BY <1>1, <3>1, <3>2 DEF Output!vars
  <2>5. CASE AllGone(c, pid', watch')
    <3>1. CommandOK(c) /\ Current(c)
      BY <2>2 DEF OutputInvariant, CommandInvariant, Current
    <3>2. watch[c] = {}
      BY <2>3, <2>5 DEF AllGone
    <3>3. c \notin stopped => \A s \in Stream : got[c][s] = wrote[c][s]
      BY <3>1, <3>2 DEF CommandOK
    <3>4. \A s \in Stream : shown[c][s] = Lines(got[c][s])
      BY <3>1 DEF CommandOK
    <3>5. \A s \in Stream : log[s] = IF c \in stopped THEN shown[c][s] ELSE Lines(wrote[c][s])
      BY <2>1, <3>3, <3>4
    <3> QED  BY <1>1, <2>2, <2>5, <3>5, EndsOutput
  <2> QED  BY <2>4, <2>5
<1> QED
  BY <1>2, <1>3

LEMMA UserOutput ==
    ASSUME OutputInvariant, User
    PROVE  Output!Next
<1>1. ASSUME NEW v \in View, Run(v), v \in Search \/ cmd[v] = 0
      PROVE  Output!Next
  <2>1. /\ ~closed /\ started < MaxCmds /\ started' = started + 1
        /\ UNCHANGED <<closed, wrote, stopped, shown>>
    BY <1>1 DEF Run
  <2>2. cmd' = [cmd EXCEPT ![v] = started'] \/ cmd' = [cmd EXCEPT ![v] = 0]
    BY <1>1, Zenon DEF Run
  <2>3. Output!Starts(v)
    BY <1>1, <2>1, <2>2 DEF Output!Starts
  <2> QED  BY <2>3 DEF Output!Next
<1>2. ASSUME NEW v \in View, RunTool(v) \/ execute_grep(v) \/ execute_find(v)
      PROVE  Output!Next
  BY <1>1, <1>2 DEF RunTool, execute_grep, execute_find
<1>3. CASE Close
  <2>1. Output!Close
    BY <1>3 DEF Close, Output!Close
  <2> QED  BY <2>1 DEF Output!Next
<1>4. CASE Stop
  <2>1. PICK aborted : aborted = Abortable({v \in View : jobs[v] > 0})
    OBVIOUS
  <2>2. /\ stopped' = stopped \cup (aborted \ stopped)
        /\ UNCHANGED <<started, cmd, closed, wrote, shown>>
    BY <1>4, <2>1 DEF Stop, panes
  <2>3. \A c \in aborted \ stopped : c \in Cmd /\ c \notin stopped /\ \E v \in View : cmd[v] = c
    BY <2>1 DEF Abortable
  <2>4. aborted \ stopped \in SUBSET {cmd[v] : v \in {u \in View : Output!Active(u)}}
    BY <2>3 DEF Output!Active, Cmd
  <2>5. Output!Stops
    BY <2>2, <2>4 DEF Output!Stops
  <2> QED  BY <2>5 DEF Output!Next
<1> QED
  BY <1>2, <1>3, <1>4 DEF User

LEMMA OutputStep == ASSUME OutputInvariant, [Next]_vars PROVE [Output!Next]_(Output!vars)
<1>1. CASE UNCHANGED vars
  BY <1>1 DEF vars, Output!vars
<1>2. ASSUME NEW c \in Cmd, Process(c) PROVE [Output!Next]_(Output!vars)
  <2>1. ASSUME NEW s \in Stream, Writes(c, s) PROVE Output!Next
    BY <2>1, WritesOutput
  <2>2. ASSUME NEW s \in Stream, Closes(c, s) PROVE UNCHANGED Output!vars
    BY <2>2 DEF Closes, panes, Output!vars
  <2>3. CASE Exits(c)
    BY <2>3 DEF Exits, panes, Output!vars
  <2> QED  BY <1>2, <2>1, <2>2, <2>3 DEF Process
<1>3. ASSUME NEW c \in Cmd, MainLoop(c) PROVE [Output!Next]_(Output!vars)
  BY <1>3, CommandExitOutput, OutOrErrOutput, WatchRemovedOutput DEF MainLoop
<1> QED
  BY <1>1, <1>2, <1>3, UserOutput DEF Next

(***************************************************************************)
(* CmdView implements CommandOutput: in whatever order the shell exits, its*)
(* pipes end, Stop is pressed and another search takes the pane, what a    *)
(* pane shows is the lines of its present command, up to where it was      *)
(* stopped, and then its end (moo_cmd_check_stop() and what is             *)
(* disconnected by moo_cmd_view_abort_and_disconnect()).                   *)
(***************************************************************************)
THEOREM CmdViewImplementsCommandOutput == Spec => PanesShowTheirCommands
<1>1. Init => OutputInvariant
  BY InitHolds, StoppedInit DEF OutputInvariant
<1>2. OutputInvariant /\ [Next]_vars => OutputInvariant'
  BY StepKeeps, StoppedStep DEF OutputInvariant
<1>3. Init => Output!Init
  BY DEF Init, Output!Init, Cmd, Stream, Output!Stream
<1>4. OutputInvariant /\ [Next]_vars => [Output!Next]_(Output!vars)
  BY OutputStep
<1> QED
  BY <1>1, <1>2, <1>3, <1>4, PTL DEF Spec, PanesShowTheirCommands, Output!Spec

=============================================================================
