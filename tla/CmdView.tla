------------------------------ MODULE CmdView ------------------------------
(***************************************************************************)
(* Commands whose output is shown in a pane, and the Stop button           *)
(* (mooutils/moospawn.cpp, plugins/support/moocmdview.cpp, plugins/        *)
(* moofind.cpp, the jobs of mooedit/mooeditwindow.cpp).                    *)
(*                                                                         *)
(* A command is a shell with two pipes.  Its end is told when three things *)
(* have happened, in any order: its exit was seen, and each pipe was read  *)
(* to its end, which comes only when whatever the shell left in the back-  *)
(* ground has closed it too.  A pane that searches replaces a command that *)
(* runs, the output pane does not; the window lists the panes that have a  *)
(* job to stop.                                                            *)
(***************************************************************************)
EXTENDS Integers, FiniteSets, Sequences

CONSTANTS
    View,       \* panes with a MooCmdView
    Search,     \* those of the Find plugin
    MaxCmds,    \* commands started
    MaxLines    \* lines written to a pipe

ASSUME CmdViewAssumption ==
    Search \subseteq View /\ IsFiniteSet(View) /\ MaxCmds \in Nat /\ MaxLines \in Nat

VARIABLES
    started,    \* commands started so far, which are numbered
    cmd,        \* view->priv->cmd, 0 for NULL
    find_cmd,   \* panes that search with stuff->cmd set: a search is under way
    jobs,       \* window->priv->jobs: how many there are for each pane
    closed,     \* the window was destroyed
    shell,      \* the process of each command
    hup,        \* commands that were sent SIGHUP
    open,       \* the pipes of a command that somebody can write to
    wrote,      \* lines written to each pipe
    got,        \* lines read from it
    pid,        \* priv->pid and priv->child_watch_data are set
    watch,      \* priv->stdout_watch and priv->stderr_watch
    stopped,    \* commands aborted by the Stop button
    shown       \* what the pane shows of each pipe: lines, and the end of the command

process == <<shell, hup, open, wrote>>
panes   == <<started, cmd, find_cmd, jobs, closed>>
vars    == <<started, cmd, find_cmd, jobs, closed, shell, hup, open, wrote,
             got, pid, watch, stopped, shown>>

Cmd    == 1..MaxCmds
Stream == {"stdout", "stderr"}
Exit   == 0     \* after the lines of both pipes, which are numbered from 1

Init ==
    /\ started = 0 /\ closed = FALSE
    /\ cmd = [v \in View |-> 0]
    /\ find_cmd = {}
    /\ jobs = [v \in View |-> 0]
    /\ shell = [c \in Cmd |-> "none"]
    /\ hup = {} /\ stopped = {}
    /\ open = [c \in Cmd |-> {}]
    /\ wrote = [c \in Cmd |-> [s \in Stream |-> 0]]
    /\ got = wrote
    /\ pid = [c \in Cmd |-> FALSE]
    /\ watch = [c \in Cmd |-> {}]
    /\ shown = [c \in Cmd |-> [s \in Stream |-> <<>>]]
-----------------------------------------------------------------------------
(***************************************************************************)
(* The processes.                                                          *)
(***************************************************************************)
\* Whoever writes to a pipe that medit has closed dies of it; what becomes of
\* such a pipe makes no difference.
Writes(c, s) ==
    /\ s \in open[c] \cap watch[c] /\ wrote[c][s] < MaxLines
    /\ wrote' = [wrote EXCEPT ![c][s] = @ + 1]
    /\ UNCHANGED <<panes, shell, hup, open, got, pid, watch, stopped, shown>>

Closes(c, s) ==
    /\ s \in open[c] \cap watch[c]
    /\ open' = [open EXCEPT ![c] = @ \ {s}]
    /\ UNCHANGED <<panes, shell, hup, wrote, got, pid, watch, stopped, shown>>

\* The shell exits, and what it started with "&" keeps the pipes it did not close.
Exits(c) ==
    /\ shell[c] = "runs"
    /\ shell' = [shell EXCEPT ![c] = "exited"]
    /\ \E kept \in SUBSET (open[c] \cap watch[c]) : open' = [open EXCEPT ![c] = kept]
    /\ UNCHANGED <<panes, hup, wrote, got, pid, watch, stopped, shown>>

\* SIGHUP goes to the process group.
HangsUp(c) == c \in hup /\ Exits(c)
-----------------------------------------------------------------------------
(***************************************************************************)
(* The end of a command.                                                   *)
(***************************************************************************)
\* The log of `c' when `k' more lines of `s' are shown.
Showing(c, s, k) == [shown[c] EXCEPT ![s] = @ \o [i \in 1..k |-> got[c][s] + i]]

\* A mutant: the list of jobs is freed.
JobsFreed(v) == jobs' = [u \in View |-> 0]

\* moo_edit_window_job_finished(): one job of the pane, if it has one.
JobFinished(v) == jobs' = [jobs EXCEPT ![v] = IF @ = 0 THEN 0 ELSE @ - 1]

\* A mutant: the end is looked for only when the process exits.
GoneAtExit(c, pid_, watch_) == ~pid_[c] /\ watch_[c] = {} /\ pid[c]

\* The condition of moo_cmd_check_stop().
AllGone(c, pid_, watch_) == ~pid_[c] /\ watch_[c] = {}

\* moo_cmd_check_stop(): cmd_exit_cb() of the pane, after command_exit() of the
\* Find plugin; the view gives its command up.  `log' was shown before.
check_stop(v, c, log) ==
    IF AllGone(c, pid', watch')
    THEN /\ shown' = [shown EXCEPT ![c] = [s \in Stream |-> Append(log[s], Exit)]]
         /\ find_cmd' = find_cmd \ {v}
         /\ JobFinished(v)
         /\ cmd' = [cmd EXCEPT ![v] = 0]
    ELSE /\ shown' = [shown EXCEPT ![c] = log]
         /\ UNCHANGED <<find_cmd, jobs, cmd>>

\* command_exit(): the child watch.  A command that was dropped is not told.
command_exit(c) ==
    /\ shell[c] = "exited"
    /\ shell' = [shell EXCEPT ![c] = "reaped"]
    /\ IF pid[c]
       THEN /\ pid' = [pid EXCEPT ![c] = FALSE]
            /\ UNCHANGED watch
            /\ \E v \in View : cmd[v] = c /\ check_stop(v, c, shown[c])
       ELSE UNCHANGED <<pid, watch, cmd, find_cmd, jobs, shown>>
    /\ UNCHANGED <<started, closed, hup, open, wrote, got, stopped>>

Waiting(c, s) == wrote[c][s] - got[c][s]

\* command_out_or_err(): the lines that are there, or those of the first 4096
\* bytes.
command_out_or_err(c, s) ==
    /\ s \in watch[c]
    /\ \E k \in 1..Waiting(c, s) :
          /\ got' = [got EXCEPT ![c][s] = @ + k]
          /\ shown' = [shown EXCEPT ![c] = Showing(c, s, k)]
    /\ UNCHANGED <<panes, process, pid, watch, stopped>>

\* A mutant: what is left of a pipe that was closed is not read.
NothingLeft(c, s) == 0

\* try_channel_leftover()
Leftover(c, s) == Waiting(c, s)

\* ... and the end of a pipe that nobody can write to: stdout_watch_removed().
watch_removed(c, s) ==
    /\ s \in watch[c] /\ s \notin open[c]
    /\ got' = [got EXCEPT ![c][s] = @ + Leftover(c, s)]
    /\ watch' = [watch EXCEPT ![c] = @ \ {s}]
    /\ UNCHANGED pid
    /\ \E v \in View : cmd[v] = c /\ check_stop(v, c, Showing(c, s, Leftover(c, s)))
    /\ UNCHANGED <<started, closed, process, stopped>>
-----------------------------------------------------------------------------
(***************************************************************************)
(* The user.                                                               *)
(***************************************************************************)

\* moo_cmd_abort_real(), also from dispose: the group of a process not yet waited
\* for gets SIGHUP, and the pipes are closed without a last look.  Once the shell
\* was waited for an assertion ends it before anything is done.
Abortable(views) == {c \in Cmd : pid[c] /\ \E v \in views : cmd[v] = c}

\* A mutant: the signals of a command that is replaced stay connected.
StillConnected(views) == {}

\* moo_cmd_view_abort_and_disconnect() of `views': their commands are dropped,
\* with whatever of them is still open.
Dropped(views) == {c \in Cmd : \E v \in views : cmd[v] = c}

\* moo_edit_window_job_started()
JobStarted(v) == [jobs EXCEPT ![v] = @ + 1]

\* moo_cmd_view_run_command_full(): the command before it is dropped, then a
\* process is started, or it cannot be.
Run(v) ==
    /\ ~closed /\ started < MaxCmds
    /\ started' = started + 1
    /\ hup' = hup \cup Abortable({v})
    /\ \/ /\ cmd' = [cmd EXCEPT ![v] = started']
          /\ jobs' = JobStarted(v)
          /\ shell' = [shell EXCEPT ![started'] = "runs"]
          /\ open' = [open EXCEPT ![started'] = Stream]
          /\ pid' = [c \in Cmd |-> c = started' \/ (pid[c] /\ c \notin Dropped({v}))]
          /\ watch' = [c \in Cmd |-> IF c = started' THEN Stream
                                     ELSE IF c \in Dropped({v}) THEN {} ELSE watch[c]]
       \/ /\ cmd' = [cmd EXCEPT ![v] = 0]
          /\ pid' = [c \in Cmd |-> pid[c] /\ c \notin Dropped({v})]
          /\ watch' = [c \in Cmd |-> IF c \in Dropped({v}) THEN {} ELSE watch[c]]
          /\ UNCHANGED <<jobs, shell, open>>
    /\ UNCHANGED <<closed, wrote, got, stopped, shown>>

\* run_in_pane(): nothing when a command runs in the output pane.
RunTool(v) ==
    /\ v \notin Search /\ cmd[v] = 0
    /\ Run(v) /\ UNCHANGED find_cmd

\* execute_grep(): replaces what the pane was doing.
execute_grep(v) ==
    /\ v \in Search
    /\ find_cmd' = find_cmd \cup {v}
    /\ Run(v)

\* execute_find(): asserts that no search runs.
execute_find(v) ==
    /\ v \in Search /\ v \notin find_cmd
    /\ find_cmd' = find_cmd \cup {v}
    /\ Run(v)

\* The Stop button, sensitive while there is a job: moo_edit_window_abort_jobs().
Stop ==
    /\ \E v \in View : jobs[v] > 0
    /\ LET aborted == Abortable({v \in View : jobs[v] > 0}) IN
          /\ hup' = hup \cup aborted
          /\ stopped' = stopped \cup aborted
          /\ watch' = [c \in Cmd |-> IF c \in aborted THEN {} ELSE watch[c]]
    /\ UNCHANGED <<panes, shell, open, wrote, got, pid, shown>>

\* moo_edit_window_destroy(), and moo_cmd_view_destroy() of each pane.
Close ==
    /\ ~closed /\ closed' = TRUE
    /\ hup' = hup \cup Abortable(View)
    /\ cmd' = [v \in View |-> 0]
    /\ jobs' = [v \in View |-> 0]
    /\ pid' = [c \in Cmd |-> pid[c] /\ c \notin Dropped(View)]
    /\ watch' = [c \in Cmd |-> IF c \in Dropped(View) THEN {} ELSE watch[c]]
    /\ UNCHANGED <<started, find_cmd, shell, open, wrote, got, stopped, shown>>
-----------------------------------------------------------------------------
Process(c) ==
    \/ Exits(c)
    \/ \E s \in Stream : Writes(c, s) \/ Closes(c, s)

MainLoop(c) ==
    \/ command_exit(c)
    \/ \E s \in Stream : command_out_or_err(c, s) \/ watch_removed(c, s)

User ==
    \/ \E v \in View : RunTool(v) \/ execute_grep(v) \/ execute_find(v)
    \/ Stop \/ Close

Next == User \/ \E c \in Cmd : Process(c) \/ MainLoop(c)

\* The main loop dispatches what is ready, and SIGHUP ends a command.
Fairness == \A c \in Cmd :
    /\ WF_vars(command_exit(c)) /\ WF_vars(HangsUp(c))
    /\ \A s \in Stream : WF_vars(watch_removed(c, s))

Spec == Init /\ [][Next]_vars /\ Fairness
-----------------------------------------------------------------------------
TypeOK ==
    /\ started \in 0..MaxCmds
    /\ cmd \in [View -> 0..MaxCmds]
    /\ find_cmd \subseteq View
    /\ jobs \in [View -> Nat]
    /\ closed \in BOOLEAN
    /\ shell \in [Cmd -> {"none", "runs", "exited", "reaped"}]
    /\ hup \subseteq Cmd /\ stopped \subseteq Cmd
    /\ open \in [Cmd -> SUBSET Stream]
    /\ wrote \in [Cmd -> [Stream -> 0..MaxLines]]
    /\ got \in [Cmd -> [Stream -> 0..MaxLines]]
    /\ pid \in [Cmd -> BOOLEAN]
    /\ watch \in [Cmd -> SUBSET Stream]
    /\ shown \in [Cmd -> [Stream -> Seq(Nat)]]

\* A command some pane shows.
Current(c) == \E v \in View : cmd[v] = c

(***************************************************************************)
(* A pane with a command has a job in the window, so that Stop is there to *)
(* be pressed and moo_cmd_abort() is called for that command, however often*)
(* a search was replaced; once its shell was waited for the call does      *)
(* nothing (moospawn.cpp:633), even while the pipes are held by others.    *)
(* And the Find plugin is never given a line, or the end, of a search it   *)
(* does not know of (the assertions of moofind.cpp:763 and 986).           *)
(***************************************************************************)
StopReaches ==
    \A v \in View : cmd[v] # 0 =>
        /\ jobs[v] > 0
        /\ v \in Search => v \in find_cmd

EndTold(c) == \E s \in Stream : Exit \in {shown[c][s][i] : i \in DOMAIN shown[c][s]}

(***************************************************************************)
(* The lines of each pipe are shown once each and in order; the end of a   *)
(* command is shown once, after all of them, and unless it was stopped     *)
(* nothing is missing, whether the shell exits before its pipes end or     *)
(* leaves them to what it started in the background.                       *)
(***************************************************************************)
OutputThenExit == \A c \in Cmd :
    /\ \A s \in Stream :
          LET lines == [i \in 1..got[c][s] |-> i] IN
          shown[c][s] = IF EndTold(c) THEN Append(lines, Exit) ELSE lines
    /\ EndTold(c) =>
          /\ ~Current(c) /\ shell[c] = "reaped"
          /\ c \notin stopped => got[c] = wrote[c]

(***************************************************************************)
(* A pane shows of its command what CommandOutput says, however exit, ends *)
(* of pipes, Stop and a command that replaces another come: lines that are *)
(* still in the pipes of one that was replaced, stopped, or is over are not*)
(* shown any more, and its end is not told to the pane of another.         *)
(***************************************************************************)
Output == INSTANCE CommandOutput WITH pane <- cmd, log <- shown

PanesShowTheirCommands == Output!Spec

\* The shell is gone, and so is whatever could write to its pipes.
Over(c) == shell[c] \in {"exited", "reaped"} /\ open[c] = {}

(***************************************************************************)
(* A command that is over, or was stopped while its shell ran, is given up *)
(* by its pane: it can run another one.                                    *)
(***************************************************************************)
CommandEnds == \A c \in Cmd : Over(c) \/ c \in stopped ~> ~Current(c)
=============================================================================
