---------------------------- MODULE CommandOutput ----------------------------
(***************************************************************************)
(* What a pane promises of the commands it runs, whatever becomes of their *)
(* processes and pipes: it shows the lines of its present command in order,*)
(* until that is stopped, and then its end.  Nothing is shown of a command *)
(* that is over, or was replaced, or whose window is closed.               *)
(***************************************************************************)
EXTENDS Naturals, Sequences

CONSTANTS
    View,       \* panes
    Search,     \* those in which a command replaces the one before
    MaxCmds     \* commands started

VARIABLES
    started,    \* commands started so far, which are numbered
    pane,       \* the command of each pane, or 0
    closed,     \* there are no panes any more
    stopped,    \* commands of which no more lines are shown
    wrote,      \* lines each command wrote to each of its streams
    log         \* the numbers of those shown, and 0 for the end

vars == <<started, pane, closed, stopped, wrote, log>>

Stream == {"stdout", "stderr"}
LinesTo(n) == [i \in 1..n |-> i]

Init ==
    /\ started = 0 /\ closed = FALSE /\ stopped = {}
    /\ pane = [v \in View |-> 0]
    /\ wrote = [c \in 1..MaxCmds |-> [s \in Stream |-> 0]]
    /\ log = [c \in 1..MaxCmds |-> [s \in Stream |-> <<>>]]

\* A command starts, or cannot be started.
Starts(v) ==
    /\ ~closed /\ started < MaxCmds /\ (v \in Search \/ pane[v] = 0)
    /\ started' = started + 1
    /\ \E c \in {0, started'} : pane' = [pane EXCEPT ![v] = c]
    /\ UNCHANGED <<closed, stopped, wrote, log>>

Active(v) == pane[v] # 0 /\ pane[v] \notin stopped

Writes(v, s) ==
    /\ Active(v)
    /\ wrote' = [wrote EXCEPT ![pane[v]][s] = @ + 1]
    /\ UNCHANGED <<started, pane, closed, stopped, log>>

Shows(v, s) ==
    /\ Active(v)
    /\ \E n \in Len(log[pane[v]][s]) .. wrote[pane[v]][s] :
          log' = [log EXCEPT ![pane[v]][s] = LinesTo(n)]
    /\ UNCHANGED <<started, pane, closed, stopped, wrote>>

Stops ==
    /\ \E some \in SUBSET {pane[v] : v \in {u \in View : Active(u)}} :
          stopped' = stopped \cup some
    /\ UNCHANGED <<started, pane, closed, wrote, log>>

\* Every line, unless the command was stopped, and the end.
Ends(v) ==
    /\ pane[v] # 0
    /\ log' = [log EXCEPT ![pane[v]] = [s \in Stream |->
                  Append(IF Active(v) THEN LinesTo(wrote[pane[v]][s])
                         ELSE log[pane[v]][s], 0)]]
    /\ pane' = [pane EXCEPT ![v] = 0]
    /\ UNCHANGED <<started, closed, stopped, wrote>>

Close ==
    /\ ~closed /\ closed' = TRUE
    /\ pane' = [v \in View |-> 0]
    /\ UNCHANGED <<started, stopped, wrote, log>>

Next ==
    \/ \E v \in View : Starts(v) \/ Ends(v) \/ \E s \in Stream : Writes(v, s) \/ Shows(v, s)
    \/ Stops \/ Close

Spec == Init /\ [][Next]_vars
=============================================================================
