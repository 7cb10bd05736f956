---------------------------- MODULE FileHandover ----------------------------
(***************************************************************************)
(* What `medit FILE' promises about its files, whatever happens to sockets,*)
(* paths and other medits: it opens them itself or gives them, once, to    *)
(* another, which opens them or is ending.  Nobody else ever does.         *)
(***************************************************************************)
CONSTANTS
    Proc,       \* runs of the program
    Ready       \* the one that has opened its files in the beginning

VARIABLES
    keeper,     \* who is to open the files of each process
    state,      \* "kept" by the process itself, "given", "open", "lost"
    ending      \* processes that open nothing any more

vars == <<keeper, state, ending>>

Init ==
    /\ keeper = [p \in Proc |-> p]
    /\ state = [p \in Proc |-> IF p = Ready THEN "open" ELSE "kept"]
    /\ ending = {}

\* The process ends, and relies on `q', which may be about to end as well.
Give(p, q) ==
    /\ state[p] = "kept" /\ p \notin ending /\ q # p
    /\ keeper' = [keeper EXCEPT ![p] = q]
    /\ state' = [state EXCEPT ![p] = "given"]
    /\ ending' = ending \cup {p}

Open(p) ==
    /\ state[p] \in {"kept", "given"} /\ keeper[p] \notin ending
    /\ state' = [state EXCEPT ![p] = "open"]
    /\ UNCHANGED <<keeper, ending>>

\* What was given to a process that is ending may be lost.
Ends(q) ==
    /\ ending' = ending \cup {q}
    /\ \E lost \in SUBSET {p \in Proc : state[p] = "given" /\ keeper[p] \in ending'} :
          state' = [p \in Proc |-> IF p \in lost THEN "lost" ELSE state[p]]
    /\ UNCHANGED keeper

Next == \E p \in Proc : Open(p) \/ Ends(p) \/ \E q \in Proc : Give(p, q)

Spec == Init /\ [][Next]_vars
=============================================================================
