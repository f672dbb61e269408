------------------------------- MODULE TxDisk -------------------------------
(***************************************************************************)
(* What the logging layer (kernel/log.c) promises to the file system above *)
(* it: a disk whose blocks change in groups.  File system calls run inside *)
(* begin_op()/end_op(); what they write is visible to each other at once   *)
(* (current) and reaches the state that survives a crash (durable) only    *)
(* all together, at a moment when no call is running.                      *)
(***************************************************************************)
CONSTANTS
    Procs,    \* kernel threads that make file system calls
    Blocks,   \* home block numbers
    Vals,     \* contents of a block
    Zero      \* content of every block of the initial image

VARIABLES
    durable,  \* the blocks a crash leaves behind, after recovery
    current,  \* the blocks as running calls read them
    active    \* the calls between begin_op() and end_op()

vars == <<durable, current, active>>

TypeOK ==
    /\ durable \in [Blocks -> Vals]
    /\ current \in [Blocks -> Vals]
    /\ active \subseteq Procs

Init ==
    /\ durable = [b \in Blocks |-> Zero]
    /\ current = durable
    /\ active = {}

Begin(p) ==
    /\ p \notin active
    /\ active' = active \cup {p}
    /\ UNCHANGED <<durable, current>>

Write(p, b, v) ==
    /\ p \in active
    /\ current' = [current EXCEPT ![b] = v]
    /\ UNCHANGED <<durable, active>>

End(p) ==
    /\ p \in active
    /\ active' = active \ {p}
    /\ UNCHANGED <<durable, current>>

\* All or nothing, and never while a call is half done.
Commit ==
    /\ active = {}
    /\ durable' = current
    /\ UNCHANGED <<current, active>>

Crash ==
    /\ current' = durable
    /\ active' = {}
    /\ UNCHANGED durable

Next ==
    \/ \E p \in Procs : Begin(p) \/ End(p)
    \/ \E p \in Procs, b \in Blocks, v \in Vals : Write(p, b, v)
    \/ Commit
    \/ Crash

Spec == Init /\ [][Next]_vars
=============================================================================
