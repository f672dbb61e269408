----------------------------- MODULE BlockStore -----------------------------
(***************************************************************************)
(* What the buffer cache promises its callers: each disk block is a cell   *)
(* that one process at a time holds, that keeps what was last put into it, *)
(* and that never loses it, whichever blocks are in memory.                *)
(***************************************************************************)
CONSTANTS Procs, Blocks, Vals, Zero, NoProc

VARIABLES
    content,   \* what each block holds
    holder     \* the process that holds it, or NoProc

vars == <<content, holder>>

Init ==
    /\ content = [c \in Blocks |-> Zero]
    /\ holder = [c \in Blocks |-> NoProc]

\* bread() returns block c, locked.
Get(p, c) ==
    /\ holder[c] = NoProc
    /\ holder' = [holder EXCEPT ![c] = p]
    /\ UNCHANGED content

\* The holder changes the block.
Put(p, c, v) ==
    /\ holder[c] = p
    /\ content' = [content EXCEPT ![c] = v]
    /\ UNCHANGED holder

\* brelse().
Release(p, c) ==
    /\ holder[c] = p
    /\ holder' = [holder EXCEPT ![c] = NoProc]
    /\ UNCHANGED content

Next == \E p \in Procs, c \in Blocks :
    Get(p, c) \/ Release(p, c) \/ \E v \in Vals : Put(p, c, v)

Spec == Init /\ [][Next]_vars
==============================================================================
