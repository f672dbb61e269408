-------------------------------- MODULE Pipe --------------------------------
(***************************************************************************)
(* A pipe of kernel/pipe.c: a ring buffer between processes that read and  *)
(* processes that write, under pi->lock.  The lock is a variable, since    *)
(* kill() does not take it: a process may be killed between any two steps  *)
(* of a transfer.                                                          *)
(*                                                                         *)
(* The bytes of the stream are numbered in the order they are written, so  *)
(* a byte's content is its number.                                         *)
(***************************************************************************)
EXTENDS Integers, FiniteSets

CONSTANTS
    Readers, Writers,  \* the processes with an end of the pipe open
    PIPESIZE,
    Wrap,      \* 2^32, where the counters of type uint wrap
    MaxN,      \* bound: bytes asked for in one call
    MaxBytes,  \* bound: no write() starts after so many bytes
    MaxKills,  \* bound
    NoProc

Procs == Readers \cup Writers

ASSUME PipeAssumption ==
    /\ Readers \cap Writers = {} /\ NoProc \notin Procs
    /\ IsFiniteSet(Procs)
    /\ PIPESIZE \in Nat \ {0} /\ Wrap \in Nat
    /\ Wrap > PIPESIZE /\ Wrap % PIPESIZE = 0
    /\ MaxN \in Nat /\ MaxBytes \in Nat /\ MaxKills \in Nat

VARIABLES
    data, nread, nwrite, readopen, writeopen,  \* struct pipe
    lock,        \* who holds pi->lock
    pc, i, n,    \* each call: bytes done and bytes asked for
    killed,
    open,        \* the processes that have not closed their end
    put, got     \* bytes written to the pipe, and the byte read last

pipeVars == <<data, nread, nwrite, readopen, writeopen>>
callVars == <<pc, i, n>>
vars == <<pipeVars, lock, callVars, killed, open, put, got>>

TypeOK ==
    /\ data \in [0 .. PIPESIZE - 1 -> Nat]
    /\ nread \in 0 .. Wrap - 1 /\ nwrite \in 0 .. Wrap - 1
    /\ readopen \in {0, 1} /\ writeopen \in {0, 1}
    /\ lock \in Procs \cup {NoProc}
    /\ pc \in [Procs -> {"idle", "lock", "loop", "sleep", "asleep", "copy", "gone"}]
    /\ i \in [Procs -> Nat] /\ n \in [Procs -> Nat]
    /\ killed \subseteq Procs
    /\ open \subseteq Procs
    /\ put \in Nat /\ got \in Nat

\* pipealloc(), and the processes that inherit the ends.
Init ==
    /\ data = [k \in 0 .. PIPESIZE - 1 |-> 0]
    /\ nread = 0 /\ nwrite = 0 /\ readopen = 1 /\ writeopen = 1
    /\ lock = NoProc
    /\ pc = [p \in Procs |-> "idle"]
    /\ i = [p \in Procs |-> 0] /\ n = [p \in Procs |-> 0]
    /\ killed = {}
    /\ open = Procs
    /\ put = 0 /\ got = 0
------------------------------------------------------------------------------
\* A counter of type uint after its ++.
inc(k) == (k + 1) % Wrap

\* The ring is full (an unsigned comparison, modulo 2^32).
Full_Late == nwrite = (nread + PIPESIZE + 1) % Wrap
Full == nwrite = (nread + PIPESIZE) % Wrap

\* The processes after wakeup() of the readers, or of the writers, asleep.
wakeup_None(who) == pc
wakeup(who) == [p \in Procs |-> IF p \in who /\ pc[p] = "asleep" THEN "lock" ELSE pc[p]]

\* read() or write() of m bytes is called.
Call(p, m) ==
    /\ pc[p] = "idle" /\ p \in open \ killed
    /\ p \in Writers => put < MaxBytes
    /\ pc' = [pc EXCEPT ![p] = "lock"]
    /\ i' = [i EXCEPT ![p] = 0] /\ n' = [n EXCEPT ![p] = m]
    /\ UNCHANGED <<pipeVars, lock, killed, open, put, got>>

\* acquire(&pi->lock), at the start and when sleep() returns.
acquire(p) ==
    /\ pc[p] = "lock"
    /\ lock = NoProc
    /\ lock' = p
    /\ pc' = [pc EXCEPT ![p] = "loop"]
    /\ UNCHANGED <<pipeVars, i, n, killed, open, put, got>>

\* The end of a call: wakeup(who), release(&pi->lock), return.
Return(p, who) ==
    /\ pc' = [wakeup(who) EXCEPT ![p] = "idle"]
    /\ lock' = NoProc
    /\ i' = [i EXCEPT ![p] = 0] /\ n' = [n EXCEPT ![p] = 0]

\* sleep(): the lock is given up as the process falls asleep.
sleep(p) ==
    /\ pc[p] = "sleep"
    /\ pc' = [pc EXCEPT ![p] = "asleep"]
    /\ lock' = NoProc
    /\ UNCHANGED <<pipeVars, i, n, killed, open, put, got>>

\* One iteration of pipewrite()'s loop; copyin() may fail.
pipewrite(p) ==
    /\ p \in Writers /\ pc[p] = "loop"
    /\ \/ /\ i[p] = n[p]
          /\ Return(p, Readers)
          /\ UNCHANGED <<data, nwrite, put>>
       \/ /\ i[p] < n[p] /\ (readopen = 0 \/ p \in killed)
          /\ Return(p, {})
          /\ UNCHANGED <<data, nwrite, put>>
       \/ /\ i[p] < n[p] /\ readopen = 1 /\ p \notin killed /\ Full
          /\ pc' = [wakeup(Readers) EXCEPT ![p] = "sleep"]
          /\ UNCHANGED <<data, nwrite, put, lock, i, n>>
       \/ /\ i[p] < n[p] /\ readopen = 1 /\ p \notin killed /\ ~Full
          /\ \/ /\ data' = [data EXCEPT ![nwrite % PIPESIZE] = put + 1]
                /\ nwrite' = inc(nwrite)
                /\ put' = put + 1
                /\ i' = [i EXCEPT ![p] = @ + 1]
                /\ UNCHANGED <<lock, pc, n>>
             \/ Return(p, Readers) /\ UNCHANGED <<data, nwrite, put>>
    /\ UNCHANGED <<nread, readopen, writeopen, killed, open, got>>

\* One iteration of piperead()'s loop that waits for data.
piperead(p) ==
    /\ p \in Readers /\ pc[p] = "loop"
    /\ \/ /\ nread = nwrite /\ writeopen = 1 /\ p \in killed
          /\ Return(p, {})
       \/ /\ nread = nwrite /\ writeopen = 1 /\ p \notin killed
          /\ pc' = [pc EXCEPT ![p] = "sleep"]
          /\ UNCHANGED <<lock, i, n>>
       \/ /\ nread # nwrite \/ writeopen = 0
          /\ pc' = [pc EXCEPT ![p] = "copy"]
          /\ UNCHANGED <<lock, i, n>>
    /\ UNCHANGED <<pipeVars, killed, open, put, got>>

\* One iteration of its loop that copies; the byte is taken even if copyout()
\* fails, which ends the call.
piperead_copy(p) ==
    /\ pc[p] = "copy"
    /\ \/ /\ i[p] = n[p] \/ nread = nwrite
          /\ Return(p, Writers)
          /\ UNCHANGED <<nread, got>>
       \/ /\ i[p] < n[p] /\ nread # nwrite
          /\ nread' = inc(nread)
          /\ got' = data[nread % PIPESIZE]
          /\ \/ i' = [i EXCEPT ![p] = @ + 1] /\ UNCHANGED <<lock, pc, n>>
             \/ Return(p, Writers)
    /\ UNCHANGED <<data, nwrite, readopen, writeopen, killed, open, put>>

\* fileclose(), and pipeclose() when it was the last descriptor of that end.
pipeclose(p) ==
    /\ pc[p] = "idle" /\ p \in open
    /\ lock = NoProc
    /\ open' = open \ {p}
    /\ IF open' \cap Writers = {} /\ p \in Writers
       THEN writeopen' = 0 /\ pc' = [wakeup(Readers) EXCEPT ![p] = "gone"] /\ UNCHANGED readopen
       ELSE IF open' \cap Readers = {} /\ p \in Readers
       THEN readopen' = 0 /\ pc' = [wakeup(Writers) EXCEPT ![p] = "gone"] /\ UNCHANGED writeopen
       ELSE pc' = [pc EXCEPT ![p] = "gone"] /\ UNCHANGED <<readopen, writeopen>>
    /\ UNCHANGED <<data, nread, nwrite, lock, i, n, killed, put, got>>

\* kill(): the flag, and a wakeup if the process sleeps.
kill(p) ==
    /\ p \notin killed /\ Cardinality(killed) < MaxKills /\ pc[p] # "gone"
    /\ killed' = killed \cup {p}
    /\ pc' = [pc EXCEPT ![p] = IF @ = "asleep" THEN "lock" ELSE @]
    /\ UNCHANGED <<pipeVars, lock, i, n, open, put, got>>

Step(p) == sleep(p) \/ pipewrite(p) \/ piperead(p) \/ piperead_copy(p)

Next == \E p \in Procs :
    \/ \E m \in 1 .. MaxN : Call(p, m)
    \/ acquire(p) \/ Step(p) \/ pipeclose(p) \/ kill(p)

Spec == Init /\ [][Next]_vars
------------------------------------------------------------------------------
(***************************************************************************)
(* Properties                                                              *)
(***************************************************************************)
\* The ring holds exactly the bytes written and not yet read, in order, also
\* when the counters wrap: no byte is lost, doubled or overwritten, and readers
\* take them in the order they were written.
RingHoldsStream ==
    /\ TypeOK
    /\ put - got \in 0 .. PIPESIZE
    /\ (nwrite - nread) % Wrap = put - got
    /\ \A k \in 1 .. put - got : data[(nread + k - 1) % PIPESIZE] = got + k

\* No writer sleeps while there is room or when nobody can read any more, and no
\* reader once the last writer has closed.  No reader sleeps beside data either,
\* unless a writer was killed in the middle of its call: pipewrite() then returns
\* without its wakeup, and what it wrote waits for the next write or the close.
NobodyForgotten ==
    lock = NoProc =>
        /\ \A p \in Writers : pc[p] = "asleep" => Full /\ readopen = 1
        /\ \A p \in Readers : pc[p] = "asleep" =>
             writeopen = 1 /\ (nread = nwrite \/ killed \cap Writers # {})
==============================================================================
