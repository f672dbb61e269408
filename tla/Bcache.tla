------------------------------- MODULE Bcache -------------------------------
(***************************************************************************)
(* The buffer cache of kernel/bio.c with the sleep locks of                *)
(* kernel/sleeplock.c: NBUF buffers on a list in order of last release,    *)
(* one per cached block, each with a sleep lock and a reference count.     *)
(* Sections under bcache.lock, and under the spinlock inside a sleep lock, *)
(* are one step each.                                                      *)
(*                                                                         *)
(* The callers are not part of bio.c.  They are assumed to keep a contract *)
(* (WrittenOrLogged): a buffer that was changed is written (bwrite()) or   *)
(* pinned (log_write()) before it is released, and is unpinned only once   *)
(* it is written (install_trans()).  bio.c does not enforce it, and one    *)
(* caller breaks it: writei() whose copy from user memory fails half way   *)
(* (fs.c:522-525).  What follows from that is in FileData.                 *)
(***************************************************************************)
EXTENDS Integers, Sequences, SequencesExt, FiniteSets

CONSTANTS
    Procs, Bufs, Blocks, Vals,
    Zero,      \* what the blocks hold at first
    NoProc, NoBlock, NoBuf

ASSUME BcacheAssumption ==
    /\ Zero \in Vals /\ NoProc \notin Procs
    /\ NoBlock \notin Blocks /\ NoBuf \notin Bufs
    /\ IsFiniteSet(Bufs) /\ IsFiniteSet(Procs)

VARIABLES
    disk,      \* the blocks on the disk
    blockno, valid, data, refcnt,  \* fields of each struct buf
    lock,      \* holder of its sleep lock
    order,     \* bcache.head: the list, most recently used first
    pins,      \* references that log_write() holds, part of refcnt
    pc, b,     \* each caller, and its buffer
    dirty,     \* it has changed the buffer and neither written nor pinned it
    panicked

bufVars == <<blockno, valid, data, refcnt>>
callVars == <<pc, b, dirty>>
vars == <<disk, bufVars, lock, order, pins, callVars, panicked>>

TypeOK ==
    /\ disk \in [Blocks -> Vals]
    /\ blockno \in [Bufs -> Blocks \cup {NoBlock}]
    /\ valid \in [Bufs -> {0, 1}]
    /\ data \in [Bufs -> Vals]
    /\ refcnt \in [Bufs -> Nat]
    /\ lock \in [Bufs -> Procs \cup {NoProc}]
    /\ Len(order) = Cardinality(Bufs) /\ Range(order) = Bufs
    /\ pins \in [Bufs -> {0, 1}]
    /\ pc \in [Procs -> {"idle", "lock", "asleep", "locked", "hold", "released"}]
    /\ b \in [Procs -> Bufs \cup {NoBuf}]
    /\ dirty \in [Procs -> {0, 1}]
    /\ panicked \in {0, 1}

\* binit(): no buffer stands for a block of a real device.
Init ==
    /\ disk = [c \in Blocks |-> Zero]
    /\ blockno = [x \in Bufs |-> NoBlock]
    /\ valid = [x \in Bufs |-> 0]
    /\ data = [x \in Bufs |-> Zero]
    /\ refcnt = [x \in Bufs |-> 0]
    /\ lock = [x \in Bufs |-> NoProc]
    /\ order = SetToSeq(Bufs)
    /\ pins = [x \in Bufs |-> 0]
    /\ pc = [p \in Procs |-> "idle"]
    /\ b = [p \in Procs |-> NoBuf]
    /\ dirty = [p \in Procs |-> 0]
    /\ panicked = 0
------------------------------------------------------------------------------
Unused(i) == refcnt[order[i]] = 0

\* The buffer to recycle: from the end of the list, the first that nobody uses.
Victim == order[CHOOSE i \in DOMAIN order :
                    Unused(i) /\ \A j \in i + 1 .. Len(order) : ~Unused(j)]

\* bget() finds block c in buffer x, read or not.
Caches_Valid(x, c) == blockno[x] = c /\ valid[x] = 1
Caches(x, c) == blockno[x] = c

\* A hit in bget(): the buffer gets one more user.
Hit_NoRef(p, x) ==
    /\ b' = [b EXCEPT ![p] = x]
    /\ pc' = [pc EXCEPT ![p] = "lock"]
    /\ UNCHANGED <<blockno, valid, refcnt, panicked>>
Hit(p, x) ==
    /\ refcnt' = [refcnt EXCEPT ![x] = @ + 1]
    /\ b' = [b EXCEPT ![p] = x]
    /\ pc' = [pc EXCEPT ![p] = "lock"]
    /\ UNCHANGED <<blockno, valid, panicked>>

\* A miss: it is given to block c, and its content is no longer valid.
Recycle_StaysValid(p, x, c) ==
    /\ blockno' = [blockno EXCEPT ![x] = c]
    /\ refcnt' = [refcnt EXCEPT ![x] = 1]
    /\ b' = [b EXCEPT ![p] = x]
    /\ pc' = [pc EXCEPT ![p] = "lock"]
    /\ UNCHANGED <<valid, panicked>>
Recycle(p, x, c) ==
    /\ blockno' = [blockno EXCEPT ![x] = c]
    /\ valid' = [valid EXCEPT ![x] = 0]
    /\ refcnt' = [refcnt EXCEPT ![x] = 1]
    /\ b' = [b EXCEPT ![p] = x]
    /\ pc' = [pc EXCEPT ![p] = "lock"]
    /\ UNCHANGED panicked

\* bget() up to acquiresleep().
bget(p, c) ==
    /\ pc[p] = "idle"
    /\ \/ \E x \in Bufs : Caches(x, c) /\ Hit(p, x)
       \/ /\ \A x \in Bufs : ~Caches(x, c)
          /\ IF \E i \in DOMAIN order : Unused(i)
             THEN Recycle(p, Victim, c)
             ELSE panicked' = 1 /\ UNCHANGED <<bufVars, pc, b>>
    /\ UNCHANGED <<disk, data, lock, order, pins, dirty>>

\* The loop of acquiresleep(): take the lock, or sleep until it is released.
acquiresleep(p) ==
    /\ pc[p] = "lock"
    /\ IF lock[b[p]] = NoProc
       THEN /\ lock' = [lock EXCEPT ![b[p]] = p]
            /\ pc' = [pc EXCEPT ![p] = "locked"]
       ELSE /\ pc' = [pc EXCEPT ![p] = "asleep"]
            /\ UNCHANGED lock
    /\ UNCHANGED <<disk, bufVars, order, pins, b, dirty, panicked>>

\* The rest of bread(): read the block unless the buffer has it.
bread(p) ==
    /\ pc[p] = "locked"
    /\ pc' = [pc EXCEPT ![p] = "hold"]
    /\ valid' = [valid EXCEPT ![b[p]] = 1]
    /\ data' = [data EXCEPT ![b[p]] = IF valid[b[p]] = 0 THEN disk[blockno[b[p]]] ELSE @]
    /\ UNCHANGED <<disk, blockno, refcnt, lock, order, pins, b, dirty, panicked>>

\* A caller changes the buffer it holds, as balloc() does.
Modify(p, v) ==
    /\ pc[p] = "hold"
    /\ data' = [data EXCEPT ![b[p]] = v]
    /\ dirty' = [dirty EXCEPT ![p] = 1 - pins[b[p]]]
    /\ UNCHANGED <<disk, blockno, valid, refcnt, lock, order, pins, pc, b, panicked>>

bwrite(p) ==
    /\ pc[p] = "hold"
    /\ disk' = [disk EXCEPT ![blockno[b[p]]] = data[b[p]]]
    /\ dirty' = [dirty EXCEPT ![p] = 0]
    /\ UNCHANGED <<bufVars, lock, order, pins, pc, b, panicked>>

\* bpin() of a changed buffer, by log_write().
bpin(p) ==
    /\ pc[p] = "hold" /\ pins[b[p]] = 0
    /\ refcnt' = [refcnt EXCEPT ![b[p]] = @ + 1]
    /\ pins' = [pins EXCEPT ![b[p]] = 1]
    /\ dirty' = [dirty EXCEPT ![p] = 0]
    /\ UNCHANGED <<disk, blockno, valid, data, lock, order, pc, b, panicked>>

\* bunpin() by install_trans(), of a buffer it has just written.
bunpin(p) ==
    /\ pc[p] = "hold" /\ pins[b[p]] = 1
    /\ data[b[p]] = disk[blockno[b[p]]]
    /\ refcnt' = [refcnt EXCEPT ![b[p]] = @ - 1]
    /\ pins' = [pins EXCEPT ![b[p]] = 0]
    /\ UNCHANGED <<disk, blockno, valid, data, lock, order, callVars, panicked>>

\* The processes after wakeup(x).
wakeup_None(x) == pc
wakeup(x) == [p \in Procs |-> IF pc[p] = "asleep" /\ b[p] = x THEN "lock" ELSE pc[p]]

\* The contract of the callers: nothing is released changed but not recorded.
WrittenOrLogged(p) == dirty[p] = 0

\* brelse() up to releasesleep(), included.
releasesleep(p) ==
    /\ pc[p] = "hold"
    /\ lock' = [lock EXCEPT ![b[p]] = NoProc]
    /\ pc' = [wakeup(b[p]) EXCEPT ![p] = "released"]
    /\ UNCHANGED <<disk, bufVars, order, pins, b, dirty, panicked>>

\* The list after brelse() has moved x to its head.
MoveToHead(x) ==
    LET i == CHOOSE j \in DOMAIN order : order[j] = x
    IN  <<x>> \o RemoveAt(order, i)

\* The rest of brelse(): the last user makes the buffer most recently used.
brelse(p) ==
    LET x == b[p] IN
    /\ pc[p] = "released"
    /\ refcnt' = [refcnt EXCEPT ![x] = @ - 1]
    /\ order' = IF refcnt[x] = 1 THEN MoveToHead(x) ELSE order
    /\ pc' = [pc EXCEPT ![p] = "idle"]
    /\ b' = [b EXCEPT ![p] = NoBuf]
    /\ UNCHANGED <<disk, blockno, valid, data, lock, pins, dirty, panicked>>

Next ==
    /\ panicked = 0
    /\ \E p \in Procs :
          \/ \E c \in Blocks : bget(p, c)
          \/ \E v \in Vals : Modify(p, v)
          \/ acquiresleep(p) \/ bread(p) \/ brelse(p)
          \/ WrittenOrLogged(p) /\ releasesleep(p)
          \/ bwrite(p) \/ bpin(p) \/ bunpin(p)

Spec == Init /\ [][Next]_vars

\* Threads go on, and callers do not keep a buffer for ever: what they changed
\* they write through in the end, and then they release.  That a lock which
\* comes free goes to a particular waiter is not assumed.
Fairness == \A p \in Procs :
    /\ WF_vars(panicked = 0 /\ (acquiresleep(p) \/ bread(p) \/ brelse(p)))
    /\ WF_vars(panicked = 0 /\ ~WrittenOrLogged(p) /\ bwrite(p))
    /\ SF_vars(panicked = 0 /\ WrittenOrLogged(p) /\ releasesleep(p))

FairSpec == Spec /\ Fairness
------------------------------------------------------------------------------
(***************************************************************************)
(* Properties                                                              *)
(***************************************************************************)
\* bget() keeps one buffer per block, however many processes miss at once, so
\* that the buffer's lock is the block's lock.
OneBufferPerBlock ==
    \A x, y \in Bufs : blockno[x] = blockno[y] /\ blockno[x] # NoBlock => x = y

\* refcnt counts exactly the users and the pin of a buffer: a user that waits
\* for the lock, or that has released it and not yet decremented, still counts
\* (and every variable stays within its type, the list a permutation included).
RefsCounted ==
    /\ TypeOK
    /\ \A x \in Bufs : refcnt[x] = pins[x] + Cardinality({p \in Procs : b[p] = x})

\* The cache implements a store in which one process at a time holds a block
\* and no content is ever lost or mixed up.
Cached(c) == {x \in Bufs : blockno[x] = c /\ valid[x] = 1}
Content == [c \in Blocks |-> IF Cached(c) # {} THEN data[CHOOSE x \in Cached(c) : TRUE]
                                               ELSE disk[c]]
Holders(c) == {p \in Procs : pc[p] = "hold" /\ blockno[b[p]] = c}
Holder == [c \in Blocks |-> IF Holders(c) # {} THEN CHOOSE p \in Holders(c) : TRUE ELSE NoProc]

Store == INSTANCE BlockStore WITH content <- Content, holder <- Holder
IsStore == Store!Spec

\* Whoever sleeps for a buffer is woken to try again: releasesleep() loses no
\* wakeup, and no process sleeps on a buffer that nobody holds.
SleepersTryAgain == \A p \in Procs : pc[p] = "asleep" ~> pc[p] = "lock"
==============================================================================
