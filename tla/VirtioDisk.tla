----------------------------- MODULE VirtioDisk -----------------------------
(***************************************************************************)
(* The disk driver of kernel/virtio_disk.c and the device behind it:       *)
(* processes submit requests as chains of three descriptors through the    *)
(* available ring, the device answers them in any order through the used   *)
(* ring, and the interrupt handler wakes the processes.  The device works  *)
(* while disk.vdisk_lock is held, so the lock is a variable.               *)
(*                                                                         *)
(* A process has its own buffer, locked by the buffer cache, so a request  *)
(* is named by its process.  A ring entry that was read, and the locals of *)
(* a request that returned, are dead: they go back to 0.                   *)
(***************************************************************************)
EXTENDS Integers, FiniteSets, FiniteSetsExt

CONSTANTS
    Procs,
    NUM,       \* virtio.h: descriptors, and entries of each ring
    Wrap,      \* 2^16, where the indices of type uint16 wrap
    MaxKills,  \* bound
    Answers,   \* the status bytes the device may write
    Nobody, Intr

Desc == 0 .. NUM - 1
End == NUM     \* desc[d].flags without VRING_DESC_F_NEXT

ASSUME VirtioAssumption ==
    /\ NUM \in Nat \ {0} /\ Wrap \in Nat /\ Wrap >= NUM /\ Wrap % NUM = 0
    /\ Nobody \notin Procs /\ Intr \notin Procs /\ Nobody # Intr
    /\ IsFiniteSet(Procs) /\ 0 \in Answers /\ Answers \subseteq Nat /\ MaxKills \in Nat

VARIABLES
    free,      \* the descriptors with disk.free[i] set
    next,      \* desc[d].next, or End
    addr,      \* whose operation, buffer or status byte desc[d].addr points to
    info,      \* disk.info[d].b
    status,    \* disk.info[d].status
    avail, avail_idx, used, used_ring_idx,  \* the rings and the idx of each
    used_idx,  \* how far the handler has looked
    seen, busy, \* the device: how far it has looked, the chains it works on
    irq,       \* it raises its interrupt
    lock, pc,
    idx,       \* idx[0] of each request
    bdisk,     \* b->disk of its buffer
    served,    \* transfers the device made for the request
    kills,
    panicked   \* 1: free_desc(), 2: virtio_disk_intr()

ringVars == <<avail, avail_idx, used, used_ring_idx>>
descVars == <<free, next, addr, info, status>>
devVars == <<seen, busy, irq>>
reqVars == <<idx, bdisk, served>>
vars == <<descVars, ringVars, used_idx, devVars, lock, pc, reqVars, kills, panicked>>

TypeOK ==
    /\ free \subseteq Desc
    /\ next \in [Desc -> Desc \cup {End}]
    /\ addr \in [Desc -> Procs \cup {Nobody}] /\ info \in [Desc -> Procs \cup {Nobody}]
    /\ status \in [Desc -> {255} \cup Answers]
    /\ avail \in [Desc -> Desc] /\ used \in [Desc -> Desc]
    /\ {avail_idx, used_ring_idx, used_idx, seen} \subseteq 0 .. Wrap - 1
    /\ busy \subseteq Desc /\ irq \in {0, 1}
    /\ lock \in Procs \cup {Nobody, Intr}
    /\ pc \in [Procs -> {"idle", "start", "nodesc", "notify", "waiting", "woken"}]
    /\ idx \in [Procs -> Desc]
    /\ bdisk \in [Procs -> {0, 1}] /\ served \in [Procs -> Nat]
    /\ kills \in Nat /\ panicked \in 0 .. 2

\* virtio_disk_init().
Init ==
    /\ free = Desc
    /\ next = [d \in Desc |-> End]
    /\ addr = [d \in Desc |-> Nobody] /\ info = [d \in Desc |-> Nobody]
    /\ status = [d \in Desc |-> 0]
    /\ avail = [d \in Desc |-> 0] /\ used = [d \in Desc |-> 0]
    /\ avail_idx = 0 /\ used_ring_idx = 0 /\ used_idx = 0
    /\ seen = 0 /\ busy = {} /\ irq = 0
    /\ lock = Nobody
    /\ pc = [p \in Procs |-> "idle"]
    /\ idx = [p \in Procs |-> 0]
    /\ bdisk = [p \in Procs |-> 0] /\ served = [p \in Procs |-> 0]
    /\ kills = 0 /\ panicked = 0
------------------------------------------------------------------------------
inc(k) == (k + 1) % Wrap

\* The processes after wakeup(&disk.free[0]) and after wakeup(b).
WakeNodesc_None(m) == m
WakeNodesc(m) == [p \in Procs |-> IF m[p] = "nodesc" THEN "start" ELSE m[p]]
WakeOwner(p) == [pc EXCEPT ![p] = IF @ = "waiting" THEN "woken" ELSE @]

\* virtio_disk_rw() is called.
Call(p) ==
    /\ pc[p] = "idle"
    /\ pc' = [pc EXCEPT ![p] = "start"]
    /\ UNCHANGED <<descVars, ringVars, used_idx, devVars, lock, reqVars, kills, panicked>>

\* alloc3_desc() takes the lowest free descriptors; short of three, it frees
\* those it got, which wakes the others that wait, and the process sleeps.
alloc3_desc(p) ==
    LET d0 == Min(free)
        d1 == Min(free \ {d0})
        d2 == Min(free \ {d0, d1}) IN
    /\ pc[p] = "start"
    /\ lock = Nobody
    /\ \/ /\ Cardinality(free) < 3
          /\ pc' = [IF free = {} THEN pc ELSE WakeNodesc(pc) EXCEPT ![p] = "nodesc"]
          /\ UNCHANGED <<descVars, avail, lock, idx, bdisk>>
       \/ /\ Cardinality(free) >= 3
          /\ free' = free \ {d0, d1, d2}
          /\ next' = [next EXCEPT ![d0] = d1, ![d1] = d2, ![d2] = End]
          /\ addr' = [addr EXCEPT ![d0] = p, ![d1] = p, ![d2] = p]
          /\ status' = [status EXCEPT ![d0] = 255]
          /\ info' = [info EXCEPT ![d0] = p]
          /\ bdisk' = [bdisk EXCEPT ![p] = 1]
          /\ idx' = [idx EXCEPT ![p] = d0]
          /\ avail' = [avail EXCEPT ![avail_idx % NUM] = d0]
          /\ lock' = p
          /\ pc' = [pc EXCEPT ![p] = "notify"]
    /\ UNCHANGED <<avail_idx, used, used_ring_idx, used_idx, devVars, served, kills, panicked>>

\* The device is told, and the process waits for b->disk to be cleared.
Notify(p) ==
    /\ pc[p] = "notify"
    /\ avail_idx' = inc(avail_idx)
    /\ lock' = Nobody
    /\ pc' = [pc EXCEPT ![p] = "waiting"]
    /\ UNCHANGED <<descVars, avail, used, used_ring_idx, used_idx, devVars, reqVars, kills, panicked>>

\* The descriptors that free_chain(d) frees: those it reaches through next.
nxt(d) == IF d = End THEN End ELSE next[d]
Chain_Two(d) == {d, nxt(d)} \ {End}
Chain(d) == {d, nxt(d), nxt(nxt(d))} \ {End}

\* The process has slept on its buffer: it sleeps again while b->disk is set
\* (kill() woke it), else it frees its chain and returns.
StillBusy_Not(p) == FALSE
StillBusy(p) == bdisk[p] = 1
Woken(p) ==
    LET d == idx[p] IN
    /\ pc[p] = "woken"
    /\ lock = Nobody
    /\ \/ /\ StillBusy(p)
          /\ pc' = [pc EXCEPT ![p] = "waiting"]
          /\ UNCHANGED <<descVars, idx, served, panicked>>
       \/ /\ ~StillBusy(p)
          /\ info' = [info EXCEPT ![d] = Nobody]
          /\ UNCHANGED status
          /\ panicked' = IF Chain(d) \cap free # {} THEN 1 ELSE 0
          /\ free' = free \cup Chain(d)
          /\ next' = [e \in Desc |-> IF e \in Chain(d) THEN End ELSE next[e]]
          /\ addr' = [e \in Desc |-> IF e \in Chain(d) THEN Nobody ELSE addr[e]]
          /\ pc' = [WakeNodesc(pc) EXCEPT ![p] = "idle"]
          /\ idx' = [idx EXCEPT ![p] = 0]
          /\ served' = [served EXCEPT ![p] = 0]
    /\ UNCHANGED <<ringVars, used_idx, devVars, lock, bdisk, kills>>

\* kill() of a process that sleeps in the driver.
kill(p) ==
    /\ kills < MaxKills /\ pc[p] \in {"nodesc", "waiting"}
    /\ kills' = kills + 1
    /\ pc' = [pc EXCEPT ![p] = IF @ = "nodesc" THEN "start" ELSE "woken"]
    /\ UNCHANGED <<descVars, ringVars, used_idx, devVars, lock, reqVars, panicked>>
------------------------------------------------------------------------------
\* The device takes the next available chain,
DeviceTakes ==
    /\ seen # avail_idx
    /\ busy' = busy \cup {avail[seen % NUM]}
    /\ avail' = [avail EXCEPT ![seen % NUM] = 0]
    /\ seen' = (seen + 1) % Wrap
    /\ UNCHANGED <<descVars, avail_idx, used, used_ring_idx, used_idx, irq, lock, pc, reqVars, kills, panicked>>

\* and some time later has done the operation the first descriptor points to
\* on the buffer of the second, and written its status through the third.
DeviceDone(d) ==
    /\ d \in busy
    /\ busy' = busy \ {d}
    /\ served' = [p \in Procs |-> IF \A e \in Chain(d) : addr[e] = p
                                  THEN served[p] + 1 ELSE served[p]]
    /\ \E a \in Answers : status' = [status EXCEPT ![d] = a]
    /\ used' = [used EXCEPT ![used_ring_idx % NUM] = d]
    /\ used_ring_idx' = (used_ring_idx + 1) % Wrap
    /\ irq' = 1
    /\ UNCHANGED <<free, next, addr, info, avail, avail_idx, used_idx, seen, lock, pc, idx, bdisk, kills, panicked>>

\* virtio_disk_intr() acknowledges the interrupt,
virtio_disk_intr ==
    /\ irq = 1
    /\ lock = Nobody
    /\ lock' = Intr
    /\ irq' = 0
    /\ UNCHANGED <<descVars, ringVars, used_idx, seen, busy, pc, reqVars, kills, panicked>>

\* goes through the used ring, which may grow meanwhile,
IntrStep ==
    LET id == used[used_idx % NUM]
        p == info[id] IN
    /\ lock = Intr
    /\ used_idx # used_ring_idx
    /\ \/ /\ status[id] # 0     \* panic("virtio_disk_intr status")
          /\ panicked' = 2
          /\ UNCHANGED <<used, used_idx, pc, bdisk>>
       \/ /\ status[id] = 0
          /\ bdisk' = [bdisk EXCEPT ![p] = 0]
          /\ pc' = WakeOwner(p)
          /\ used' = [used EXCEPT ![used_idx % NUM] = 0]
          /\ used_idx' = inc(used_idx)
          /\ UNCHANGED panicked
    /\ UNCHANGED <<descVars, avail, avail_idx, used_ring_idx, devVars, lock, idx, served, kills>>

\* and returns when it has seen everything.
AllSeen_One == TRUE
AllSeen == used_idx = used_ring_idx
IntrReturn ==
    /\ lock = Intr
    /\ AllSeen
    /\ lock' = Nobody
    /\ UNCHANGED <<descVars, ringVars, used_idx, devVars, pc, reqVars, kills, panicked>>

Handler == virtio_disk_intr \/ IntrStep \/ IntrReturn

Next ==
    /\ panicked = 0
    /\ \/ \E p \in Procs : Call(p) \/ alloc3_desc(p) \/ Notify(p) \/ Woken(p) \/ kill(p)
       \/ DeviceTakes \/ (\E d \in Desc : DeviceDone(d)) \/ Handler

Spec == Init /\ [][Next]_vars

\* The device serves what it is given, the interrupt is taken, processes go on;
\* the lock is not held for ever, and whoever keeps finding it free gets it.
Fairness ==
    /\ WF_vars(panicked = 0 /\ DeviceTakes)
    /\ \A d \in Desc : WF_vars(panicked = 0 /\ DeviceDone(d))
    /\ SF_vars(panicked = 0 /\ virtio_disk_intr) /\ WF_vars(panicked = 0 /\ (IntrStep \/ IntrReturn))
    /\ \A p \in Procs : /\ WF_vars(panicked = 0 /\ Notify(p))
                        /\ SF_vars(panicked = 0 /\ (alloc3_desc(p) \/ Woken(p)))

FairSpec == Spec /\ Fairness
------------------------------------------------------------------------------
(***************************************************************************)
(* Properties                                                              *)
(***************************************************************************)
InDriver(p) == pc[p] \in {"notify", "waiting", "woken"}

\* The descriptors in use are the chains of three of the requests in progress,
\* no two of which share one; no descriptor leaks or is freed twice.
ChainsPartition ==
    /\ TypeOK /\ panicked # 1
    /\ \A p \in Procs : InDriver(p) => Cardinality(Chain(idx[p])) = 3
    /\ \A p, q \in Procs : InDriver(p) /\ InDriver(q) /\ p # q => Chain(idx[p]) \cap Chain(idx[q]) = {}
    /\ Desc \ free = UNION {Chain(idx[p]) : p \in {q \in Procs : InDriver(q)}}

\* The device only ever works on a chain whose process is still waiting in the
\* driver with the buffer it points into: no transfer hits a buffer that was
\* given back.  virtio_disk_rw() returns after the transfer was made, and made
\* once, in whichever order requests complete.
DmaSafe ==
    /\ \A d \in busy : \E p \in Procs :
         idx[p] = d /\ (\A e \in Chain(d) : addr[e] = p) /\ pc[p] \in {"waiting", "woken"} /\ bdisk[p] = 1
    /\ \A p \in Procs : served[p] <= 1 /\ (InDriver(p) /\ bdisk[p] = 0 => served[p] = 1)

\* Every request the device was given is finished: no completion is lost
\* between the used ring, the interrupt and the sleeping process (unless an
\* error status has stopped the kernel).
RequestsFinish == \A p \in Procs : pc[p] = "waiting" ~> pc[p] = "idle" \/ panicked = 2

\* Whoever sleeps for descriptors tries again.
DescWaitersRetry == \A p \in Procs : pc[p] = "nodesc" ~> pc[p] = "start" \/ panicked = 2
==============================================================================
