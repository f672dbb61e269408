-------------------------------- MODULE Proc --------------------------------
(***************************************************************************)
(* The process table and scheduler of kernel/proc.c: fork(), exit(),       *)
(* wait(), kill(), sleep()/wakeup(), yield() and the scheduler loop of     *)
(* every CPU, with the two kinds of lock they nest: wait_lock and, inside  *)
(* it, the p->lock of each process.                                        *)
(*                                                                         *)
(* A thread takes a step only while some CPU runs it.  A section that      *)
(* takes a lock, touches what the lock protects and releases it is one     *)
(* step, which needs the lock free; a lock held for longer is a variable.  *)
(* The loops over the table take one step per slot.  What processes do to  *)
(* memory, files and directories is left to other modules; here it may     *)
(* fail, as kalloc(), uvmcopy() and copyout() may.                         *)
(***************************************************************************)
EXTENDS Integers, FiniteSets

CONSTANTS
    NPROC,    \* param.h: slots of the process table
    CPUs,     \* the harts running scheduler()
    KillPids, \* the arguments kill() is called with
    MaxPid    \* bound: forks are explored until this pid is given out

ASSUME ProcAssumption ==
    /\ NPROC \in Nat \ {0} /\ MaxPid \in Nat \ {0}
    /\ KillPids \subseteq 0 .. MaxPid

None == 0
Slots == 1 .. NPROC
initproc == 1

VARIABLES
    state, pid, parent, killed, chan,  \* fields of struct proc
    lock,      \* the thread responsible for releasing each p->lock
    wait_lock, \* the thread that holds wait_lock
    nextpid,
    cpu,       \* c->proc
    pc,        \* where the thread of each slot is in the kernel
    resume,    \* where it goes on after sched() returns ("user" once it has)
    slot,      \* its loop index over the table, 1 outside a loop
    wslot,     \* the same for the loop of a wakeup() it calls
    arg,       \* fork(): np; kill(): pid; wait(): havekids
    panicked   \* 1 once init has called exit()

procVars == <<state, pid, parent, killed, chan>>
localVars == <<resume, slot, wslot, arg>>
vars == <<procVars, lock, wait_lock, nextpid, cpu, pc, localVars, panicked>>

\* Points where the thread holds no spinlock, so that a timer interrupt makes
\* it yield.
Unlocked == {"user", "fork_scan", "fork_parent", "fork_run", "exit_lock",
             "wait_lock", "kill_scan", "trapret"}
Labels == Unlocked \cup {"fork_copy", "reparent", "rewake", "exit_wake", "exit_zombie",
                         "wait_scan", "wait_test", "wait_sleep", "sleep_mark", "sched", "resumed"}
ProcStates == {"UNUSED", "USED", "SLEEPING", "RUNNABLE", "RUNNING", "ZOMBIE"}

TypeOK ==
    /\ state \in [Slots -> ProcStates]
    /\ pid \in [Slots -> Nat]
    /\ parent \in [Slots -> Slots \cup {None}]
    /\ killed \in [Slots -> {0, 1}]
    /\ chan \in [Slots -> Slots \cup {None}]
    /\ lock \in [Slots -> Slots \cup {None}]
    /\ wait_lock \in Slots \cup {None}
    /\ nextpid \in Nat
    /\ cpu \in [CPUs -> Slots \cup {None}]
    /\ pc \in [Slots -> Labels]
    /\ resume \in [Slots -> Unlocked]
    /\ slot \in [Slots -> Slots]
    /\ wslot \in [Slots -> Slots]
    /\ arg \in [Slots -> Nat]
    /\ panicked \in {0, 1}

\* userinit() has made init, and the CPUs enter scheduler().
Init ==
    /\ state = [s \in Slots |-> IF s = initproc THEN "RUNNABLE" ELSE "UNUSED"]
    /\ pid = [s \in Slots |-> IF s = initproc THEN 1 ELSE 0]
    /\ parent = [s \in Slots |-> None]
    /\ killed = [s \in Slots |-> 0]
    /\ chan = [s \in Slots |-> None]
    /\ lock = [s \in Slots |-> None]
    /\ wait_lock = None
    /\ nextpid = 2
    /\ cpu = [c \in CPUs |-> None]
    /\ pc = [s \in Slots |-> "sched"]
    /\ resume = [s \in Slots |-> "user"]
    /\ slot = [s \in Slots |-> 1]
    /\ wslot = [s \in Slots |-> 1]
    /\ arg = [s \in Slots |-> 0]
    /\ panicked = 0
------------------------------------------------------------------------------
OnCpu(s) == \E c \in CPUs : cpu[c] = s

\* Thread s is executing at label l.
At(s, l) == pc[s] = l /\ OnCpu(s)

Goto(s, l) == pc' = [pc EXCEPT ![s] = l]

\* One step of thread s in a loop over the table: the next slot, and after the
\* last one on to label l.
After(t) == IF t < NPROC THEN t + 1 ELSE 1
LoopTo(s, index, l) ==
    /\ index' = [index EXCEPT ![s] = After(@)]
    /\ Goto(s, IF index[s] < NPROC THEN pc[s] ELSE l)

\* freeproc(t), of the fields modelled.
freeproc(t) ==
    /\ state' = [state EXCEPT ![t] = "UNUSED"]
    /\ pid' = [pid EXCEPT ![t] = 0]
    /\ parent' = [parent EXCEPT ![t] = None]
    /\ killed' = [killed EXCEPT ![t] = 0]
    /\ chan' = [chan EXCEPT ![t] = None]
------------------------------------------------------------------------------
(***************************************************************************)
(* scheduler(), sched(), yield(), sleep()                                  *)
(***************************************************************************)
\* scheduler() finds a process it can run and switches to it, the process's lock
\* held on its behalf.
SwitchTo(c, s) ==
    /\ cpu[c] = None
    /\ lock[s] = None
    /\ state[s] = "RUNNABLE"
    /\ state' = [state EXCEPT ![s] = "RUNNING"]
    /\ cpu' = [cpu EXCEPT ![c] = s]
    /\ lock' = [lock EXCEPT ![s] = s]
    /\ Goto(s, "resumed")
    /\ UNCHANGED <<pid, parent, killed, chan, wait_lock, nextpid, localVars, panicked>>

\* Which slot the loop has come to is left open.
scheduler(c) == \E s \in Slots : SwitchTo(c, s)

\* Every way into sched() takes p->lock first and keeps it: the CPU it switches
\* back to releases it.
LockForSched_Not(s) == lock[s] = None /\ UNCHANGED lock
LockForSched(s) == lock[s] = None /\ lock' = [lock EXCEPT ![s] = s]

\* swtch() back into scheduler(): c->proc = 0, release(&p->lock).
SwitchedBack(c) ==
    LET s == cpu[c] IN
    /\ s # None
    /\ pc[s] = "sched"
    /\ cpu' = [cpu EXCEPT ![c] = None]
    /\ lock' = [lock EXCEPT ![s] = None]
    /\ UNCHANGED <<procVars, wait_lock, nextpid, pc, localVars, panicked>>

\* The rest of yield(), sleep() or forkret() after the switch: p->chan = 0,
\* release(&p->lock).
Resumed(s) ==
    /\ At(s, "resumed")
    /\ chan' = [chan EXCEPT ![s] = None]
    /\ lock' = [lock EXCEPT ![s] = None]
    /\ Goto(s, resume[s])
    /\ resume' = [resume EXCEPT ![s] = "user"]
    /\ UNCHANGED <<state, pid, parent, killed, wait_lock, nextpid, cpu, slot, wslot, arg, panicked>>

\* acquire() turns interrupts off before it spins on a lock that is held.
Spins(s) ==
    \/ pc[s] \in {"exit_lock", "wait_lock", "fork_parent"} /\ wait_lock # None
    \/ pc[s] \in {"fork_scan", "kill_scan"} /\ lock[slot[s]] # None
    \/ pc[s] = "fork_run" /\ lock[arg[s]] # None

\* A timer interrupt: yield(), from user space only after usertrap() has found
\* the process not killed.
yield(s) ==
    /\ OnCpu(s)
    /\ pc[s] \in Unlocked /\ ~Spins(s)
    /\ pc[s] = "user" => killed[s] = 0
    /\ LockForSched(s)
    /\ state' = [state EXCEPT ![s] = "RUNNABLE"]
    /\ resume' = [resume EXCEPT ![s] = pc[s]]
    /\ Goto(s, "sched")
    /\ UNCHANGED <<pid, parent, killed, chan, wait_lock, nextpid, cpu, slot, wslot, arg, panicked>>

\* sleep(p, &wait_lock) in wait(): acquire(&p->lock), release(lk).  From here
\* until the thread is SLEEPING and off its stack, wakeup() waits for p->lock.
sleep(s) ==
    /\ At(s, "wait_sleep")
    /\ LockForSched(s)
    /\ wait_lock' = None
    /\ Goto(s, "sleep_mark")
    /\ UNCHANGED <<procVars, nextpid, cpu, localVars, panicked>>

\* p->chan = chan, p->state = SLEEPING, sched(); the thread goes on by taking
\* wait_lock again and scanning again.
sleep_mark(s) ==
    /\ At(s, "sleep_mark")
    /\ chan' = [chan EXCEPT ![s] = s]
    /\ state' = [state EXCEPT ![s] = "SLEEPING"]
    /\ resume' = [resume EXCEPT ![s] = "wait_lock"]
    /\ Goto(s, "sched")
    /\ UNCHANGED <<pid, parent, killed, lock, wait_lock, nextpid, cpu, slot, wslot, arg, panicked>>

\* What wakeup(ch) by thread s makes of slot t, one iteration of its loop.
Woken_Self(s, t, ch) ==
    IF t # s /\ state[t] = "SLEEPING" /\ chan[t] = s
    THEN [state EXCEPT ![t] = "RUNNABLE"] ELSE state
Woken(s, t, ch) ==
    IF t # s /\ state[t] = "SLEEPING" /\ chan[t] = ch
    THEN [state EXCEPT ![t] = "RUNNABLE"] ELSE state

\* The lock that iteration needs.
WakeupMay(s, t) == t # s => lock[t] = None
------------------------------------------------------------------------------
(***************************************************************************)
(* usertrap()                                                              *)
(***************************************************************************)
\* A system call: killed(p) first, then the call.
usertrap(s) ==
    /\ At(s, "user")
    /\ lock[s] = None
    /\ IF killed[s] = 1
       THEN Goto(s, "exit_lock") /\ UNCHANGED arg
       ELSE \/ Goto(s, "fork_scan") /\ nextpid <= MaxPid /\ UNCHANGED arg
            \/ Goto(s, "wait_lock") /\ UNCHANGED arg
            \/ Goto(s, "exit_lock") /\ UNCHANGED arg
            \/ /\ Goto(s, "kill_scan")
               /\ \E n \in KillPids : arg' = [arg EXCEPT ![s] = n]
    /\ UNCHANGED <<procVars, lock, wait_lock, nextpid, cpu, resume, slot, wslot, panicked>>

\* An exception: setkilled(p), then exit(-1).
Fault(s) ==
    /\ At(s, "user")
    /\ lock[s] = None
    /\ killed' = [killed EXCEPT ![s] = 1]
    /\ Goto(s, "exit_lock")
    /\ UNCHANGED <<state, pid, parent, chan, lock, wait_lock, nextpid, cpu, localVars, panicked>>

\* The end of usertrap(): killed(p) once more.
TrapReturn(s) ==
    /\ At(s, "trapret")
    /\ lock[s] = None
    /\ Goto(s, IF killed[s] = 1 THEN "exit_lock" ELSE "user")
    /\ UNCHANGED <<procVars, lock, wait_lock, nextpid, cpu, localVars, panicked>>

\* A system call returns from its loop over the table.
Return(s) ==
    /\ Goto(s, "trapret")
    /\ slot' = [slot EXCEPT ![s] = 1]
    /\ arg' = [arg EXCEPT ![s] = 0]
------------------------------------------------------------------------------
(***************************************************************************)
(* fork()                                                                  *)
(***************************************************************************)
\* allocpid(), the pid being the old nextpid.
allocpid == nextpid' = nextpid + 1

\* allocproc(): look for an UNUSED slot; found, it is USED and stays locked,
\* unless kalloc() or proc_pagetable() fails.
allocproc(s) ==
    LET t == slot[s] IN
    /\ At(s, "fork_scan")
    /\ lock[t] = None
    /\ \/ /\ state[t] = "UNUSED"
          /\ allocpid
          /\ pid' = [pid EXCEPT ![t] = nextpid]
          /\ state' = [state EXCEPT ![t] = "USED"]
          /\ lock' = [lock EXCEPT ![t] = s]
          /\ arg' = [arg EXCEPT ![s] = t]
          /\ pc' = [pc EXCEPT ![s] = "fork_copy", ![t] = "sched"]
          /\ resume' = [resume EXCEPT ![t] = "user"]
          /\ slot' = [slot EXCEPT ![s] = 1]
          /\ UNCHANGED <<parent, killed, chan>>
       \/ /\ state[t] = "UNUSED"
          /\ allocpid
          /\ freeproc(t)
          /\ Return(s)
          /\ UNCHANGED <<lock, resume>>
       \/ /\ state[t] # "UNUSED"
          /\ LoopTo(s, slot, "trapret")
          /\ UNCHANGED <<procVars, nextpid, lock, arg, resume>>
    /\ UNCHANGED <<wait_lock, cpu, wslot, panicked>>

\* uvmcopy() and the copies of registers, files and cwd, then release(&np->lock).
fork_copy(s) ==
    LET np == arg[s] IN
    /\ At(s, "fork_copy")
    /\ \/ freeproc(np) /\ Return(s)
       \/ UNCHANGED <<procVars, slot, arg>> /\ Goto(s, "fork_parent")
    /\ lock' = [lock EXCEPT ![np] = None]
    /\ UNCHANGED <<wait_lock, nextpid, cpu, resume, wslot, panicked>>

\* np->parent = p, under wait_lock.
fork_parent(s) ==
    /\ At(s, "fork_parent")
    /\ wait_lock = None
    /\ parent' = [parent EXCEPT ![arg[s]] = s]
    /\ Goto(s, "fork_run")
    /\ UNCHANGED <<state, pid, killed, chan, lock, wait_lock, nextpid, cpu, localVars, panicked>>

\* np->state = RUNNABLE, under np->lock.
fork_run(s) ==
    /\ At(s, "fork_run")
    /\ lock[arg[s]] = None
    /\ state' = [state EXCEPT ![arg[s]] = "RUNNABLE"]
    /\ Return(s)
    /\ UNCHANGED <<pid, parent, killed, chan, lock, wait_lock, nextpid, cpu, resume, wslot, panicked>>
------------------------------------------------------------------------------
(***************************************************************************)
(* exit()                                                                  *)
(***************************************************************************)
\* Up to acquire(&wait_lock); init must not get here.
exit(s) ==
    /\ At(s, "exit_lock")
    /\ \/ /\ s = initproc
          /\ panicked' = 1
          /\ UNCHANGED <<wait_lock, pc>>
       \/ /\ s # initproc
          /\ wait_lock = None
          /\ wait_lock' = s
          /\ Goto(s, "reparent")
          /\ UNCHANGED panicked
    /\ UNCHANGED <<procVars, lock, nextpid, cpu, localVars>>

\* The children reparent() moves, zombies too.
Child_Live(t, s) == parent[t] = s /\ state[t] # "ZOMBIE"
Child(t, s) == parent[t] = s

\* reparent(p): a child found is given to init, and init is woken.
reparent(s) ==
    /\ At(s, "reparent")
    /\ \/ /\ Child(slot[s], s)
          /\ parent' = [parent EXCEPT ![slot[s]] = initproc]
          /\ Goto(s, "rewake")
          /\ UNCHANGED slot
       \/ /\ ~Child(slot[s], s)
          /\ LoopTo(s, slot, "exit_wake")
          /\ UNCHANGED parent
    /\ UNCHANGED <<state, pid, killed, chan, lock, wait_lock, nextpid, cpu, resume, wslot, arg, panicked>>

\* wakeup(initproc) in reparent().
rewake(s) ==
    /\ At(s, "rewake")
    /\ WakeupMay(s, wslot[s])
    /\ state' = Woken(s, wslot[s], initproc)
    /\ LoopTo(s, wslot, "reparent")
    /\ UNCHANGED <<pid, parent, killed, chan, lock, wait_lock, nextpid, cpu, resume, slot, arg, panicked>>

\* wakeup(p->parent).
exit_wake(s) ==
    /\ At(s, "exit_wake")
    /\ WakeupMay(s, wslot[s])
    /\ state' = Woken(s, wslot[s], parent[s])
    /\ LoopTo(s, wslot, "exit_zombie")
    /\ UNCHANGED <<pid, parent, killed, chan, lock, wait_lock, nextpid, cpu, resume, slot, arg, panicked>>

\* p->state = ZOMBIE under p->lock, wait_lock released, p->lock kept through
\* sched().
exit_zombie(s) ==
    /\ At(s, "exit_zombie")
    /\ LockForSched(s)
    /\ state' = [state EXCEPT ![s] = "ZOMBIE"]
    /\ wait_lock' = None
    /\ Goto(s, "sched")
    /\ UNCHANGED <<pid, parent, killed, chan, nextpid, cpu, localVars, panicked>>
------------------------------------------------------------------------------
(***************************************************************************)
(* wait() and kill()                                                       *)
(***************************************************************************)
\* acquire(&wait_lock), on entry and when sleep() returns; a new scan starts.
wait(s) ==
    /\ At(s, "wait_lock")
    /\ wait_lock = None
    /\ wait_lock' = s
    /\ arg' = [arg EXCEPT ![s] = 0]
    /\ Goto(s, "wait_scan")
    /\ UNCHANGED <<procVars, lock, nextpid, cpu, resume, slot, wslot, panicked>>

\* acquire(&pp->lock): a zombie is looked at only when it has left its stack.
ChildLockFree_Any(t) == TRUE
ChildLockFree(t) == lock[t] = None

\* One iteration of the scan for exited children; copyout() may fail.
wait_scan(s) ==
    LET t == slot[s] IN
    /\ At(s, "wait_scan")
    /\ \/ /\ parent[t] # s
          /\ LoopTo(s, slot, "wait_test")
          /\ UNCHANGED <<procVars, wait_lock, arg>>
       \/ /\ parent[t] = s /\ ChildLockFree(t) /\ state[t] # "ZOMBIE"
          /\ arg' = [arg EXCEPT ![s] = 1]
          /\ LoopTo(s, slot, "wait_test")
          /\ UNCHANGED <<procVars, wait_lock>>
       \/ /\ parent[t] = s /\ ChildLockFree(t) /\ state[t] = "ZOMBIE"
          /\ freeproc(t) \/ UNCHANGED procVars
          /\ wait_lock' = None
          /\ Return(s)
    /\ UNCHANGED <<lock, nextpid, cpu, resume, wslot, panicked>>

\* if(!havekids || killed(p)) return -1.
wait_test(s) ==
    /\ At(s, "wait_test")
    /\ arg[s] = 1 => lock[s] = None
    /\ IF arg[s] = 0 \/ killed[s] = 1
       THEN wait_lock' = None /\ Return(s)
       ELSE UNCHANGED <<wait_lock, slot, arg>> /\ Goto(s, "wait_sleep")
    /\ UNCHANGED <<procVars, lock, nextpid, cpu, resume, wslot, panicked>>

\* One iteration of kill(pid).
kill(s) ==
    LET t == slot[s] IN
    /\ At(s, "kill_scan")
    /\ lock[t] = None
    /\ \/ /\ pid[t] = arg[s]
          /\ killed' = [killed EXCEPT ![t] = 1]
          /\ state' = [state EXCEPT ![t] = IF @ = "SLEEPING" THEN "RUNNABLE" ELSE @]
          /\ Return(s)
       \/ /\ pid[t] # arg[s]
          /\ IF t < NPROC THEN LoopTo(s, slot, "trapret") /\ UNCHANGED arg ELSE Return(s)
          /\ UNCHANGED <<killed, state>>
    /\ UNCHANGED <<pid, parent, chan, lock, wait_lock, nextpid, cpu, resume, wslot, panicked>>
------------------------------------------------------------------------------
\* The thread of slot s goes on in the kernel.
KernelStep(s) ==
    \/ sleep(s) \/ sleep_mark(s) \/ TrapReturn(s)
    \/ allocproc(s) \/ fork_copy(s) \/ fork_parent(s) \/ fork_run(s)
    \/ exit(s) \/ reparent(s) \/ rewake(s) \/ exit_wake(s) \/ exit_zombie(s)
    \/ wait(s) \/ wait_scan(s) \/ wait_test(s) \/ kill(s)

Next ==
    /\ panicked = 0
    /\ \/ \E c \in CPUs : scheduler(c) \/ SwitchedBack(c)
       \/ \E s \in Slots : Resumed(s) \/ KernelStep(s) \/ usertrap(s) \/ Fault(s) \/ yield(s)

Spec == Init /\ [][Next]_vars

\* A thread on a CPU goes on, and gets a spinlock that keeps coming free; the
\* schedulers come round to every slot; the timer of every CPU keeps
\* interrupting, and ends a process that was killed.  No user program is assumed
\* to make any system call.
Tick(c) == \E s \in Slots : cpu[c] = s /\ (yield(s) \/ (killed[s] = 1 /\ usertrap(s)))
Fairness ==
    /\ \A s \in Slots : /\ WF_vars(panicked = 0 /\ Resumed(s))
                        /\ SF_vars(panicked = 0 /\ KernelStep(s))
                        /\ SF_vars(panicked = 0 /\ \E c \in CPUs : SwitchTo(c, s))
    /\ \A c \in CPUs : WF_vars(panicked = 0 /\ SwitchedBack(c)) /\ SF_vars(panicked = 0 /\ Tick(c))

FairSpec == Spec /\ Fairness
------------------------------------------------------------------------------
(***************************************************************************)
(* Properties                                                              *)
(***************************************************************************)
\* No process runs on two CPUs, and a CPU is on a kernel stack only while the
\* process is RUNNING or its lock is still held for the switch: sched() keeps
\* p->lock until the CPU has left the stack.
StackOwned ==
    /\ TypeOK
    /\ \A c, d \in CPUs : cpu[c] = cpu[d] /\ cpu[c] # None => c = d
    /\ \A c \in CPUs : cpu[c] # None => state[cpu[c]] = "RUNNING" \/ lock[cpu[c]] = cpu[c]

\* A slot is free, or being filled by fork(), only when no CPU is on its stack:
\* wait() does not free a child that is still in exit() or swtch().
FreeSlotIdle ==
    \A s \in Slots : state[s] \in {"UNUSED", "USED"} => ~OnCpu(s)

\* No parent sleeps in wait() while one of its children is a zombie, except
\* while the thread about to wake it holds wait_lock: exit() and reparent()
\* lose no wakeup.
NoMissedExit ==
    wait_lock = None =>
        \A s, t \in Slots : parent[t] = s /\ state[t] = "ZOMBIE" => state[s] # "SLEEPING"

\* A child's parent is a live process: whoever exits has given its children to
\* init first, and fork() adds none behind its back.  Every process but init
\* that has started has one.
ParentAlive ==
    \A t \in Slots :
        /\ parent[t] # None => state[parent[t]] \notin {"UNUSED", "USED", "ZOMBIE"}
        /\ state[t] \notin {"UNUSED", "USED"} /\ t # initproc => parent[t] # None

\* A process asleep in wait() returns from it once a child of its starts to
\* exit, whoever else runs, forks, exits or is preempted meanwhile.
WaitReturns ==
    \A s \in Slots :
        (state[s] = "SLEEPING" /\ \E t \in Slots : parent[t] = s /\ At(t, "exit_lock"))
            ~> (pc[s] = "trapret" \/ panicked = 1)
==============================================================================
