----------------------------- MODULE ProcProofs -----------------------------
(***************************************************************************)
(* For every number of slots and of CPUs, and any number of forks: the     *)
(* process table of Proc.tla never has two CPUs on one stack, frees no     *)
(* slot under a running thread, loses no wakeup of a waiting parent and    *)
(* leaves no process without a live parent.                                *)
(***************************************************************************)
EXTENDS Proc, TLAPS

\* Where a thread is: what it goes on with, once it has been switched out.
Where(s) == IF pc[s] \in {"sched", "resumed"} THEN resume[s] ELSE pc[s]

InFork == {"fork_copy", "fork_parent", "fork_run"}
InExit == {"reparent", "rewake", "exit_wake", "exit_zombie"}
InWait == {"wait_scan", "wait_test", "wait_sleep"}
Dead == {"UNUSED", "USED", "ZOMBIE"}

\* A thread is RUNNING exactly between scheduler()'s switch to it and its own
\* call of sched(); then p->lock is held for it until the CPU has left it.
CpuInv ==
    /\ \A c, d \in CPUs : cpu[c] = cpu[d] /\ cpu[c] # None => c = d
    /\ \A s \in Slots :
         /\ state[s] = "RUNNING" <=> pc[s] # "sched"
         /\ state[s] = "RUNNING" => OnCpu(s)
         /\ OnCpu(s) /\ pc[s] = "sched" => lock[s] = s /\ state[s] \notin {"UNUSED", "USED"}
         /\ pc[s] \in {"resumed", "sleep_mark"} => lock[s] = s

\* A thread that is not switched out, or has ended, has nothing to go on with.
ResumeInv ==
    \A s \in Slots : pc[s] \notin {"sched", "resumed"} \/ state[s] \in Dead => resume[s] = "user"

\* The slot fork() fills is USED, and no other fork() fills it.
ForkInv ==
    \A s \in Slots : Where(s) \in InFork =>
        /\ arg[s] \in Slots /\ state[arg[s]] = "USED"
        /\ Where(s) = "fork_run" => parent[arg[s]] = s
        /\ \A t \in Slots : Where(t) \in InFork /\ arg[t] = arg[s] => t = s

\* The indices of loops that are not under way are at the start.
LoopInv ==
    \A s \in Slots :
        /\ Where(s) \notin {"fork_scan", "kill_scan", "wait_scan", "reparent", "rewake"} => slot[s] = 1
        /\ pc[s] \notin {"rewake", "exit_wake"} => wslot[s] = 1

\* wait_lock is held from exit()'s and wait()'s acquire to their release.
WaitLockInv == \A s \in Slots : wait_lock = s <=> pc[s] \in InExit \cup InWait

\* A thread that is asleep in wait(), or is past the release of wait_lock in
\* sleep() and about to be.
Dozing(s) == state[s] = "SLEEPING" \/ pc[s] = "sleep_mark"

\* What exit() has done so far: the children before slot[s] are gone, and a
\* parent before wslot[s] is awake.
ExitInv ==
    \A s \in Slots :
        /\ pc[s] \in InExit => s # initproc
        /\ pc[s] \in {"reparent", "rewake"} => \A t \in Slots : t < slot[s] => parent[t] # s
        /\ pc[s] = "rewake" => parent[slot[s]] # s
        /\ pc[s] \in {"exit_wake", "exit_zombie"} => \A t \in Slots : parent[t] # s
        /\ pc[s] = "exit_wake" /\ Dozing(parent[s]) => wslot[s] <= parent[s]
        /\ pc[s] = "exit_zombie" => ~Dozing(parent[s])

\* What wait() has seen so far: no child before slot[s] has exited.
ScanInv ==
    \A s, t \in Slots : parent[t] = s /\ state[t] = "ZOMBIE" =>
        /\ pc[s] = "wait_scan" => slot[s] <= t
        /\ pc[s] \notin {"wait_test", "wait_sleep"}

\* A sleeper sleeps on itself; if a child of its has exited, the child was just
\* given to init, and the wakeup() of init is still to come.
SleepInv ==
    \A s \in Slots : Dozing(s) =>
        /\ state[s] = "SLEEPING" => chan[s] = s
        /\ \A t \in Slots : parent[t] = s /\ state[t] = "ZOMBIE" =>
             s = initproc /\ \E u \in Slots : pc[u] = "rewake" /\ wslot[u] = initproc

\* init does not end.
InitLives == state[initproc] \notin Dead

Inv ==
    /\ TypeOK /\ CpuInv /\ ResumeInv /\ ForkInv /\ LoopInv
    /\ WaitLockInv /\ ExitInv /\ ScanInv /\ SleepInv
    /\ ParentAlive /\ InitLives
------------------------------------------------------------------------------
\* Steps that name no prover are found by Zenon.
USE ZenonT(60)

\* The slots of the table, and the null pointer.
LEMMA SlotFacts == 1 \in Slots /\ initproc \in Slots /\ None \notin Slots /\ Slots \subseteq Nat
  BY ProcAssumption, SMTT(30) DEF Slots, None, initproc

\* The index of a loop over the table, and where the loop ends.
LEMMA AfterSlot ==
  ASSUME NEW t \in Slots
  PROVE  /\ After(t) \in Slots
         /\ t < NPROC => After(t) = t + 1
         /\ ~(t < NPROC) => After(t) = 1 /\ \A u \in Slots : u <= t
  BY ProcAssumption, SMTT(30) DEF Slots, After

\* A thread that takes a step in the kernel, or in user space, is RUNNING.
LEMMA AtRuns ==
  ASSUME Inv, NEW s \in Slots, NEW l, At(s, l), l \notin {"sched", "resumed"}
  PROVE  state[s] = "RUNNING" /\ pc[s] = l /\ Where(s) = l /\ OnCpu(s) /\ resume[s] = "user"
  BY DEF Inv, At, CpuInv, ResumeInv, Where

\* Only one thread is inside wait_lock.
LEMMA OneHolder ==
  ASSUME Inv, NEW s \in Slots, NEW t \in Slots, pc[s] \in InExit \cup InWait, pc[t] \in InExit \cup InWait
  PROVE  s = t
  BY DEF Inv, WaitLockInv

\* A process in exit() has a parent that has not ended.
LEMMA ExitingHasParent ==
  ASSUME Inv, NEW s \in Slots, pc[s] \in InExit
  PROVE  parent[s] \in Slots /\ state[parent[s]] \notin Dead
<1>1. state[s] = "RUNNING" /\ s # initproc
  BY DEF Inv, CpuInv, ExitInv, InExit, Dozing
<1>2. parent[s] # None
  BY <1>1 DEF Inv, ParentAlive
<1> QED BY <1>2 DEF Inv, ParentAlive, TypeOK, Dead

LEMMA ExitParents ==
  ASSUME Inv
  PROVE  \A u \in Slots : pc[u] \in InExit => parent[u] \in Slots
  BY ExitingHasParent

\* userinit() establishes the invariant.
LEMMA InitInv == Init => Inv
<1> SUFFICES ASSUME Init PROVE Inv
  OBVIOUS
<1> USE ProcAssumption DEF Init, Slots, None, initproc
<1>1. TypeOK
  BY SMTT(30) DEF TypeOK, ProcStates, Labels, Unlocked
<1>2. CpuInv /\ ResumeInv
  BY SMTT(30) DEF CpuInv, ResumeInv, OnCpu
<1>3. ForkInv /\ LoopInv
  BY DEF ForkInv, LoopInv, Where, InFork
<1>4. WaitLockInv /\ ExitInv /\ ScanInv /\ SleepInv
  BY SMTT(30) DEF WaitLockInv, ExitInv, ScanInv, SleepInv, InExit, InWait, Dozing
<1>5. ParentAlive /\ InitLives
  BY SMTT(30) DEF ParentAlive, InitLives, Dead
<1> QED BY <1>1, <1>2, <1>3, <1>4, <1>5 DEF Inv

\* scheduler() switches only to a process that no CPU is on.
LEMMA SwitchToInv ==
  ASSUME Inv, NEW c \in CPUs, NEW s \in Slots, SwitchTo(c, s)
  PROVE  Inv'
<1> USE DEF Inv, SwitchTo, Goto, localVars
<1>1. s # None /\ ~OnCpu(s) /\ pc[s] = "sched"
  BY SMTT(30) DEF CpuInv, TypeOK, Slots, None
<1>2. TypeOK'
  BY DEF TypeOK, ProcStates, Labels
<1>3. CpuInv'
  <2>1. cpu'[c] = s /\ \A d \in CPUs : d # c => cpu'[d] = cpu[d] /\ cpu[d] # s
    BY <1>1 DEF OnCpu, TypeOK
  <2>2. OnCpu(s)' /\ \A t \in Slots : t # s => (OnCpu(t)' <=> OnCpu(t))
    BY <2>1, SMTT(30) DEF OnCpu, Slots, None
  <2>3. \A d, e \in CPUs : cpu'[d] = cpu'[e] /\ cpu'[d] # None => d = e
    BY <2>1, SMTT(30) DEF CpuInv
  <2> QED BY <1>1, <2>2, <2>3 DEF CpuInv, TypeOK
<1>4. \A t \in Slots : Where(t)' = Where(t)
  BY <1>1 DEF Where, TypeOK
<1>5. ResumeInv'
  BY <1>1 DEF ResumeInv, TypeOK, Dead
<1>6. ForkInv'
  BY <1>4, SMTT(30) DEF ForkInv, TypeOK
<1>7. LoopInv'
  BY <1>1, <1>4 DEF LoopInv, TypeOK
<1>8. WaitLockInv'
  BY <1>1 DEF WaitLockInv, TypeOK, InExit, InWait
<1>9. ExitInv'
  BY <1>1, SMTT(30) DEF ExitInv, TypeOK, InExit, Dozing
<1>10. ScanInv'
  BY <1>1 DEF ScanInv, TypeOK
<1>11. SleepInv'
  BY <1>1 DEF SleepInv, TypeOK, Dozing
<1>12. ParentAlive' /\ InitLives'
  BY <1>1, SMTT(30) DEF ParentAlive, InitLives, TypeOK, Dead
<1> QED BY <1>2, <1>3, <1>5, <1>6, <1>7, <1>8, <1>9, <1>10, <1>11, <1>12

\* The CPU has left the stack, and releases the lock held for that.
LEMMA SwitchedBackInv ==
  ASSUME Inv, NEW c \in CPUs, SwitchedBack(c)
  PROVE  Inv'
<1> USE DEF Inv, SwitchedBack, procVars, localVars
<1>1. PICK s \in Slots : s = cpu[c] /\ s # None /\ pc[s] = "sched"
  BY DEF TypeOK
<1>2. TypeOK'
  BY <1>1 DEF TypeOK
<1>3. CpuInv'
  <2>1. \A d \in CPUs : cpu'[d] = s => FALSE
    BY <1>1 DEF CpuInv, TypeOK
  <2>2. \A t \in Slots : t # s => (OnCpu(t)' <=> OnCpu(t)) /\ lock'[t] = lock[t]
    BY <1>1, SMTT(30) DEF OnCpu, TypeOK, Slots, None
  <2>3. ~OnCpu(s)'
    BY <2>1 DEF OnCpu
  <2>4. \A d, e \in CPUs : cpu'[d] = cpu'[e] /\ cpu'[d] # None => d = e
    BY <1>1 DEF CpuInv, TypeOK
  <2> QED BY <1>1, <2>2, <2>3, <2>4 DEF CpuInv
<1>4. \A t \in Slots : Where(t)' = Where(t)
  BY DEF Where
<1>5. ResumeInv' /\ ForkInv' /\ LoopInv'
  BY <1>4, SMTT(30) DEF ResumeInv, ForkInv, LoopInv
<1>6. WaitLockInv' /\ ExitInv' /\ ScanInv' /\ SleepInv' /\ ParentAlive' /\ InitLives'
  BY SMTT(30) DEF WaitLockInv, ExitInv, ScanInv, SleepInv, ParentAlive, InitLives, Dozing
<1> QED BY <1>2, <1>3, <1>5, <1>6

\* A thread goes on after sched(), and releases its own lock.
LEMMA ResumedInv ==
  ASSUME Inv, NEW s \in Slots, Resumed(s)
  PROVE  Inv'
<1> USE DEF Inv, Resumed, Goto, At
<1>1. state[s] = "RUNNING" /\ resume[s] \in Unlocked /\ OnCpu(s) /\ pc[s] = "resumed"
  BY DEF CpuInv, TypeOK
<1>2. TypeOK'
  BY <1>1 DEF TypeOK, Labels, Unlocked, None
<1>3. CpuInv'
  BY <1>1, SMTT(30) DEF CpuInv, OnCpu, TypeOK, Unlocked
<1>4. \A t \in Slots : Where(t)' = Where(t)
  BY <1>1 DEF Where, TypeOK, Unlocked
<1>5. ResumeInv'
  BY <1>1 DEF ResumeInv, TypeOK, Dead, Unlocked
<1>6. ForkInv'
  BY <1>4 DEF ForkInv
<1>7. LoopInv'
  BY <1>1, <1>4 DEF LoopInv, TypeOK, Unlocked
<1>8. WaitLockInv'
  BY <1>1 DEF WaitLockInv, TypeOK, InExit, InWait, Unlocked
<1>9. ExitInv'
  BY <1>1, SMTT(30) DEF ExitInv, TypeOK, InExit, Unlocked, Dozing
<1>10. ScanInv'
  BY <1>1 DEF ScanInv, TypeOK, Unlocked
<1>11. SleepInv'
  BY <1>1 DEF SleepInv, TypeOK, Unlocked, Dozing
<1>12. ParentAlive' /\ InitLives'
  BY DEF ParentAlive, InitLives
<1> QED BY <1>2, <1>3, <1>5, <1>6, <1>7, <1>8, <1>9, <1>10, <1>11, <1>12
\* yield() happens only where no spinlock is held, and its thread goes on there.
LEMMA YieldInv ==
  ASSUME Inv, NEW s \in Slots, yield(s)
  PROVE  Inv'
<1> USE DEF Inv, yield, LockForSched, Goto
<1>1. state[s] = "RUNNING" /\ resume[s] = "user" /\ pc[s] \in Unlocked /\ pc[s] \notin {"sched", "resumed"}
  BY DEF CpuInv, ResumeInv, Unlocked
<1>2. TypeOK'
  BY <1>1 DEF TypeOK, Labels, ProcStates
<1>3. CpuInv'
  BY <1>1, SMTT(30) DEF CpuInv, OnCpu, TypeOK
<1>4. \A t \in Slots : Where(t)' = Where(t)
  BY <1>1 DEF Where, TypeOK
<1>5. ResumeInv'
  BY <1>1 DEF ResumeInv, TypeOK, Dead
<1>6. ForkInv'
  BY <1>1, <1>4, SMTT(30) DEF ForkInv, TypeOK
<1>7. LoopInv'
  BY <1>1, <1>4 DEF LoopInv, TypeOK, Unlocked
<1>8. WaitLockInv'
  BY <1>1 DEF WaitLockInv, TypeOK, InExit, InWait, Unlocked
<1>9. ExitInv'
  BY <1>1, SMTT(30) DEF ExitInv, TypeOK, InExit, Dozing
<1>10. ScanInv'
  BY <1>1 DEF ScanInv, TypeOK
<1>11. SleepInv'
  BY <1>1, SMTT(30) DEF SleepInv, TypeOK, Unlocked, Dozing
<1>12. ParentAlive' /\ InitLives'
  BY <1>1, SMTT(30) DEF ParentAlive, InitLives, TypeOK, Dead
<1> QED BY <1>2, <1>3, <1>5, <1>6, <1>7, <1>8, <1>9, <1>10, <1>11, <1>12

\* sleep() in wait(): no child has exited, or the scan would have found it.
LEMMA SleepStepInv ==
  ASSUME Inv, NEW s \in Slots, sleep(s)
  PROVE  Inv'
<1> USE DEF Inv, sleep, LockForSched, Goto, procVars, localVars
<1>1. state[s] = "RUNNING" /\ resume[s] = "user" /\ pc[s] = "wait_sleep" /\ OnCpu(s) /\ wait_lock = s
  BY AtRuns DEF WaitLockInv, InWait
<1>2. TypeOK'
  BY <1>1 DEF TypeOK, Labels
<1>3. CpuInv'
  BY <1>1, SMTT(30) DEF CpuInv, OnCpu, TypeOK
<1>4. \A t \in Slots : t # s => Where(t)' = Where(t)
  BY DEF Where, TypeOK
<1>5. Where(s) = "wait_sleep" /\ Where(s)' = "sleep_mark"
  BY <1>1 DEF Where, TypeOK
<1>6. ResumeInv'
  BY <1>1 DEF ResumeInv, TypeOK, Dead
<1>7. ForkInv'
  BY <1>1, <1>4, <1>5, SMTT(30) DEF ForkInv, TypeOK, InFork
<1>8. LoopInv'
  BY <1>1, <1>4, <1>5 DEF LoopInv, TypeOK
<1>9. WaitLockInv'
  BY <1>1, SMTT(30) DEF WaitLockInv, TypeOK, InExit, InWait, Slots, None
<1>10. \A t \in Slots : pc[t] \notin InExit /\ pc'[t] \notin InExit
  BY <1>1 DEF WaitLockInv, InExit, TypeOK
<1>11. ExitInv'
  BY <1>1, <1>10 DEF ExitInv, TypeOK, InExit
<1>12. ScanInv'
  BY <1>1 DEF ScanInv, TypeOK
<1>13. SleepInv'
  BY <1>1, <1>10, SMTT(30) DEF SleepInv, ScanInv, TypeOK, InExit, Dozing
<1>14. ParentAlive' /\ InitLives'
  BY DEF ParentAlive, InitLives
<1> QED BY <1>2, <1>3, <1>6, <1>7, <1>8, <1>9, <1>11, <1>12, <1>13, <1>14

\* The thread becomes SLEEPING; what held while it was about to still holds.
LEMMA SleepMarkInv ==
  ASSUME Inv, NEW s \in Slots, sleep_mark(s)
  PROVE  Inv'
<1> USE DEF Inv, sleep_mark, Goto
<1>1. state[s] = "RUNNING" /\ resume[s] = "user" /\ pc[s] = "sleep_mark" /\ OnCpu(s) /\ lock[s] = s
  BY AtRuns DEF CpuInv
<1>2. TypeOK'
  BY <1>1 DEF TypeOK, Labels, Unlocked, ProcStates
<1>3. CpuInv'
  BY <1>1, SMTT(30) DEF CpuInv, OnCpu, TypeOK
<1>4. \A t \in Slots : t # s => Where(t)' = Where(t)
  BY DEF Where, TypeOK
<1>5. Where(s) = "sleep_mark" /\ Where(s)' = "wait_lock"
  BY <1>1 DEF Where, TypeOK
<1>6. ResumeInv'
  BY <1>1 DEF ResumeInv, TypeOK, Dead
<1>7. ForkInv'
  BY <1>1, <1>4, <1>5, SMTT(30) DEF ForkInv, TypeOK, InFork
<1>8. LoopInv'
  BY <1>1, <1>4, <1>5 DEF LoopInv, TypeOK
<1>9. WaitLockInv'
  BY <1>1, SMTT(30) DEF WaitLockInv, TypeOK, InExit, InWait
<1>10. Dozing(s) /\ \A t \in Slots : Dozing(t)' <=> Dozing(t)
  BY <1>1 DEF Dozing, TypeOK
<1>11. ExitInv'
  <2>1. ASSUME NEW t \in Slots, pc'[t] \in InExit
        PROVE  t # s /\ pc[t] = pc'[t] /\ parent[t] \in Slots /\ (Dozing(parent[t])' <=> Dozing(parent[t]))
    <3>1. t # s /\ pc[t] = pc'[t]
      BY <1>1, <2>1 DEF TypeOK, InExit
    <3>2. parent[t] \in Slots
      BY <2>1, <3>1, ExitingHasParent
    <3> QED BY <1>10, <3>1, <3>2
  <2>2. parent' = parent /\ slot' = slot /\ wslot' = wslot
    OBVIOUS
  <2> QED BY <2>1, <2>2 DEF ExitInv, InExit
<1>12. ScanInv'
  BY <1>1 DEF ScanInv, TypeOK
<1>13. SleepInv'
  <2>1. \A t \in Slots : (state'[t] = "ZOMBIE" <=> state[t] = "ZOMBIE") /\ (pc[t] = "rewake" => pc'[t] = "rewake")
    BY <1>1 DEF TypeOK
  <2>2. \A t \in Slots : state'[t] = "SLEEPING" => chan'[t] = t
    BY <1>1 DEF SleepInv, Dozing, TypeOK
  <2> QED BY <1>10, <2>1, <2>2 DEF SleepInv
<1>14. ParentAlive' /\ InitLives'
  BY <1>1, SMTT(30) DEF ParentAlive, InitLives, TypeOK, Dead
<1> QED BY <1>2, <1>3, <1>6, <1>7, <1>8, <1>9, <1>11, <1>12, <1>13, <1>14

\* A thread that only moves on within the kernel, or back to user space,
\* outside wait_lock and fork()'s hold of a slot, before and after.
LEMMA MovesOn ==
  ASSUME Inv, NEW s \in Slots, NEW l \in {"user", "trapret", "exit_lock", "wait_lock", "fork_scan", "kill_scan"},
         state[s] = "RUNNING", pc[s] \in {"user", "trapret", "fork_scan", "kill_scan"}, Goto(s, l),
         slot'[s] \in Slots, l \notin {"fork_scan", "kill_scan"} => slot'[s] = 1,
         slot' = [slot EXCEPT ![s] = slot'[s]], arg' \in [Slots -> Nat],
         \A t \in Slots : t # s => arg'[t] = arg[t],
         UNCHANGED <<state, pid, parent, chan, lock, wait_lock, cpu, resume, wslot, panicked>>,
         killed' \in [Slots -> {0, 1}], nextpid' \in Nat
  PROVE  Inv'
<1> USE DEF Inv, Goto
<1>1. resume[s] = "user"
  BY DEF ResumeInv
<1>2. TypeOK'
  BY DEF TypeOK, Labels, Unlocked
<1>3. CpuInv'
  BY SMTT(30) DEF CpuInv, OnCpu, TypeOK
<1>4. \A t \in Slots : t # s => Where(t)' = Where(t)
  BY DEF Where, TypeOK
<1>5. Where(s) = pc[s] /\ Where(s)' = l
  BY DEF Where, TypeOK
<1>6. ResumeInv'
  BY <1>1 DEF ResumeInv, TypeOK, Dead
<1>7. ForkInv'
  BY <1>4, <1>5, SMTT(30), SMTT(60) DEF ForkInv, TypeOK, InFork
<1>8. LoopInv'
  BY <1>4, <1>5, SMTT(30) DEF LoopInv, TypeOK
<1>9. WaitLockInv'
  BY SMTT(30) DEF WaitLockInv, TypeOK, InExit, InWait
<1>10. ExitInv'
  BY SMTT(30) DEF ExitInv, TypeOK, InExit, Dozing
<1>11. ScanInv'
  BY DEF ScanInv, TypeOK
<1>12. SleepInv'
  BY SMTT(30) DEF SleepInv, TypeOK, Dozing
<1>13. ParentAlive' /\ InitLives'
  BY DEF ParentAlive, InitLives
<1> QED BY <1>2, <1>3, <1>6, <1>7, <1>8, <1>9, <1>10, <1>11, <1>12, <1>13
\* usertrap() at a system call, an exception, and the end of either.
LEMMA TrapInv ==
  ASSUME Inv, NEW s \in Slots, usertrap(s) \/ Fault(s) \/ TrapReturn(s)
  PROVE  Inv'
<1>1. /\ state[s] = "RUNNING" /\ pc[s] \in {"user", "trapret"} /\ Where(s) = pc[s]
      /\ UNCHANGED <<state, pid, parent, chan, lock, wait_lock, nextpid, cpu, resume, slot, wslot, panicked>>
  BY AtRuns DEF usertrap, Fault, TrapReturn, procVars, localVars
<1>2. slot[s] = 1 /\ slot \in [Slots -> Slots] /\ 1 \in Slots
  BY <1>1, ProcAssumption DEF Inv, LoopInv, TypeOK, Slots
<1>3. \E l \in {"user", "exit_lock", "wait_lock", "fork_scan", "kill_scan"} : Goto(s, l)
  BY DEF usertrap, Fault, TrapReturn
<1>4. killed' \in [Slots -> {0, 1}]
  BY DEF usertrap, Fault, TrapReturn, procVars, Inv, TypeOK
<1>5. arg' \in [Slots -> Nat] /\ \A t \in Slots : t # s => arg'[t] = arg[t]
  BY ProcAssumption, SMTT(30) DEF usertrap, Fault, TrapReturn, localVars, Inv, TypeOK
<1>6. nextpid' \in Nat /\ slot' = [slot EXCEPT ![s] = slot'[s]] /\ slot'[s] = 1
  BY <1>1, <1>2 DEF Inv, TypeOK
<1> QED BY <1>1, <1>2, <1>3, <1>4, <1>5, <1>6, MovesOn, SMTT(30)

\* A slot that fork() fills or gives up belongs to no thread yet.
LEMMA FreeSlot ==
  ASSUME Inv, NEW t \in Slots, state[t] \in {"UNUSED", "USED", "ZOMBIE"}
  PROVE  /\ pc[t] = "sched" /\ resume[t] = "user" /\ Where(t) = "user"
         /\ \A u \in Slots : parent[u] # t
         /\ state[t] # "ZOMBIE" => ~OnCpu(t)
         /\ t # initproc /\ slot[t] = 1 /\ wslot[t] = 1
<1>1. pc[t] = "sched" /\ resume[t] = "user"
  BY DEF Inv, CpuInv, ResumeInv, Dead
<1>2. Where(t) = "user"
  BY <1>1 DEF Where
<1>3. \A u \in Slots : parent[u] # t
  BY SMTT(30) DEF Inv, ParentAlive, Slots, None
<1>4. state[t] # "ZOMBIE" => ~OnCpu(t)
  BY <1>1 DEF Inv, CpuInv
<1>5. t # initproc /\ slot[t] = 1 /\ wslot[t] = 1
  BY <1>1, <1>2 DEF Inv, InitLives, Dead, LoopInv
<1> QED BY <1>1, <1>2, <1>3, <1>4, <1>5

\* allocproc() takes an UNUSED slot.
LEMMA AllocprocTakes ==
  ASSUME Inv, NEW s \in Slots, NEW t \in Slots, At(s, "fork_scan"), state[t] = "UNUSED", lock[t] = None,
         nextpid' \in Nat, pid' \in [Slots -> Nat],
         state' = [state EXCEPT ![t] = "USED"], lock' = [lock EXCEPT ![t] = s],
         arg' = [arg EXCEPT ![s] = t], pc' = [pc EXCEPT ![s] = "fork_copy", ![t] = "sched"],
         resume' = [resume EXCEPT ![t] = "user"], slot' = [slot EXCEPT ![s] = 1],
         UNCHANGED <<parent, killed, chan, wait_lock, cpu, wslot, panicked>>
  PROVE  Inv'
<1> USE DEF Inv
<1>1. state[s] = "RUNNING" /\ pc[s] = "fork_scan" /\ OnCpu(s) /\ resume[s] = "user" /\ s # t /\ 1 \in Slots
  BY AtRuns, SlotFacts
<1>2. pc[t] = "sched" /\ resume[t] = "user" /\ ~OnCpu(t) /\ t # initproc /\ \A u \in Slots : parent[u] # t
  BY FreeSlot
<1>3. pc' = [pc EXCEPT ![s] = "fork_copy"] /\ resume' = resume
  BY <1>1, <1>2 DEF TypeOK
<1>4. TypeOK'
  BY <1>1, <1>3, SlotFacts, SMTT(30), SMTT(60) DEF TypeOK, Labels, ProcStates
<1>5. CpuInv'
  BY <1>1, <1>2, <1>3, SMTT(30) DEF CpuInv, OnCpu, TypeOK
<1>6. \A u \in Slots : u # s => Where(u)' = Where(u)
  BY <1>3 DEF Where, TypeOK
<1>7. Where(s) = "fork_scan" /\ Where(s)' = "fork_copy"
  BY <1>1, <1>3 DEF Where, TypeOK
<1>8. ResumeInv'
  BY <1>1, <1>2, <1>3 DEF ResumeInv, TypeOK, Dead
<1>9. ForkInv'
  BY <1>1, <1>2, <1>6, <1>7 DEF ForkInv, TypeOK, InFork
<1>10. LoopInv'
  BY <1>1, <1>3, <1>6, <1>7, SMTT(30) DEF LoopInv, TypeOK
<1>11. WaitLockInv'
  BY <1>1, <1>3, SMTT(30) DEF WaitLockInv, TypeOK, InExit, InWait
<1>12. ExitInv'
  BY <1>1, <1>2, <1>3, ExitParents, SMTT(30) DEF ExitInv, TypeOK, InExit, Dozing
<1>13. ScanInv'
  BY <1>1, <1>3, SMTT(30) DEF ScanInv, TypeOK
<1>14. SleepInv'
  BY <1>1, <1>3, SMTT(30) DEF SleepInv, TypeOK, Dozing
<1>15. ParentAlive' /\ InitLives'
  BY <1>1, <1>2, SMTT(30) DEF ParentAlive, InitLives, TypeOK, Dead
<1> QED BY <1>4, <1>5, <1>8, <1>9, <1>10, <1>11, <1>12, <1>13, <1>14, <1>15

\* freeproc() of a slot that nothing refers to changes what belongs to it only.
LEMMA FreeprocKeeps ==
  ASSUME Inv, NEW t \in Slots, state[t] \in {"UNUSED", "USED"}, freeproc(t)
  PROVE  /\ state' \in [Slots -> ProcStates] /\ pid' \in [Slots -> Nat]
         /\ parent' \in [Slots -> Slots \cup {None}] /\ killed' \in [Slots -> {0, 1}]
         /\ chan' \in [Slots -> Slots \cup {None}]
         /\ state'[t] = "UNUSED" /\ parent'[t] = None
         /\ \A u \in Slots : u # t => state'[u] = state[u] /\ parent'[u] = parent[u] /\ chan'[u] = chan[u]
  BY DEF Inv, freeproc, TypeOK, ProcStates

\* fork() gives up after allocproc() has found a slot.
LEMMA ForkFails ==
  ASSUME Inv, NEW s \in Slots, NEW t \in Slots, state[t] \in {"UNUSED", "USED"}, freeproc(t), Return(s),
         \/ At(s, "fork_scan") /\ state[t] = "UNUSED" /\ UNCHANGED lock
         \/ At(s, "fork_copy") /\ t = arg[s] /\ lock' = [lock EXCEPT ![t] = None],
         nextpid' \in Nat, UNCHANGED <<wait_lock, cpu, resume, wslot, panicked>>
  PROVE  Inv'
<1> USE DEF Inv, Return, Goto
<1>1. state[s] = "RUNNING" /\ pc[s] \in {"fork_scan", "fork_copy"} /\ OnCpu(s) /\ resume[s] = "user"
      /\ s # t /\ 1 \in Slots
  BY AtRuns, SlotFacts
<1>2. pc[t] = "sched" /\ resume[t] = "user" /\ ~OnCpu(t) /\ t # initproc /\ \A u \in Slots : parent[u] # t
  BY FreeSlot
<1>3. /\ state'[t] = "UNUSED" /\ parent'[t] = None
      /\ \A u \in Slots : u # t => state'[u] = state[u] /\ parent'[u] = parent[u] /\ chan'[u] = chan[u]
  BY FreeprocKeeps
<1>4. TypeOK'
  <2>1. lock' \in [Slots -> Slots \cup {None}] /\ pc' \in [Slots -> Labels]
        /\ slot' \in [Slots -> Slots] /\ arg' \in [Slots -> Nat]
    BY <1>1 DEF TypeOK, Labels, Unlocked
  <2> QED BY <2>1, FreeprocKeeps DEF TypeOK
<1>5. CpuInv'
  BY <1>1, <1>2, <1>3, SMTT(30) DEF CpuInv, OnCpu, TypeOK
<1>6. \A u \in Slots : u # s => Where(u)' = Where(u) /\ arg'[u] = arg[u]
  BY DEF Where, TypeOK
<1>7. Where(s) = pc[s] /\ Where(s)' = "trapret"
  BY <1>1 DEF Where, TypeOK
<1>8. ResumeInv'
  BY <1>1, <1>2, <1>3, SMTT(30) DEF ResumeInv, TypeOK, Dead
<1>9. \A u \in Slots : u # s /\ Where(u) \in InFork => arg[u] # t
  BY <1>1, <1>7, SMTT(30) DEF ForkInv, InFork, At
<1>10. ForkInv'
  BY <1>3, <1>6, <1>7, <1>9, SMTT(30) DEF ForkInv, InFork
<1>11. LoopInv'
  BY <1>1, <1>6, <1>7, SMTT(30) DEF LoopInv, TypeOK
<1>12. WaitLockInv'
  BY <1>1 DEF WaitLockInv, TypeOK, InExit, InWait
<1>13. ExitInv'
  <2>1. \A u \in Slots : pc[u] \in InExit =>
          u # t /\ u # s /\ parent'[u] = parent[u] /\ state'[parent[u]] = state[parent[u]]
    BY <1>1, <1>2, <1>3, ExitingHasParent DEF InExit
  <2>2. \A u \in Slots : pc'[u] \in InExit => pc'[u] = pc[u] /\ u # s /\ slot'[u] = slot[u]
    BY DEF TypeOK, InExit
  <2>3. \A u, v \in Slots : parent[u] # v => parent'[u] # v
    BY <1>3, SlotFacts
  <2>4. ASSUME NEW u \in Slots, pc'[u] \in InExit
        PROVE  /\ pc'[u] = pc[u] /\ slot'[u] = slot[u] /\ wslot'[u] = wslot[u] /\ parent'[u] = parent[u]
               /\ state'[parent[u]] = state[parent[u]] /\ slot[u] \in Slots
    BY <2>1, <2>2, <2>4 DEF TypeOK
  <2> QED BY <2>3, <2>4, SMTT(30) DEF ExitInv, InExit, Dozing
<1>14. ScanInv'
  BY <1>1, <1>3, SMTT(30) DEF ScanInv, TypeOK
<1>15. SleepInv'
  <2>1. \A u, v \in Slots : parent'[u] = v => u # t /\ parent[u] = v
    BY <1>3, SlotFacts
  <2>2. \A u \in Slots : pc[u] = "rewake" => pc'[u] = "rewake"
    BY <1>1 DEF TypeOK
  <2> QED BY <1>3, <2>1, <2>2, SMTT(30) DEF SleepInv, Dozing
<1>16. ParentAlive'
  <2>1. \A u \in Slots : u # t /\ parent[u] # None => state'[parent[u]] = state[parent[u]]
    BY <1>2, <1>3 DEF TypeOK
  <2>2. \A u \in Slots : parent'[u] # None => u # t /\ parent'[u] = parent[u]
    BY <1>3
  <2>3. \A u \in Slots : parent'[u] # None => state'[parent'[u]] \notin {"UNUSED", "USED", "ZOMBIE"}
    BY <2>1, <2>2 DEF ParentAlive
  <2>4. \A u \in Slots : state'[u] \notin {"UNUSED", "USED"} => u # t /\ state'[u] = state[u] /\ parent'[u] = parent[u]
    BY <1>3
  <2> QED BY <2>3, <2>4 DEF ParentAlive
<1>17. InitLives'
  BY <1>2, <1>3, SlotFacts DEF InitLives
<1> QED BY <1>4, <1>5, <1>8, <1>10, <1>11, <1>12, <1>13, <1>14, <1>15, <1>16, <1>17
\* allocproc(): a slot is taken, given up again, or passed over.
LEMMA AllocprocInv ==
  ASSUME Inv, NEW s \in Slots, allocproc(s)
  PROVE  Inv'
<1>1. PICK t \in Slots : t = slot[s]
  BY DEF Inv, TypeOK
<1>2. At(s, "fork_scan") /\ lock[t] = None /\ UNCHANGED <<wait_lock, cpu, wslot, panicked>>
  BY <1>1 DEF allocproc
<1>3. nextpid \in Nat /\ nextpid + 1 \in Nat /\ pid \in [Slots -> Nat]
  BY SMTT(30) DEF Inv, TypeOK
<1>4. CASE /\ state[t] = "UNUSED" /\ allocpid /\ pid' = [pid EXCEPT ![t] = nextpid]
           /\ state' = [state EXCEPT ![t] = "USED"] /\ lock' = [lock EXCEPT ![t] = s]
           /\ arg' = [arg EXCEPT ![s] = t]
           /\ pc' = [pc EXCEPT ![s] = "fork_copy", ![t] = "sched"]
           /\ resume' = [resume EXCEPT ![t] = "user"]
           /\ slot' = [slot EXCEPT ![s] = 1]
           /\ UNCHANGED <<parent, killed, chan>>
  <2>1. nextpid' \in Nat /\ pid' \in [Slots -> Nat]
    BY <1>3, <1>4 DEF allocpid
  <2> QED BY <1>2, <1>4, <2>1, AllocprocTakes
<1>5. CASE state[t] = "UNUSED" /\ allocpid /\ freeproc(t) /\ Return(s) /\ UNCHANGED <<lock, resume>>
  <2>1. nextpid' \in Nat
    BY <1>3, <1>5 DEF allocpid
  <2> QED BY <1>2, <1>5, <2>1, ForkFails
<1>6. CASE LoopTo(s, slot, "trapret") /\ UNCHANGED <<procVars, nextpid, lock, arg, resume>>
  <2>1. state[s] = "RUNNING" /\ pc[s] = "fork_scan"
    BY <1>2, AtRuns
  <2>2. slot' = [slot EXCEPT ![s] = After(slot[s])] /\ slot \in [Slots -> Slots]
        /\ After(slot[s]) \in Slots /\ (slot[s] < NPROC \/ After(slot[s]) = 1)
    BY <1>6, AfterSlot DEF LoopTo, Inv, TypeOK
  <2>3. \E l \in {"trapret", "fork_scan"} : Goto(s, l) /\ (l # "fork_scan" => slot'[s] = 1)
    BY <1>6, <2>1, <2>2 DEF LoopTo
  <2>4. slot'[s] \in Slots /\ slot' = [slot EXCEPT ![s] = slot'[s]]
    BY <2>2
  <2>5. arg' \in [Slots -> Nat] /\ (\A u \in Slots : u # s => arg'[u] = arg[u])
        /\ UNCHANGED <<state, pid, parent, chan, lock, wait_lock, cpu, resume, wslot, panicked>>
        /\ killed' \in [Slots -> {0, 1}] /\ nextpid' \in Nat
    BY <1>2, <1>6 DEF procVars, Inv, TypeOK
  <2> QED BY <2>1, <2>3, <2>4, <2>5, MovesOn
<1> QED BY <1>1, <1>4, <1>5, <1>6 DEF allocproc

\* The rest of fork(): the child is filled, gets its parent, becomes RUNNABLE.
LEMMA ForkCopyInv ==
  ASSUME Inv, NEW s \in Slots, fork_copy(s)
  PROVE  Inv'
<1> USE DEF Inv
<1>1. /\ pc[s] = "fork_copy" /\ state[s] = "RUNNING" /\ OnCpu(s) /\ resume[s] = "user" /\ At(s, "fork_copy")
      /\ UNCHANGED <<wait_lock, nextpid, cpu, resume, wslot, panicked>>
  BY AtRuns DEF fork_copy
<1>2. PICK t \in Slots : t = arg[s] /\ state[t] = "USED" /\ t # s
  BY <1>1 DEF ForkInv, Where, InFork
<1>3. pc[t] = "sched" /\ resume[t] = "user" /\ ~OnCpu(t) /\ t # initproc
  BY <1>2, FreeSlot
<1>4. lock' = [lock EXCEPT ![t] = None] /\ nextpid' \in Nat
  BY <1>1, <1>2 DEF fork_copy, TypeOK
<1>5. CASE freeproc(t) /\ Return(s)
  BY <1>1, <1>2, <1>4, <1>5, ForkFails
<1>6. CASE UNCHANGED <<procVars, slot, arg>> /\ Goto(s, "fork_parent")
  <2> USE <1>6 DEF Goto, procVars
  <2>1. TypeOK'
    BY <1>1, <1>4 DEF TypeOK, Labels, Unlocked
  <2>2. CpuInv'
    BY <1>1, <1>3, <1>4, SMTT(30) DEF CpuInv, OnCpu, TypeOK
  <2>3. \A u \in Slots : u # s => Where(u)' = Where(u)
    BY <1>1 DEF Where, TypeOK
  <2>4. Where(s) = "fork_copy" /\ Where(s)' = "fork_parent"
    BY <1>1 DEF Where, TypeOK
  <2>5. ResumeInv'
    BY <1>1 DEF ResumeInv, TypeOK, Dead
  <2>6. ForkInv'
    BY <2>3, <2>4, SMTT(30) DEF ForkInv, InFork
  <2>7. LoopInv'
    BY <1>1, <2>3, <2>4 DEF LoopInv, TypeOK
  <2>8. WaitLockInv'
    BY <1>1 DEF WaitLockInv, TypeOK, InExit, InWait
  <2>9. ExitInv'
    BY <1>1, ExitParents, SMTT(30), SMTT(60) DEF ExitInv, TypeOK, InExit, Dozing
  <2>10. ScanInv' /\ ParentAlive' /\ InitLives'
    BY <1>1 DEF ScanInv, TypeOK, ParentAlive, InitLives
  <2>11. SleepInv'
    BY <1>1 DEF SleepInv, TypeOK, Dozing
  <2> QED BY <2>1, <2>2, <2>5, <2>6, <2>7, <2>8, <2>9, <2>10, <2>11
<1> QED BY <1>2, <1>5, <1>6 DEF fork_copy

\* np->parent is set under wait_lock, so that no exit() or wait() is looking.
LEMMA ForkParentInv ==
  ASSUME Inv, NEW s \in Slots, fork_parent(s)
  PROVE  Inv'
<1> USE DEF Inv, fork_parent, Goto, localVars
<1>1. pc[s] = "fork_parent" /\ state[s] = "RUNNING" /\ OnCpu(s) /\ resume[s] = "user"
  BY AtRuns
<1>2. PICK t \in Slots : t = arg[s] /\ state[t] = "USED" /\ t # s
  BY <1>1 DEF ForkInv, Where, InFork
<1>3. \A u \in Slots : pc[u] \notin InExit \cup InWait
  BY SlotFacts DEF WaitLockInv
<1>4. parent' = [parent EXCEPT ![t] = s] /\ s # None
  BY <1>2, SlotFacts
<1>5. TypeOK'
  <2>1. parent \in [Slots -> Slots \cup {None}]
    BY DEF TypeOK
  <2>2. parent' \in [Slots -> Slots \cup {None}]
    BY <1>4, <2>1
  <2>3. pc' \in [Slots -> Labels]
    BY DEF TypeOK, Labels, Unlocked
  <2> QED BY <2>2, <2>3 DEF TypeOK
<1>6. CpuInv'
  BY <1>1, SMTT(30) DEF CpuInv, OnCpu, TypeOK
<1>7. \A u \in Slots : u # s => Where(u)' = Where(u)
  BY <1>1 DEF Where, TypeOK
<1>8. Where(s) = "fork_parent" /\ Where(s)' = "fork_run"
  BY <1>1 DEF Where, TypeOK
<1>9. ResumeInv'
  BY <1>1 DEF ResumeInv, TypeOK, Dead
<1>10. ForkInv'
  BY <1>2, <1>4, <1>7, <1>8, SMTT(30) DEF ForkInv, InFork, TypeOK
<1>11. LoopInv'
  BY <1>1, <1>7, <1>8 DEF LoopInv, TypeOK
<1>12. WaitLockInv'
  BY <1>1 DEF WaitLockInv, TypeOK, InExit, InWait
<1>13. ExitInv' /\ ScanInv'
  BY <1>3 DEF ExitInv, ScanInv, TypeOK, InExit, InWait, Dozing
<1>14. SleepInv'
  BY <1>1, <1>2, <1>3, <1>4, SMTT(30) DEF SleepInv, TypeOK, InExit, Dozing
<1>15. ParentAlive' /\ InitLives'
  BY <1>1, <1>2, <1>4, SMTT(30) DEF ParentAlive, InitLives, TypeOK, Dead
<1> QED BY <1>5, <1>6, <1>9, <1>10, <1>11, <1>12, <1>13, <1>14, <1>15

\* The child becomes RUNNABLE only once it has its parent.
LEMMA ForkRunInv ==
  ASSUME Inv, NEW s \in Slots, fork_run(s)
  PROVE  Inv'
<1> USE DEF Inv, fork_run, Return, Goto
<1>1. pc[s] = "fork_run" /\ state[s] = "RUNNING" /\ OnCpu(s) /\ resume[s] = "user" /\ Where(s) = "fork_run"
  BY AtRuns
<1>2. PICK t \in Slots : t = arg[s] /\ state[t] = "USED" /\ t # s /\ parent[t] = s
  BY <1>1 DEF ForkInv, InFork
<1>3. pc[t] = "sched" /\ resume[t] = "user" /\ ~OnCpu(t) /\ t # initproc /\ \A u \in Slots : parent[u] # t
  BY <1>2, FreeSlot
<1>4. state' = [state EXCEPT ![t] = "RUNNABLE"] /\ s # None /\ 1 \in Slots
  BY <1>2, SlotFacts
<1>5. TypeOK'
  <2>1. state' \in [Slots -> ProcStates] /\ pc' \in [Slots -> Labels]
    BY <1>4 DEF TypeOK, Labels, Unlocked, ProcStates
  <2>2. slot' \in [Slots -> Slots] /\ arg' \in [Slots -> Nat]
    BY <1>4 DEF TypeOK
  <2> QED BY <2>1, <2>2 DEF TypeOK
<1>6. CpuInv'
  BY <1>1, <1>2, <1>3, <1>4, SMTT(30) DEF CpuInv, OnCpu, TypeOK
<1>7. \A u \in Slots : u # s => Where(u)' = Where(u) /\ arg'[u] = arg[u]
  BY <1>1 DEF Where, TypeOK
<1>8. Where(s)' = "trapret"
  BY <1>1 DEF Where, TypeOK
<1>9. ResumeInv'
  BY <1>1, <1>4, SMTT(30) DEF ResumeInv, TypeOK, Dead
<1>10. \A u \in Slots : u # s /\ Where(u) \in InFork => arg[u] # t
  BY <1>1, <1>2 DEF ForkInv, InFork
<1>11. ForkInv'
  BY <1>4, <1>7, <1>8, <1>10, SMTT(30) DEF ForkInv, InFork, TypeOK
<1>12. LoopInv'
  BY <1>1, <1>7, <1>8 DEF LoopInv, TypeOK
<1>13. WaitLockInv'
  BY <1>1 DEF WaitLockInv, TypeOK, InExit, InWait
<1>14. ExitInv'
  BY <1>1, <1>4, SMTT(30), SMTT(60) DEF ExitInv, TypeOK, InExit, Dozing
<1>15. ScanInv'
  BY <1>1, <1>4, SMTT(30), SMTT(60) DEF ScanInv, TypeOK
<1>16. SleepInv'
  BY <1>1, <1>4, SMTT(30), SMTT(60) DEF SleepInv, TypeOK, Dozing
<1>17. ParentAlive' /\ InitLives'
  BY <1>1, <1>2, <1>4, SMTT(30) DEF ParentAlive, InitLives, TypeOK, Dead
<1> QED BY <1>5, <1>6, <1>9, <1>11, <1>12, <1>13, <1>14, <1>15, <1>16, <1>17
\* exit() takes wait_lock, unless init itself is exiting, which panics.
LEMMA ExitStepInv ==
  ASSUME Inv, NEW s \in Slots, exit(s)
  PROVE  Inv'
<1> USE DEF Inv, exit, Goto, procVars, localVars
<1>1. pc[s] = "exit_lock" /\ state[s] = "RUNNING" /\ OnCpu(s) /\ resume[s] = "user" /\ Where(s) = "exit_lock"
  BY AtRuns
<1>2. CASE s = initproc /\ panicked' = 1 /\ UNCHANGED <<wait_lock, pc>>
  <2>1. \A u \in Slots : Where(u)' = Where(u)
    BY <1>2 DEF Where
  <2>2. TypeOK' /\ CpuInv'
    BY <1>2 DEF TypeOK, CpuInv, OnCpu
  <2>3. ResumeInv' /\ WaitLockInv' /\ LoopInv'
    BY <1>2, <2>1 DEF ResumeInv, WaitLockInv, LoopInv
  <2>4. ForkInv'
    BY <1>2, <2>1 DEF ForkInv
  <2>5. ExitInv' /\ ScanInv'
    BY <1>2 DEF ExitInv, ScanInv, Dozing
  <2>6. SleepInv' /\ ParentAlive' /\ InitLives'
    BY <1>2 DEF SleepInv, ParentAlive, InitLives, Dozing
  <2> QED BY <2>2, <2>3, <2>4, <2>5, <2>6
<1>3. CASE s # initproc /\ wait_lock = None /\ wait_lock' = s /\ Goto(s, "reparent") /\ UNCHANGED panicked
  <2>1. slot[s] = 1 /\ wslot[s] = 1 /\ \A u \in Slots : ~(u < 1)
    BY <1>1, SlotFacts, SMTT(30) DEF LoopInv, Slots
  <2>2. TypeOK'
    BY <1>3 DEF TypeOK, Labels
  <2>3. CpuInv'
    BY <1>1, <1>3, SMTT(30) DEF CpuInv, OnCpu, TypeOK
  <2>4. \A u \in Slots : u # s => Where(u)' = Where(u)
    BY <1>3 DEF Where, TypeOK
  <2>5. Where(s)' = "reparent"
    BY <1>3 DEF Where, TypeOK
  <2>6. ResumeInv'
    BY <1>1, <1>3 DEF ResumeInv, TypeOK, Dead
  <2>7. ForkInv'
    BY <1>1, <2>4, <2>5 DEF ForkInv, InFork
  <2>8. LoopInv'
    BY <1>1, <1>3, <2>4, <2>5 DEF LoopInv, TypeOK
  <2>9. WaitLockInv'
    BY <1>1, <1>3, SlotFacts DEF WaitLockInv, TypeOK, InExit, InWait
  <2>10. ExitInv'
    BY <1>1, <1>3, <2>1, ExitParents, SMTT(30), SMTT(60) DEF ExitInv, TypeOK, InExit, Dozing
  <2>11. ScanInv' /\ SleepInv'
    BY <1>1, <1>3, SMTT(30) DEF ScanInv, SleepInv, TypeOK, Dozing
  <2>12. ParentAlive' /\ InitLives'
    BY DEF ParentAlive, InitLives
  <2> QED BY <2>2, <2>3, <2>6, <2>7, <2>8, <2>9, <2>10, <2>11, <2>12
<1> QED BY <1>2, <1>3

\* reparent(): a child is handed to init, or the slot holds none.
LEMMA ReparentInv ==
  ASSUME Inv, NEW s \in Slots, reparent(s)
  PROVE  Inv'
<1> USE DEF Inv, Goto, Child
<1>1. /\ pc[s] = "reparent" /\ state[s] = "RUNNING" /\ resume[s] = "user" /\ Where(s) = "reparent"
      /\ UNCHANGED <<state, pid, killed, chan, lock, wait_lock, nextpid, cpu, resume, wslot, arg, panicked>>
  BY AtRuns DEF reparent
<1>2. PICK k \in Slots : k = slot[s]
  BY DEF TypeOK
<1>3. wslot[s] = 1 /\ s # initproc /\ \A t \in Slots : t < k => parent[t] # s
  BY <1>1, <1>2 DEF LoopInv, ExitInv, InExit, Dozing
<1>4. \A u \in Slots : u # s => pc[u] \notin InExit \cup InWait
  BY <1>1, OneHolder DEF InExit
<1>5. CASE parent[k] = s /\ parent' = [parent EXCEPT ![k] = initproc] /\ Goto(s, "rewake") /\ UNCHANGED slot
  <2>1. TypeOK'
    <3>1. parent' \in [Slots -> Slots \cup {None}] /\ pc' \in [Slots -> Labels]
      BY <1>5, SlotFacts DEF TypeOK, Labels
    <3> QED BY <1>1, <1>5, <3>1 DEF TypeOK
  <2>2. CpuInv' /\ ResumeInv'
    BY <1>1, <1>5, SMTT(30) DEF CpuInv, OnCpu, ResumeInv, TypeOK, Dead
  <2>3. (\A u \in Slots : u # s => Where(u)' = Where(u)) /\ Where(s)' = "rewake"
    BY <1>1, <1>5 DEF Where, TypeOK
  <2>4. ForkInv'
    BY <1>1, <1>5, <2>3, SMTT(30) DEF ForkInv, InFork, TypeOK
  <2>5. LoopInv' /\ WaitLockInv'
    BY <1>1, <1>5, <2>3 DEF LoopInv, WaitLockInv, TypeOK, InExit, InWait
  <2>6. ExitInv'
    BY <1>1, <1>2, <1>3, <1>4, <1>5, SMTT(30), SMTT(60) DEF ExitInv, TypeOK, InExit, Dozing
  <2>7. ScanInv'
    BY <1>1, <1>4, <1>5 DEF ScanInv, TypeOK, InWait
  <2>8. SleepInv'
    BY <1>1, <1>3, <1>5 DEF SleepInv, TypeOK, initproc, Dozing
  <2>9. ParentAlive' /\ InitLives'
    BY <1>1, <1>5, SlotFacts DEF ParentAlive, InitLives, TypeOK, Dead
  <2> QED BY <2>1, <2>2, <2>4, <2>5, <2>6, <2>7, <2>8, <2>9
<1>6. CASE parent[k] # s /\ LoopTo(s, slot, "exit_wake") /\ UNCHANGED parent
  <2>1. /\ slot' = [slot EXCEPT ![s] = After(k)] /\ After(k) \in Slots
        /\ pc' = [pc EXCEPT ![s] = IF k < NPROC THEN "reparent" ELSE "exit_wake"]
        /\ k < NPROC => After(k) = k + 1
        /\ ~(k < NPROC) => After(k) = 1 /\ \A u \in Slots : u <= k
    BY <1>1, <1>2, <1>6, AfterSlot DEF LoopTo
  <2>2. TypeOK'
    BY <1>1, <1>6, <2>1 DEF TypeOK, Labels
  <2>3. CpuInv' /\ ResumeInv'
    BY <1>1, <2>1, SMTT(30) DEF CpuInv, OnCpu, ResumeInv, TypeOK, Dead
  <2>4. (\A u \in Slots : u # s => Where(u)' = Where(u)) /\ Where(s)' = pc'[s]
    BY <1>1, <2>1 DEF Where, TypeOK
  <2>5. ForkInv'
    BY <1>1, <1>6, <2>1, <2>4, SMTT(30) DEF ForkInv, InFork, TypeOK
  <2>6. LoopInv' /\ WaitLockInv'
    BY <1>1, <2>1, <2>4 DEF LoopInv, WaitLockInv, TypeOK, InExit, InWait
  <2>7. ExitInv'
    <3>1. parent[s] \in Slots
      BY <1>1, ExitingHasParent DEF InExit
    <3>2. \A t \in Slots : t <= k => parent[t] # s
      BY <1>3, <1>6, SlotFacts, SMTT(30)
    <3>3. \A t \in Slots : t < k + 1 => t <= k
      BY SlotFacts, SMTT(30)
    <3>4. 1 <= parent[s]
      BY <3>1, SMTT(30) DEF Slots
    <3>5. \A u \in Slots : u # s => pc'[u] \notin InExit
      BY <1>4, <2>1 DEF TypeOK
    <3>6. CASE k < NPROC
      BY <1>1, <1>3, <1>6, <2>1, <3>2, <3>3, <3>5, <3>6, SMTT(30), SMTT(60) DEF ExitInv, TypeOK, InExit, Dozing
    <3>7. CASE ~(k < NPROC)
      BY <1>1, <1>3, <1>6, <2>1, <3>2, <3>4, <3>5, <3>7 DEF ExitInv, TypeOK, InExit, Dozing
    <3> QED BY <3>6, <3>7
  <2>8. ScanInv' /\ SleepInv'
    BY <1>1, <1>4, <1>6, <2>1, SMTT(30) DEF ScanInv, SleepInv, TypeOK, InWait, InExit, Dozing
  <2>9. ParentAlive' /\ InitLives'
    BY <1>1, <1>6 DEF ParentAlive, InitLives
  <2> QED BY <2>2, <2>3, <2>5, <2>6, <2>7, <2>8, <2>9
<1> QED BY <1>2, <1>5, <1>6 DEF reparent
\* One iteration of a wakeup() by a thread inside wait_lock: the slot visited
\* is not asleep on ch afterwards, and nothing else changes for the others.
LEMMA WokenKeeps ==
  ASSUME Inv, NEW s \in Slots, NEW t \in Slots, NEW ch, state[s] = "RUNNING",
         WakeupMay(s, t), state' = Woken(s, t, ch)
  PROVE  /\ state' \in [Slots -> ProcStates]
         /\ \A u \in Slots : state'[u] = state[u] \/ (state[u] = "SLEEPING" /\ state'[u] = "RUNNABLE")
         /\ t = ch => state'[t] # "SLEEPING"
<1>1. state' \in [Slots -> ProcStates]
  BY DEF Inv, TypeOK, Woken, ProcStates
<1>2. \A u \in Slots : state'[u] = state[u] \/ (state[u] = "SLEEPING" /\ state'[u] = "RUNNABLE")
  BY DEF Inv, TypeOK, Woken
<1>3. t = ch => state'[t] # "SLEEPING"
  BY DEF Inv, TypeOK, Woken, SleepInv, Dozing
<1> QED BY <1>1, <1>2, <1>3

\* The conjuncts that a wakeup() cannot disturb, the waker at label l after it.
LEMMA WakerKeeps ==
  ASSUME Inv, NEW s \in Slots, NEW l \in InExit, pc[s] \in {"rewake", "exit_wake"}, pc' = [pc EXCEPT ![s] = l],
         l # "reparent" => l \in {"rewake", "exit_wake", "exit_zombie"},
         l \in {"exit_wake", "exit_zombie"} <=> pc[s] = "exit_wake",
         wslot' \in [Slots -> Slots], \A u \in Slots : u # s => wslot'[u] = wslot[u],
         l \in {"reparent", "exit_zombie"} => wslot'[s] = 1,
         state' \in [Slots -> ProcStates],
         \A u \in Slots : state'[u] = state[u] \/ (state[u] = "SLEEPING" /\ state'[u] = "RUNNABLE"),
         UNCHANGED <<pid, parent, killed, chan, lock, wait_lock, nextpid, cpu, resume, slot, arg, panicked>>
  PROVE  /\ TypeOK' /\ CpuInv' /\ ResumeInv' /\ ForkInv' /\ LoopInv' /\ WaitLockInv' /\ ScanInv'
         /\ ParentAlive' /\ InitLives'
<1> USE DEF Inv
<1>1. TypeOK'
  BY DEF TypeOK, Labels, InExit
<1>2. CpuInv'
  BY SMTT(30) DEF CpuInv, OnCpu, TypeOK, InExit
<1>3. ResumeInv'
  BY DEF ResumeInv, TypeOK, Dead, InExit
<1>4. (\A u \in Slots : u # s => Where(u)' = Where(u)) /\ Where(s) = pc[s] /\ Where(s)' = l
  BY DEF Where, TypeOK, InExit
<1>5. ForkInv'
  <2>1. \A t \in Slots : state[t] = "USED" => state'[t] = "USED"
    OBVIOUS
  <2> QED BY <1>4, <2>1, SMTT(30) DEF ForkInv, InFork, InExit
<1>6. LoopInv'
  BY <1>4 DEF LoopInv, TypeOK, InExit
<1>7. WaitLockInv'
  BY DEF WaitLockInv, TypeOK, InExit, InWait
<1>8. ScanInv'
  BY SMTT(30), SMTT(60) DEF ScanInv, TypeOK, InExit
<1>9. ParentAlive'
  BY SMTT(30) DEF ParentAlive, TypeOK
<1>10. InitLives'
  BY SlotFacts DEF InitLives, Dead
<1> QED BY <1>1, <1>2, <1>3, <1>5, <1>6, <1>7, <1>8, <1>9, <1>10

\* wakeup(initproc) in reparent() reaches init before it can miss anything.
LEMMA RewakeInv ==
  ASSUME Inv, NEW s \in Slots, rewake(s)
  PROVE  Inv'
<1> USE DEF Inv
<1>1. /\ pc[s] = "rewake" /\ state[s] = "RUNNING"
      /\ UNCHANGED <<pid, parent, killed, chan, lock, wait_lock, nextpid, cpu, resume, slot, arg, panicked>>
  BY AtRuns DEF rewake
<1>2. PICK k \in Slots : k = wslot[s]
  BY DEF TypeOK
<1>3. /\ state' \in [Slots -> ProcStates]
      /\ \A u \in Slots : state'[u] = state[u] \/ (state[u] = "SLEEPING" /\ state'[u] = "RUNNABLE")
      /\ k = initproc => state'[initproc] # "SLEEPING"
  BY <1>1, <1>2, WokenKeeps DEF rewake
<1>4. PICK l \in {"rewake", "reparent"} :
        pc' = [pc EXCEPT ![s] = l] /\ (l = "reparent" <=> ~(k < NPROC))
  BY <1>1, <1>2 DEF rewake, LoopTo, Goto
<1>5. /\ wslot' \in [Slots -> Slots] /\ \A u \in Slots : u # s => wslot'[u] = wslot[u]
      /\ wslot'[s] = After(k) /\ (l = "reparent" => wslot'[s] = 1)
  BY <1>2, <1>4, AfterSlot DEF rewake, LoopTo, TypeOK
<1>6. TypeOK' /\ CpuInv' /\ ResumeInv' /\ ForkInv' /\ LoopInv' /\ WaitLockInv' /\ ScanInv'
      /\ ParentAlive' /\ InitLives'
  BY <1>1, <1>3, <1>4, <1>5, WakerKeeps DEF InExit
<1>7. \A u \in Slots : u # s => pc[u] \notin InExit \cup InWait
  BY <1>1, OneHolder DEF InExit
<1>8. ExitInv'
  BY <1>1, <1>4, <1>7 DEF ExitInv, TypeOK, InExit, Dozing
<1>9. SleepInv'
  <2>1. k = initproc => ~Dozing(initproc)'
    <3>1. s # initproc /\ (k = initproc => lock[initproc] = None)
      BY <1>1, <1>2 DEF ExitInv, InExit, rewake, WakeupMay
    <3>2. k = initproc => pc[initproc] # "sleep_mark"
      BY <3>1, SlotFacts DEF CpuInv
    <3>3. pc'[initproc] = pc[initproc]
      BY <1>4, <3>1, SlotFacts DEF TypeOK
    <3> QED BY <1>3, <3>2, <3>3 DEF Dozing
  <2>2. \A r \in Slots : Dozing(r)' => Dozing(r)
    BY <1>3, <1>4 DEF Dozing, TypeOK
  <2>3. ASSUME NEW r \in Slots, Dozing(r)', NEW t \in Slots, parent[t] = r, state'[t] = "ZOMBIE"
        PROVE  FALSE
    <3>1. Dozing(r) /\ state[t] = "ZOMBIE"
      BY <1>3, <2>2, <2>3
    <3>2. r = initproc /\ \E u \in Slots : pc[u] = "rewake" /\ wslot[u] = initproc
      BY <2>3, <3>1 DEF SleepInv
    <3>3. k = initproc
      BY <1>2, <1>7, <3>2 DEF InExit
    <3> QED BY <2>1, <2>3, <3>2, <3>3
  <2>4. \A r \in Slots : state'[r] = "SLEEPING" => chan'[r] = r
    BY <1>1, <1>3 DEF SleepInv, Dozing
  <2> QED BY <1>1, <2>3, <2>4 DEF SleepInv
<1> QED BY <1>6, <1>8, <1>9

\* wakeup(p->parent) in exit() reaches the parent.
LEMMA ExitWakeInv ==
  ASSUME Inv, NEW s \in Slots, exit_wake(s)
  PROVE  Inv'
<1> USE DEF Inv
<1>1. /\ pc[s] = "exit_wake" /\ state[s] = "RUNNING"
      /\ UNCHANGED <<pid, parent, killed, chan, lock, wait_lock, nextpid, cpu, resume, slot, arg, panicked>>
  BY AtRuns DEF exit_wake
<1>2. PICK k \in Slots : k = wslot[s]
  BY DEF TypeOK
<1>3. /\ state' \in [Slots -> ProcStates]
      /\ \A u \in Slots : state'[u] = state[u] \/ (state[u] = "SLEEPING" /\ state'[u] = "RUNNABLE")
      /\ k = parent[s] => state'[k] # "SLEEPING"
  BY <1>1, <1>2, WokenKeeps DEF exit_wake
<1>4. PICK l \in {"exit_wake", "exit_zombie"} :
        pc' = [pc EXCEPT ![s] = l] /\ (l = "exit_zombie" <=> ~(k < NPROC))
  BY <1>1, <1>2 DEF exit_wake, LoopTo, Goto
<1>5. /\ wslot' \in [Slots -> Slots] /\ \A u \in Slots : u # s => wslot'[u] = wslot[u]
      /\ wslot'[s] = After(k) /\ (l = "exit_zombie" => wslot'[s] = 1)
  BY <1>2, <1>4, AfterSlot DEF exit_wake, LoopTo, TypeOK
<1>6. TypeOK' /\ CpuInv' /\ ResumeInv' /\ ForkInv' /\ LoopInv' /\ WaitLockInv' /\ ScanInv'
      /\ ParentAlive' /\ InitLives'
  BY <1>1, <1>3, <1>4, <1>5, WakerKeeps DEF InExit
<1>7. \A u \in Slots : u # s => pc[u] \notin InExit \cup InWait
  BY <1>1, OneHolder DEF InExit
<1>8. ExitInv'
  <2>1. PICK q \in Slots : q = parent[s]
    BY <1>1, ExitingHasParent DEF InExit
  <2>2. Dozing(q)' => k <= q /\ k # q
    <3>1. q # s /\ (k = q => lock[q] = None)
      BY <1>1, <1>2, <2>1 DEF ExitInv, exit_wake, WakeupMay
    <3>2. k = q => pc[q] # "sleep_mark"
      BY <3>1, SlotFacts DEF CpuInv
    <3>3. pc'[q] = pc[q]
      BY <1>4, <3>1 DEF TypeOK
    <3>4. k = q => ~Dozing(q)'
      BY <1>3, <2>1, <3>2, <3>3 DEF Dozing
    <3>5. Dozing(q)' => Dozing(q)
      BY <1>3, <3>3 DEF Dozing
    <3>6. Dozing(q) => k <= q
      BY <1>1, <1>2, <2>1 DEF ExitInv
    <3> QED BY <3>4, <3>5, <3>6
  <2>3. Dozing(q)' => k < NPROC /\ After(k) <= q
    BY <2>2, AfterSlot, SlotFacts, ProcAssumption, SMTT(30) DEF Slots, After
  <2>4. \A u \in Slots : u # s => pc'[u] \notin InExit
    BY <1>4, <1>7 DEF TypeOK
  <2>5. s # initproc /\ \A t \in Slots : parent'[t] # s
    BY <1>1 DEF ExitInv, InExit, Dozing
  <2>6. pc'[s] = l
    BY <1>4 DEF TypeOK
  <2> QED BY <1>1, <1>4, <1>5, <2>1, <2>3, <2>4, <2>5, <2>6, SMTT(30), SMTT(60) DEF ExitInv, InExit, Dozing
<1>9. SleepInv'
  <2>1. \A u \in Slots : pc[u] # "rewake"
    BY <1>1, <1>7 DEF InExit
  <2>2. \A u \in Slots : /\ Dozing(u)' => Dozing(u)
                         /\ state'[u] = "SLEEPING" => state[u] = "SLEEPING"
                         /\ state'[u] = "ZOMBIE" => state[u] = "ZOMBIE"
    BY <1>3, <1>4 DEF Dozing, TypeOK
  <2>3. \A u, t \in Slots : ~(Dozing(u) /\ parent[t] = u /\ state[t] = "ZOMBIE")
    BY <2>1 DEF SleepInv
  <2>4. \A u \in Slots : state[u] = "SLEEPING" => chan[u] = u
    BY DEF SleepInv, Dozing
  <2> QED BY <1>1, <2>2, <2>3, <2>4 DEF SleepInv
<1> QED BY <1>6, <1>8, <1>9
\* exit() ends: no child is left, and the parent is awake.
LEMMA ExitZombieInv ==
  ASSUME Inv, NEW s \in Slots, exit_zombie(s)
  PROVE  Inv'
<1> USE DEF Inv, exit_zombie, LockForSched, Goto, localVars
<1>1. pc[s] = "exit_zombie" /\ state[s] = "RUNNING" /\ OnCpu(s) /\ resume[s] = "user" /\ Where(s) = "exit_zombie"
  BY AtRuns
<1>2. \A u \in Slots : u # s => pc[u] \notin InExit \cup InWait
  BY <1>1, OneHolder DEF InExit
<1>3. s # initproc /\ (\A t \in Slots : parent[t] # s) /\ ~Dozing(parent[s]) /\ wait_lock = s
  BY <1>1 DEF ExitInv, WaitLockInv, InExit
<1>4. TypeOK'
  BY DEF TypeOK, Labels, ProcStates
<1>5. CpuInv'
  BY <1>1, SMTT(30) DEF CpuInv, OnCpu, TypeOK
<1>6. (\A u \in Slots : u # s => Where(u)' = Where(u)) /\ Where(s)' = "user"
  BY <1>1 DEF Where, TypeOK
<1>7. ResumeInv'
  BY <1>1 DEF ResumeInv, TypeOK, Dead
<1>8. ForkInv'
  BY <1>1, <1>6, SMTT(30) DEF ForkInv, InFork, TypeOK
<1>9. LoopInv'
  BY <1>1, <1>6 DEF LoopInv, TypeOK
<1>10. WaitLockInv'
  BY <1>1, <1>2, SlotFacts DEF WaitLockInv, TypeOK, InExit, InWait
<1>11. ExitInv'
  BY <1>1, <1>2 DEF ExitInv, TypeOK, InExit, Dozing
<1>12. ScanInv'
  BY <1>1, <1>2 DEF ScanInv, TypeOK, InWait
<1>13. SleepInv'
  <2>1. \A r \in Slots : (Dozing(r)' => Dozing(r)) /\ (state'[r] = "SLEEPING" => state[r] = "SLEEPING")
    BY <1>1 DEF Dozing, TypeOK
  <2>2. \A t \in Slots : t # s /\ state'[t] = "ZOMBIE" => state[t] = "ZOMBIE"
    BY DEF TypeOK
  <2>3. \A u \in Slots : pc[u] # "rewake"
    BY <1>1, <1>2 DEF InExit
  <2>4. \A r, t \in Slots : Dozing(r) /\ parent[t] = r => state[t] # "ZOMBIE" /\ t # s
    BY <1>3, <2>3 DEF SleepInv
  <2>5. \A r \in Slots : state[r] = "SLEEPING" => chan[r] = r
    BY DEF SleepInv, Dozing
  <2> QED BY <2>1, <2>2, <2>4, <2>5 DEF SleepInv
<1>14. ParentAlive' /\ InitLives'
  BY <1>1, <1>3, SMTT(30) DEF ParentAlive, InitLives, TypeOK, Dead
<1> QED BY <1>4, <1>5, <1>7, <1>8, <1>9, <1>10, <1>11, <1>12, <1>13, <1>14

\* wait() takes wait_lock and starts a scan.
LEMMA WaitInv ==
  ASSUME Inv, NEW s \in Slots, wait(s)
  PROVE  Inv'
<1> USE DEF Inv, wait, Goto, procVars
<1>1. pc[s] = "wait_lock" /\ state[s] = "RUNNING" /\ OnCpu(s) /\ resume[s] = "user" /\ Where(s) = "wait_lock"
  BY AtRuns
<1>2. slot[s] = 1 /\ \A t \in Slots : 1 <= t
  BY <1>1, SMTT(30) DEF LoopInv, Slots
<1>3. TypeOK'
  BY DEF TypeOK, Labels
<1>4. CpuInv'
  BY <1>1, SMTT(30) DEF CpuInv, OnCpu, TypeOK
<1>5. (\A u \in Slots : u # s => Where(u)' = Where(u) /\ arg'[u] = arg[u]) /\ Where(s)' = "wait_scan"
  BY <1>1 DEF Where, TypeOK
<1>6. ResumeInv'
  BY <1>1 DEF ResumeInv, TypeOK, Dead
<1>7. ForkInv'
  BY <1>1, <1>5, SMTT(30), SMTT(60) DEF ForkInv, InFork
<1>8. LoopInv'
  BY <1>1, <1>5, SMTT(30), SMTT(60) DEF LoopInv, TypeOK
<1>9. WaitLockInv'
  BY <1>1, SlotFacts DEF WaitLockInv, TypeOK, InExit, InWait
<1>10. ExitInv'
  BY <1>1, ExitParents, SMTT(30) DEF ExitInv, TypeOK, InExit, Dozing
<1>11. ScanInv'
  BY <1>1, <1>2 DEF ScanInv, TypeOK
<1>12. SleepInv'
  BY <1>1 DEF SleepInv, TypeOK, Dozing
<1>13. ParentAlive' /\ InitLives'
  BY DEF ParentAlive, InitLives
<1> QED BY <1>3, <1>4, <1>6, <1>7, <1>8, <1>9, <1>10, <1>11, <1>12, <1>13

\* A thread goes on under wait_lock in wait(), or returns from it, with every
\* process as it was.
LEMMA WaitMovesOn ==
  ASSUME Inv, NEW s \in Slots, NEW l \in InWait \cup {"trapret"}, pc[s] \in InWait, state[s] = "RUNNING",
         Goto(s, l), wait_lock' = IF l = "trapret" THEN None ELSE s,
         slot' \in [Slots -> Slots], \A u \in Slots : u # s => slot'[u] = slot[u],
         l # "wait_scan" => slot'[s] = 1,
         arg' \in [Slots -> Nat], \A u \in Slots : u # s => arg'[u] = arg[u],
         \A t \in Slots : parent[t] = s /\ state[t] = "ZOMBIE" =>
             (l = "wait_scan" => slot'[s] <= t) /\ l \notin {"wait_test", "wait_sleep"},
         UNCHANGED <<procVars, lock, nextpid, cpu, resume, wslot, panicked>>
  PROVE  Inv'
<1> USE DEF Inv, Goto, procVars
<1>1. resume[s] = "user" /\ Where(s) = pc[s] /\ wait_lock = s
  BY DEF ResumeInv, Where, InWait, WaitLockInv
<1>2. \A u \in Slots : u # s => pc[u] \notin InExit \cup InWait
  BY OneHolder DEF InWait
<1>3. TypeOK'
  BY DEF TypeOK, Labels, Unlocked, InWait
<1>4. CpuInv'
  BY SMTT(30) DEF CpuInv, OnCpu, TypeOK, InWait
<1>5. (\A u \in Slots : u # s => Where(u)' = Where(u)) /\ Where(s)' = l
  BY <1>1 DEF Where, TypeOK, InWait
<1>6. ResumeInv'
  BY <1>1 DEF ResumeInv, TypeOK, Dead
<1>7. ForkInv'
  BY <1>1, <1>5, SMTT(30) DEF ForkInv, InFork, InWait
<1>8. LoopInv'
  BY <1>1, <1>5 DEF LoopInv, TypeOK, InWait
<1>9. WaitLockInv'
  BY <1>1, <1>2, SlotFacts DEF WaitLockInv, TypeOK, InExit, InWait
<1>10. ExitInv'
  BY <1>2, SMTT(30) DEF ExitInv, TypeOK, InExit, InWait, Dozing
<1>11. ScanInv'
  BY <1>2 DEF ScanInv, TypeOK, InWait
<1>12. SleepInv'
  BY <1>2, SMTT(30) DEF SleepInv, TypeOK, InWait, Dozing
<1>13. ParentAlive' /\ InitLives'
  BY DEF ParentAlive, InitLives
<1> QED BY <1>3, <1>4, <1>6, <1>7, <1>8, <1>9, <1>10, <1>11, <1>12, <1>13
\* wait() frees a child that has exited: the child's lock being free, no CPU is
\* on its stack any more.
LEMMA WaitFrees ==
  ASSUME Inv, NEW s \in Slots, NEW t \in Slots, At(s, "wait_scan"), parent[t] = s, lock[t] = None,
         state[t] = "ZOMBIE", freeproc(t), Return(s), wait_lock' = None,
         UNCHANGED <<lock, nextpid, cpu, resume, wslot, panicked>>
  PROVE  Inv'
<1> USE DEF Inv, Return, Goto
<1>1. pc[s] = "wait_scan" /\ state[s] = "RUNNING" /\ OnCpu(s) /\ resume[s] = "user" /\ Where(s) = "wait_scan"
      /\ s # t /\ 1 \in Slots
  BY AtRuns, SlotFacts
<1>2. pc[t] = "sched" /\ resume[t] = "user" /\ t # initproc /\ \A u \in Slots : parent[u] # t
  BY FreeSlot
<1>3. ~OnCpu(t)
  BY <1>2, SlotFacts DEF CpuInv
<1>4. /\ state' \in [Slots -> ProcStates] /\ pid' \in [Slots -> Nat]
      /\ parent' \in [Slots -> Slots \cup {None}] /\ killed' \in [Slots -> {0, 1}]
      /\ chan' \in [Slots -> Slots \cup {None}]
  BY DEF freeproc, TypeOK, ProcStates
<1>5. /\ state'[t] = "UNUSED" /\ parent'[t] = None
      /\ \A u \in Slots : u # t => state'[u] = state[u] /\ parent'[u] = parent[u] /\ chan'[u] = chan[u]
  BY DEF freeproc, TypeOK
<1>6. \A u \in Slots : u # s => pc[u] \notin InExit \cup InWait
  BY <1>1, OneHolder DEF InWait
<1>7. TypeOK'
  <2>1. pc' \in [Slots -> Labels] /\ slot' \in [Slots -> Slots] /\ arg' \in [Slots -> Nat]
    BY <1>1 DEF TypeOK, Labels, Unlocked
  <2> QED BY <1>4, <2>1 DEF TypeOK
<1>8. CpuInv'
  BY <1>1, <1>2, <1>3, <1>5, SMTT(30), SMTT(60) DEF CpuInv, OnCpu, TypeOK
<1>9. (\A u \in Slots : u # s => Where(u)' = Where(u) /\ arg'[u] = arg[u]) /\ Where(s)' = "trapret"
  BY <1>1 DEF Where, TypeOK
<1>10. ResumeInv'
  BY <1>1, <1>2, <1>5 DEF ResumeInv, TypeOK, Dead
<1>11. ForkInv'
  <2>1. \A u \in Slots : Where(u) \in InFork => arg[u] # t
    BY DEF ForkInv
  <2>2. \A u \in Slots : Where(u)' \in InFork =>
          u # s /\ Where(u) \in InFork /\ Where(u)' = Where(u) /\ arg'[u] = arg[u]
    BY <1>9 DEF InFork
  <2>3. \A u \in Slots : Where(u) \in InFork =>
          arg[u] \in Slots /\ state'[arg[u]] = state[arg[u]] /\ parent'[arg[u]] = parent[arg[u]]
    BY <1>5, <2>1 DEF ForkInv
  <2>4. ASSUME NEW u \in Slots, Where(u)' \in InFork
        PROVE  /\ arg'[u] \in Slots /\ state'[arg'[u]] = "USED"
               /\ Where(u)' = "fork_run" => parent'[arg'[u]] = u
    <3>1. Where(u) \in InFork /\ Where(u)' = Where(u) /\ arg'[u] = arg[u]
      BY <2>2, <2>4
    <3>2. /\ arg[u] \in Slots /\ state[arg[u]] = "USED"
          /\ Where(u) = "fork_run" => parent[arg[u]] = u
      BY <3>1 DEF ForkInv
    <3> QED BY <2>3, <3>1, <3>2
  <2>5. ASSUME NEW u \in Slots, NEW v \in Slots, Where(u)' \in InFork, Where(v)' \in InFork, arg'[v] = arg'[u]
        PROVE  v = u
    BY <2>2, <2>5 DEF ForkInv
  <2> QED BY <2>4, <2>5 DEF ForkInv
<1>12. LoopInv'
  BY <1>1, <1>9, SMTT(30) DEF LoopInv, TypeOK
<1>13. WaitLockInv'
  BY <1>1, <1>6, SlotFacts DEF WaitLockInv, TypeOK, InExit, InWait
<1>14. ExitInv'
  BY <1>1, <1>6, SMTT(30) DEF ExitInv, TypeOK, InExit, Dozing
<1>15. ScanInv'
  BY <1>1, <1>6 DEF ScanInv, TypeOK, InWait
<1>16. SleepInv'
  <2>1. \A u, v \in Slots : parent'[u] = v => u # t /\ parent[u] = v
    BY <1>5, SlotFacts
  <2>2. \A u \in Slots : pc[u] # "rewake"
    BY <1>1, <1>6 DEF InExit
  <2>3. \A u, v \in Slots : ~(Dozing(v) /\ parent[u] = v /\ state[u] = "ZOMBIE")
    BY <2>2 DEF SleepInv
  <2>4. \A v \in Slots : state'[v] = "SLEEPING" => v # t /\ state[v] = "SLEEPING" /\ chan'[v] = v
    BY <1>5 DEF SleepInv, Dozing
  <2>5. \A v \in Slots : pc'[v] = "sleep_mark" => pc[v] = "sleep_mark"
    BY <1>1 DEF TypeOK
  <2>6. \A v \in Slots : Dozing(v)' => Dozing(v)
    BY <2>4, <2>5 DEF Dozing
  <2>7. ASSUME NEW u \in Slots, NEW v \in Slots, parent'[u] = v
        PROVE  ~(Dozing(v)' /\ state'[u] = "ZOMBIE")
    BY <1>5, <2>1, <2>3, <2>6, <2>7
  <2> QED BY <2>4, <2>7 DEF SleepInv
<1>17. ParentAlive'
  <2>1. \A u \in Slots : u # t /\ parent[u] # None => state'[parent[u]] = state[parent[u]]
    BY <1>2, <1>5, SMTT(30) DEF TypeOK
  <2>2. \A u \in Slots : parent'[u] # None => u # t /\ parent'[u] = parent[u]
    BY <1>5
  <2>3. \A u \in Slots : parent'[u] # None => state'[parent'[u]] \notin {"UNUSED", "USED", "ZOMBIE"}
    BY <2>1, <2>2 DEF ParentAlive
  <2>4. \A u \in Slots : state'[u] \notin {"UNUSED", "USED"} => u # t /\ state'[u] = state[u] /\ parent'[u] = parent[u]
    BY <1>5
  <2> QED BY <2>3, <2>4 DEF ParentAlive
<1>18. InitLives'
  BY <1>2, <1>5, SlotFacts DEF InitLives
<1> QED BY <1>7, <1>8, <1>10, <1>11, <1>12, <1>13, <1>14, <1>15, <1>16, <1>17, <1>18

\* One iteration of wait()'s scan.
LEMMA WaitScanInv ==
  ASSUME Inv, NEW s \in Slots, wait_scan(s)
  PROVE  Inv'
<1>1. /\ pc[s] = "wait_scan" /\ state[s] = "RUNNING" /\ At(s, "wait_scan") /\ wait_lock = s
      /\ UNCHANGED <<lock, nextpid, cpu, resume, wslot, panicked>>
  BY AtRuns, SMTT(30) DEF wait_scan, Inv, WaitLockInv, InWait
<1>2. PICK t \in Slots : t = slot[s]
  BY DEF Inv, TypeOK
<1>3. arg \in [Slots -> Nat] /\ slot \in [Slots -> Slots] /\ 1 \in Slots
  BY SlotFacts DEF Inv, TypeOK
<1>4. CASE /\ ~(parent[t] = s /\ state[t] = "ZOMBIE") /\ LoopTo(s, slot, "wait_test")
           /\ UNCHANGED <<procVars, wait_lock>> /\ arg' \in {arg, [arg EXCEPT ![s] = 1]}
  <2>1. /\ After(t) \in Slots
        /\ t < NPROC => After(t) = t + 1
        /\ ~(t < NPROC) => After(t) = 1 /\ \A u \in Slots : u <= t
    BY AfterSlot
  <2>2. slot' = [slot EXCEPT ![s] = After(t)]
    BY <1>2, <1>4 DEF LoopTo
  <2>3. Goto(s, IF t < NPROC THEN "wait_scan" ELSE "wait_test")
    BY <1>1, <1>2, <1>4 DEF LoopTo
  <2>4. arg' \in [Slots -> Nat] /\ \A u \in Slots : u # s => arg'[u] = arg[u]
    BY <1>3, <1>4, SMTT(30)
  <2>5. slot' \in [Slots -> Slots] /\ slot'[s] = After(t) /\ \A u \in Slots : u # s => slot'[u] = slot[u]
    BY <1>3, <2>1, <2>2
  <2>6. \A u \in Slots : parent[u] = s /\ state[u] = "ZOMBIE" => t <= u /\ u # t
    BY <1>1, <1>2, <1>4 DEF Inv, ScanInv
  <2>7. \A u \in Slots : t <= u /\ u # t => t + 1 <= u
    BY SlotFacts, SMTT(30), SMTT(60)
  <2>8. CASE t < NPROC
    <3>1. Goto(s, "wait_scan")
      BY <2>3, <2>8
    <3> QED BY <1>1, <1>4, <2>1, <2>4, <2>5, <2>6, <2>7, <2>8, <3>1, WaitMovesOn, SMTT(30), SMTT(60) DEF InWait
  <2>9. CASE ~(t < NPROC)
    <3>1. Goto(s, "wait_test")
      BY <2>3, <2>9
    <3>2. \A u \in Slots : ~(parent[u] = s /\ state[u] = "ZOMBIE")
      BY <2>1, <2>6, <2>9, SlotFacts, SMTT(30)
    <3> QED BY <1>1, <1>4, <2>1, <2>4, <2>5, <2>9, <3>1, <3>2, WaitMovesOn, SMTT(30), SMTT(60) DEF InWait
  <2> QED BY <2>8, <2>9
<1>5. CASE /\ parent[t] = s /\ ChildLockFree(t) /\ state[t] = "ZOMBIE"
           /\ freeproc(t) /\ wait_lock' = None /\ Return(s)
  BY <1>1, <1>5, WaitFrees DEF ChildLockFree
<1>6. CASE UNCHANGED procVars /\ wait_lock' = None /\ Return(s)
  <2>1. Goto(s, "trapret") /\ slot'[s] = 1 /\ arg' \in [Slots -> Nat] /\ slot' \in [Slots -> Slots]
        /\ (\A u \in Slots : u # s => arg'[u] = arg[u]) /\ (\A u \in Slots : u # s => slot'[u] = slot[u])
    BY <1>3, <1>6 DEF Return
  <2> QED BY <1>1, <1>6, <2>1, WaitMovesOn, SMTT(30) DEF InWait
<1> QED BY <1>2, <1>4, <1>5, <1>6 DEF wait_scan

\* The end of wait()'s scan.
LEMMA WaitTestInv ==
  ASSUME Inv, NEW s \in Slots, wait_test(s)
  PROVE  Inv'
<1>1. /\ pc[s] = "wait_test" /\ state[s] = "RUNNING" /\ wait_lock = s /\ Where(s) = "wait_test"
      /\ UNCHANGED <<procVars, lock, nextpid, cpu, resume, wslot, panicked>>
  BY AtRuns DEF wait_test, Inv, WaitLockInv, InWait
<1>2. arg \in [Slots -> Nat] /\ slot \in [Slots -> Slots] /\ 1 \in Slots /\ slot[s] = 1
      /\ \A t \in Slots : ~(parent[t] = s /\ state[t] = "ZOMBIE")
  BY <1>1, SlotFacts DEF Inv, TypeOK, LoopInv, ScanInv
<1>3. CASE wait_lock' = None /\ Return(s)
  <2>1. Goto(s, "trapret") /\ slot'[s] = 1 /\ arg' \in [Slots -> Nat] /\ slot' \in [Slots -> Slots]
        /\ (\A u \in Slots : u # s => arg'[u] = arg[u]) /\ (\A u \in Slots : u # s => slot'[u] = slot[u])
    BY <1>2, <1>3 DEF Return
  <2> QED BY <1>1, <1>3, <2>1, WaitMovesOn, SMTT(30) DEF InWait
<1>4. CASE UNCHANGED <<wait_lock, slot, arg>> /\ Goto(s, "wait_sleep")
  BY <1>1, <1>2, <1>4, WaitMovesOn, SMTT(30) DEF InWait
<1> QED BY <1>3, <1>4 DEF wait_test

\* kill() finds its victim: the flag is set and a sleeper made RUNNABLE.
LEMMA KillsInv ==
  ASSUME Inv, NEW s \in Slots, NEW t \in Slots, At(s, "kill_scan"), lock[t] = None,
         killed' = [killed EXCEPT ![t] = 1],
         state' = [state EXCEPT ![t] = IF @ = "SLEEPING" THEN "RUNNABLE" ELSE @], Return(s),
         UNCHANGED <<pid, parent, chan, lock, wait_lock, nextpid, cpu, resume, wslot, panicked>>
  PROVE  Inv'
<1> USE DEF Inv, Return, Goto
<1>1. pc[s] = "kill_scan" /\ state[s] = "RUNNING" /\ OnCpu(s) /\ resume[s] = "user" /\ Where(s) = "kill_scan"
      /\ 1 \in Slots
  BY AtRuns, SlotFacts
<1>2. /\ state' \in [Slots -> ProcStates]
      /\ \A u \in Slots : state'[u] = state[u] \/ (state[u] = "SLEEPING" /\ state'[u] = "RUNNABLE")
  BY DEF TypeOK, ProcStates
<1>3. TypeOK'
  <2>1. pc' \in [Slots -> Labels] /\ slot' \in [Slots -> Slots] /\ arg' \in [Slots -> Nat]
    BY <1>1 DEF TypeOK, Labels, Unlocked
  <2>2. killed' \in [Slots -> {0, 1}]
    BY DEF TypeOK
  <2> QED BY <1>2, <2>1, <2>2 DEF TypeOK
<1>4. CpuInv'
  BY <1>1, <1>2, SMTT(30), SMTT(60) DEF CpuInv, OnCpu, TypeOK
<1>5. (\A u \in Slots : u # s => Where(u)' = Where(u) /\ arg'[u] = arg[u]) /\ Where(s)' = "trapret"
  BY <1>1 DEF Where, TypeOK
<1>6. ResumeInv'
  BY <1>1, <1>2 DEF ResumeInv, TypeOK, Dead
<1>7. ForkInv'
  <2>1. \A u \in Slots : state[u] = "USED" => state'[u] = "USED"
    BY <1>2
  <2> QED BY <1>1, <1>5, <2>1, SMTT(30) DEF ForkInv, InFork
<1>8. LoopInv'
  BY <1>1, <1>5 DEF LoopInv, TypeOK
<1>9. WaitLockInv'
  BY <1>1 DEF WaitLockInv, TypeOK, InExit, InWait
<1>10. ExitInv'
  <2>1. \A u \in Slots : pc[u] \in InExit => parent[u] \in Slots
    BY ExitingHasParent
  <2>2. \A u \in Slots : pc'[u] \in InExit => u # s /\ pc'[u] = pc[u] /\ slot'[u] = slot[u]
    BY <1>1 DEF TypeOK, InExit
  <2>3. \A u \in Slots : state'[u] = "SLEEPING" => state[u] = "SLEEPING"
    BY <1>2
  <2>4. wslot' = wslot /\ parent' = parent
    OBVIOUS
  <2>5. ASSUME NEW u \in Slots, pc'[u] \in InExit
        PROVE  pc'[u] = pc[u] /\ slot'[u] = slot[u] /\ (state'[parent[u]] = "SLEEPING" => state[parent[u]] = "SLEEPING")
    BY <2>1, <2>2, <2>3, <2>5
  <2> QED BY <2>4, <2>5, SMTT(30) DEF ExitInv, InExit, Dozing
<1>11. ScanInv'
  BY <1>1, <1>2, SMTT(30), SMTT(60) DEF ScanInv, TypeOK
<1>12. SleepInv'
  <2>1. \A u \in Slots : pc[u] = "rewake" => pc'[u] = "rewake"
    BY <1>1 DEF TypeOK
  <2> QED BY <1>2, <2>1, SMTT(30), SMTT(60) DEF SleepInv, Dozing
<1>13. ParentAlive' /\ InitLives'
  BY <1>2, SlotFacts, SMTT(30) DEF ParentAlive, InitLives, TypeOK, Dead
<1> QED BY <1>3, <1>4, <1>6, <1>7, <1>8, <1>9, <1>10, <1>11, <1>12, <1>13

\* One iteration of kill()'s loop.
LEMMA KillInv ==
  ASSUME Inv, NEW s \in Slots, kill(s)
  PROVE  Inv'
<1>1. PICK t \in Slots : t = slot[s]
  BY DEF Inv, TypeOK
<1>2. /\ At(s, "kill_scan") /\ lock[t] = None /\ pc[s] = "kill_scan" /\ state[s] = "RUNNING"
      /\ UNCHANGED <<pid, parent, chan, lock, wait_lock, nextpid, cpu, resume, wslot, panicked>>
  BY <1>1, AtRuns DEF kill
<1>3. CASE /\ killed' = [killed EXCEPT ![t] = 1]
           /\ state' = [state EXCEPT ![t] = IF @ = "SLEEPING" THEN "RUNNABLE" ELSE @]
           /\ Return(s)
  BY <1>2, <1>3, KillsInv
<1>4. CASE /\ IF t < NPROC THEN LoopTo(s, slot, "trapret") /\ UNCHANGED arg ELSE Return(s)
           /\ UNCHANGED <<killed, state>>
  <2>1. arg \in [Slots -> Nat] /\ slot \in [Slots -> Slots] /\ 1 \in Slots /\ After(t) \in Slots
        /\ killed' \in [Slots -> {0, 1}] /\ nextpid' \in Nat
    BY <1>2, <1>4, AfterSlot, SlotFacts DEF Inv, TypeOK
  <2>2. arg' \in [Slots -> Nat] /\ \A u \in Slots : u # s => arg'[u] = arg[u]
    BY <1>4, <2>1, SMTT(30) DEF Return
  <2>3. slot' = [slot EXCEPT ![s] = IF t < NPROC THEN After(t) ELSE 1]
    BY <1>1, <1>4 DEF LoopTo, Return
  <2>4. slot'[s] \in Slots /\ slot' = [slot EXCEPT ![s] = slot'[s]] /\ (~(t < NPROC) => slot'[s] = 1)
    BY <2>1, <2>3
  <2>5. Goto(s, IF t < NPROC THEN "kill_scan" ELSE "trapret")
    BY <1>1, <1>2, <1>4 DEF LoopTo, Return
  <2>6. CASE t < NPROC
    <3>1. Goto(s, "kill_scan")
      BY <2>5, <2>6
    <3> QED BY <1>2, <1>4, <2>1, <2>2, <2>4, <3>1, MovesOn
  <2>7. CASE ~(t < NPROC)
    <3>1. Goto(s, "trapret")
      BY <2>5, <2>7
    <3> QED BY <1>2, <1>4, <2>1, <2>2, <2>4, <2>7, <3>1, MovesOn
  <2> QED BY <2>6, <2>7
<1> QED BY <1>1, <1>3, <1>4 DEF kill
\* Every step keeps the invariant.
LEMMA NextInv == Inv /\ [Next]_vars => Inv'
<1> SUFFICES ASSUME Inv, [Next]_vars PROVE Inv'
  OBVIOUS
<1>1. CASE UNCHANGED vars
  <2> USE <1>1 DEF vars, procVars, localVars, Inv
  <2>1. TypeOK' /\ ParentAlive' /\ InitLives'
    BY DEF TypeOK, ParentAlive, InitLives
  <2>2. CpuInv' /\ ResumeInv'
    BY DEF CpuInv, OnCpu, ResumeInv
  <2>3. ForkInv' /\ LoopInv'
    BY DEF ForkInv, LoopInv, Where
  <2>4. WaitLockInv' /\ ExitInv'
    BY DEF WaitLockInv, ExitInv, Dozing
  <2>5. ScanInv' /\ SleepInv'
    BY DEF ScanInv, SleepInv, Dozing
  <2> QED BY <2>1, <2>2, <2>3, <2>4, <2>5
<1>2. ASSUME NEW c \in CPUs, scheduler(c)
      PROVE  Inv'
  BY <1>2, SwitchToInv DEF scheduler
<1>3. ASSUME NEW c \in CPUs, SwitchedBack(c)
      PROVE  Inv'
  BY <1>3, SwitchedBackInv
<1>4. ASSUME NEW s \in Slots, Resumed(s) \/ yield(s) \/ sleep(s) \/ sleep_mark(s)
      PROVE  Inv'
  BY <1>4, ResumedInv, YieldInv, SleepStepInv, SleepMarkInv
<1>5. ASSUME NEW s \in Slots, usertrap(s) \/ Fault(s) \/ TrapReturn(s)
      PROVE  Inv'
  BY <1>5, TrapInv
<1>6. ASSUME NEW s \in Slots, allocproc(s) \/ fork_copy(s) \/ fork_parent(s) \/ fork_run(s)
      PROVE  Inv'
  BY <1>6, AllocprocInv, ForkCopyInv, ForkParentInv, ForkRunInv
<1>7. ASSUME NEW s \in Slots, exit(s) \/ reparent(s) \/ rewake(s) \/ exit_wake(s) \/ exit_zombie(s)
      PROVE  Inv'
  BY <1>7, ExitStepInv, ReparentInv, RewakeInv, ExitWakeInv, ExitZombieInv
<1>8. ASSUME NEW s \in Slots, wait(s) \/ wait_scan(s) \/ wait_test(s) \/ kill(s)
      PROVE  Inv'
  BY <1>8, WaitInv, WaitScanInv, WaitTestInv, KillInv
<1> QED BY <1>1, <1>2, <1>3, <1>4, <1>5, <1>6, <1>7, <1>8 DEF Next, KernelStep

\* The inductive invariant of the process table.
THEOREM ProcInvariant == Spec => []Inv
<1> QED BY InitInv, NextInv, PTL DEF Spec
------------------------------------------------------------------------------
\* No two CPUs are ever on one kernel stack, and the process of a CPU runs or
\* has its lock held for it: scheduler() and sched() hand p->lock over.
THEOREM OneCpuPerStack == Spec => []StackOwned
<1>1. Inv => StackOwned
  <2> SUFFICES ASSUME Inv, NEW c \in CPUs, cpu[c] # None
               PROVE  state[cpu[c]] = "RUNNING" \/ lock[cpu[c]] = cpu[c]
    BY DEF Inv, StackOwned, CpuInv
  <2>1. PICK s \in Slots : s = cpu[c]
    BY DEF Inv, TypeOK
  <2> QED BY <2>1 DEF Inv, CpuInv, OnCpu
<1> QED BY <1>1, ProcInvariant, PTL

\* allocproc() never gets, and wait() never frees, a slot whose kernel stack a
\* CPU still runs on.
THEOREM FreeSlotsIdle == Spec => []FreeSlotIdle
<1>1. Inv => FreeSlotIdle
  BY DEF Inv, FreeSlotIdle, CpuInv
<1> QED BY <1>1, ProcInvariant, PTL

\* Whenever wait_lock is free, no process sleeps in wait() with a child that has
\* exited: the wakeups of exit() and reparent() are never lost.
THEOREM NoExitMissed == Spec => []NoMissedExit
<1>1. Inv => NoMissedExit
  <2> SUFFICES ASSUME Inv, wait_lock = None PROVE NoMissedExit
    BY DEF NoMissedExit
  <2>1. \A u \in Slots : pc[u] # "rewake"
    BY SlotFacts DEF Inv, WaitLockInv, InExit
  <2> QED BY <2>1 DEF NoMissedExit, Inv, SleepInv, Dozing
<1> QED BY <1>1, ProcInvariant, PTL

\* Every process but init has a parent, and a parent has not exited: reparent()
\* leaves no child behind and fork() adds none to a process in exit().
THEOREM ParentsLive == Spec => []ParentAlive
<1> QED BY ProcInvariant, PTL DEF Inv
==============================================================================
