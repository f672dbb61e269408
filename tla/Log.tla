--------------------------------- MODULE Log ---------------------------------
(***************************************************************************)
(* The redo log of kernel/log.c: begin_op(), log_write(), end_op(), the    *)
(* commit one disk write at a time, a crash between any two steps, and     *)
(* recovery at boot, which a crash may interrupt as well.                  *)
(*                                                                         *)
(* Each section of code under log.lock is one action, and so is each disk  *)
(* write: virtio_disk_rw() returns only when the block is on the disk.     *)
(* The buffer cache appears as what the log relies on: a block's cached    *)
(* content, who holds its buffer, and a pin count without which bget() may *)
(* recycle the buffer.  Blocks of the log area itself are read and written *)
(* through to the disk.                                                    *)
(*                                                                         *)
(* Callers are assumed to do what log.c:205-213 asks of them: a buffer     *)
(* that was changed is given to log_write() before it is released, so the  *)
(* two are one step here.  One caller does not: writei() whose copy from   *)
(* user memory fails half way (fs.c:522-525), which FileData models.       *)
(***************************************************************************)
EXTENDS Integers, Sequences, FiniteSets

CONSTANTS
    Procs,        \* kernel threads that make file system calls
    Blocks,       \* home block numbers
    Vals,         \* contents of a block
    Zero,         \* content of every block of the image mkfs writes
    LOGSIZE,      \* param.h: entries of a log header
    MAXOPBLOCKS,  \* param.h: blocks a call reserves
    LogBlocks,    \* superblock nlog: blocks of the log area, header included
    OpWrites,     \* distinct blocks a call really writes
    MaxCrashes,   \* bound: crashes explored
    NoBlock,      \* no buffer held
    NotCached     \* no buffer holds the block

ASSUME LogAssumption ==
    /\ Zero \in Vals /\ NotCached \notin Vals /\ NoBlock \notin Blocks
    /\ LOGSIZE \in Nat /\ MAXOPBLOCKS \in 1 .. LOGSIZE /\ LogBlocks \in Nat
    /\ OpWrites \in Nat /\ MaxCrashes \in Nat /\ IsFiniteSet(Procs)

VARIABLES
    disk,         \* home blocks on the disk
    dlog,         \* data blocks of the log area on the disk
    dhead,        \* header block on the disk: block numbers, n = Len(dhead)
    cache,        \* cached content of each home block
    pin,          \* references bpin() holds on each home block's buffer
    lh,           \* log.lh in memory
    outstanding,  \* log.outstanding
    committing,   \* log.committing
    pc,           \* where each thread is
    buf,          \* the home block whose buffer a thread holds
    wrote,        \* distinct blocks the thread's current call has logged
    stage,        \* what commit() or recovery does next
    tail,         \* its loop index, from 1
    panicked,     \* the message of the panic() that stopped the kernel
    crashes

diskVars == <<disk, dlog, dhead>>
logVars == <<lh, outstanding, committing>>
threadVars == <<pc, buf, wrote>>
commitVars == <<stage, tail>>
vars == <<diskVars, cache, pin, logVars, threadVars, commitVars, panicked, crashes>>

Slots == 1 .. LogBlocks - 1
Logged == {lh[i] : i \in DOMAIN lh}
InOp == {"op", "hold", "logged"}
Stages == {"boot", "recover_install", "recover_erase", "none", "write_log",
           "write_head", "install", "erase", "done"}
Up == stage \notin {"boot", "recover_install", "recover_erase"}

\* A stopped kernel takes no step.
Running == panicked = "no"

TypeOK ==
    /\ disk \in [Blocks -> Vals]
    /\ dlog \in [Slots -> Vals]
    /\ dhead \in Seq(Blocks)
    /\ cache \in [Blocks -> Vals \cup {NotCached}]
    /\ pin \in [Blocks -> Nat]
    /\ lh \in Seq(Blocks)
    /\ outstanding \in Nat
    /\ committing \in {0, 1}
    /\ pc \in [Procs -> {"idle", "begin", "sleeping", "commit"} \cup InOp]
    /\ buf \in [Procs -> Blocks \cup {NoBlock}]
    /\ wrote \in [Procs -> SUBSET Blocks]
    /\ stage \in Stages
    /\ tail \in Nat \ {0}
    /\ panicked \in {"no", "log.committing", "too big a transaction",
                     "log_write outside of trans"}
    /\ crashes \in Nat

Init ==
    /\ disk = [b \in Blocks |-> Zero]
    /\ dlog = [i \in Slots |-> Zero]
    /\ dhead = <<>>
    /\ cache = [b \in Blocks |-> NotCached]
    /\ pin = [b \in Blocks |-> 0]
    /\ lh = <<>>
    /\ outstanding = 0
    /\ committing = 0
    /\ pc = [p \in Procs |-> "idle"]
    /\ buf = [p \in Procs |-> NoBlock]
    /\ wrote = [p \in Procs |-> {}]
    /\ stage = "boot"
    /\ tail = 1
    /\ panicked = "no"
    /\ crashes = 0
------------------------------------------------------------------------------
\* Mutants: home blocks written before the header; header never erased.
Then_InstallFirst ==
    [write_log |-> "install", install |-> "write_head", write_head |-> "erase",
     erase |-> "done", boot |-> "recover_install",
     recover_install |-> "recover_erase", recover_erase |-> "none"]
Then_NoErase ==
    [write_log |-> "write_head", write_head |-> "install", install |-> "done",
     boot |-> "recover_install", recover_install |-> "recover_erase",
     recover_erase |-> "none"]

\* The order of the disk writes of commit() and of recover_from_log().
Then ==
    [write_log |-> "write_head", write_head |-> "install",
     install |-> "erase", erase |-> "done",
     boot |-> "recover_install", recover_install |-> "recover_erase",
     recover_erase |-> "none"]

\* Mutant: nobody is woken.
wakeup_None(m) == m

\* wakeup(&log): every sleeper goes back to the test in begin_op().
wakeup(m) == [p \in Procs |-> IF m[p] = "sleeping" THEN "begin" ELSE m[p]]

\* Mutant: the caller's own reservation is forgotten.
LogFull_NotOwn == Len(lh) + outstanding * MAXOPBLOCKS > LOGSIZE

\* Would one more call of MAXOPBLOCKS blocks overrun the log?
LogFull == Len(lh) + (outstanding + 1) * MAXOPBLOCKS > LOGSIZE

begin_op(p) ==
    /\ Running /\ Up
    /\ pc[p] \in {"idle", "begin"}
    /\ IF committing = 1 \/ LogFull
       THEN /\ pc' = [pc EXCEPT ![p] = "sleeping"]
            /\ UNCHANGED <<outstanding, wrote>>
       ELSE /\ pc' = [pc EXCEPT ![p] = "op"]
            /\ outstanding' = outstanding + 1
            /\ wrote' = [wrote EXCEPT ![p] = {}]
    /\ UNCHANGED <<diskVars, cache, pin, lh, committing, buf, commitVars,
                   panicked, crashes>>

\* bread(): the buffer's sleep-lock is taken, a block that is not cached is
\* read from its home location.
bread(p, b) ==
    /\ Running
    /\ pc[p] = "op"
    /\ \A q \in Procs : buf[q] # b
    /\ pc' = [pc EXCEPT ![p] = "hold"]
    /\ buf' = [buf EXCEPT ![p] = b]
    /\ cache' = [cache EXCEPT ![b] = IF @ = NotCached THEN disk[b] ELSE @]
    /\ UNCHANGED <<diskVars, pin, logVars, wrote, commitVars, panicked, crashes>>

\* The test that stops the kernel rather than overrun the log.
TooBig == Len(lh) >= LOGSIZE \/ Len(lh) >= LogBlocks - 1

\* log.lh after log_write(b): a block already in the log is absorbed.
Absorb(b) == IF b \in Logged THEN lh ELSE Append(lh, b)

\* Mutant: log_write() does not pin.
PinLogged_Never(b) == pin

\* bpin() in log_write(): one reference per block of the transaction.
PinLogged(b) == [pin EXCEPT ![b] = IF b \in Logged THEN @ ELSE @ + 1]

\* The caller's change to the buffer it holds, and log_write() of it.
log_write(p, v) ==
    /\ Running
    /\ pc[p] = "hold"
    /\ LET b == buf[p] IN
       /\ Cardinality(wrote[p] \cup {b}) <= OpWrites
       /\ cache' = [cache EXCEPT ![b] = v]
       /\ IF TooBig \/ outstanding < 1
          THEN /\ panicked' = IF TooBig THEN "too big a transaction"
                                        ELSE "log_write outside of trans"
               /\ UNCHANGED <<pin, lh, pc, wrote>>
          ELSE /\ lh' = Absorb(b)
               /\ pin' = PinLogged(b)
               /\ pc' = [pc EXCEPT ![p] = "logged"]
               /\ wrote' = [wrote EXCEPT ![p] = @ \cup {b}]
               /\ UNCHANGED panicked
    /\ UNCHANGED <<diskVars, outstanding, committing, buf, commitVars, crashes>>

\* brelse(), after a log_write() or after only reading.
brelse(p) ==
    /\ Running
    /\ pc[p] \in {"hold", "logged"}
    /\ pc' = [pc EXCEPT ![p] = "op"]
    /\ buf' = [buf EXCEPT ![p] = NoBlock]
    /\ UNCHANGED <<diskVars, cache, pin, logVars, wrote, commitVars, panicked, crashes>>

\* bget() gives a buffer nobody refers to to another block.
Recycle(b) ==
    /\ Running
    /\ cache[b] # NotCached
    /\ pin[b] = 0
    /\ \A p \in Procs : buf[p] # b
    /\ cache' = [cache EXCEPT ![b] = NotCached]
    /\ UNCHANGED <<diskVars, pin, logVars, threadVars, commitVars, panicked, crashes>>

\* The section of end_op() that decides who commits.
end_op(p) ==
    /\ Running
    /\ pc[p] = "op"
    /\ outstanding' = outstanding - 1
    /\ IF committing = 1
       THEN /\ panicked' = "log.committing"
            /\ UNCHANGED <<pc, committing, stage, tail>>
       ELSE /\ IF outstanding = 1
               THEN /\ committing' = 1
                    /\ pc' = [pc EXCEPT ![p] = "commit"]
                    /\ stage' = IF lh = <<>> THEN "done" ELSE "write_log"
                    /\ tail' = 1
               ELSE /\ pc' = wakeup([pc EXCEPT ![p] = "idle"])
                    /\ UNCHANGED <<committing, stage, tail>>
            /\ UNCHANGED panicked
    /\ UNCHANGED <<diskVars, cache, pin, lh, buf, wrote, crashes>>
------------------------------------------------------------------------------
(***************************************************************************)
(* commit(), run by the thread whose end_op() was the last.                *)
(***************************************************************************)
\* What bread() of a home block returns to the log.
Content == [b \in Blocks |-> IF cache[b] = NotCached THEN disk[b] ELSE cache[b]]

\* One iteration of write_log().
write_log ==
    /\ Running
    /\ stage = "write_log"
    /\ dlog' = [dlog EXCEPT ![tail] = Content[lh[tail]]]
    /\ cache' = [cache EXCEPT ![lh[tail]] = Content[lh[tail]]]
    /\ IF tail < Len(lh)
       THEN tail' = tail + 1 /\ UNCHANGED stage
       ELSE tail' = 1 /\ stage' = Then[stage]
    /\ UNCHANGED <<disk, dhead, pin, logVars, threadVars, panicked, crashes>>

\* write_head() with n > 0: the commit point.
write_head ==
    /\ Running
    /\ stage = "write_head"
    /\ dhead' = lh
    /\ stage' = Then[stage]
    /\ UNCHANGED <<disk, dlog, cache, pin, logVars, threadVars, tail, panicked, crashes>>

\* Mutant: commit() never unpins.
Unpinned_Never(b) == pin

\* bunpin() in install_trans(recovering), for the block just installed.
Unpinned(b) == IF stage = "install" THEN [pin EXCEPT ![b] = @ - 1] ELSE pin

\* One iteration of install_trans(); recovery may find nothing to install.
install_trans ==
    /\ Running
    /\ stage \in {"install", "recover_install"}
    /\ tail <= Len(lh)
    /\ disk' = [disk EXCEPT ![lh[tail]] = dlog[tail]]
    /\ cache' = [cache EXCEPT ![lh[tail]] = dlog[tail]]
    /\ pin' = Unpinned(lh[tail])
    /\ tail' = tail + 1
    /\ UNCHANGED <<dlog, dhead, logVars, threadVars, stage, panicked, crashes>>

\* install_trans() returns: lh.n = 0.
Installed ==
    /\ Running
    /\ stage \in {"install", "recover_install"}
    /\ tail > Len(lh)
    /\ lh' = <<>>
    /\ stage' = Then[stage]
    /\ tail' = 1
    /\ UNCHANGED <<diskVars, cache, pin, outstanding, committing, threadVars, panicked, crashes>>

\* write_head() with n = 0: the transaction is erased from the log.
EraseHead ==
    /\ Running
    /\ stage \in {"erase", "recover_erase"}
    /\ dhead' = lh
    /\ stage' = Then[stage]
    /\ UNCHANGED <<disk, dlog, cache, pin, logVars, threadVars, tail, panicked, crashes>>

\* The end of end_op() of the thread that committed.
EndCommit(p) ==
    /\ Running
    /\ stage = "done"
    /\ pc[p] = "commit"
    /\ committing' = 0
    /\ stage' = "none"
    /\ pc' = wakeup([pc EXCEPT ![p] = "idle"])
    /\ UNCHANGED <<diskVars, cache, pin, lh, outstanding, buf, wrote, tail, panicked, crashes>>
------------------------------------------------------------------------------
\* A power failure keeps the disk and loses the memory.
Crash ==
    /\ crashes < MaxCrashes
    /\ crashes' = crashes + 1
    /\ cache' = [b \in Blocks |-> NotCached]
    /\ pin' = [b \in Blocks |-> 0]
    /\ lh' = <<>>
    /\ outstanding' = 0
    /\ committing' = 0
    /\ pc' = [p \in Procs |-> "idle"]
    /\ buf' = [p \in Procs |-> NoBlock]
    /\ wrote' = [p \in Procs |-> {}]
    /\ stage' = "boot"
    /\ tail' = 1
    /\ panicked' = "no"
    /\ UNCHANGED diskVars

\* initlog() at boot reads the header the crash left.
read_head ==
    /\ Running
    /\ stage = "boot"
    /\ lh' = dhead
    /\ tail' = 1
    /\ stage' = Then[stage]
    /\ UNCHANGED <<diskVars, cache, pin, outstanding, committing, threadVars, panicked, crashes>>

CommitStep ==
    \/ write_log \/ write_head \/ install_trans \/ Installed \/ EraseHead
    \/ read_head

Next ==
    \/ \E p \in Procs : begin_op(p) \/ brelse(p) \/ end_op(p) \/ EndCommit(p)
    \/ \E p \in Procs, b \in Blocks : bread(p, b)
    \/ \E p \in Procs, v \in Vals : log_write(p, v)
    \/ \E b \in Blocks : Recycle(b)
    \/ CommitStep
    \/ Crash

Spec == Init /\ [][Next]_vars
------------------------------------------------------------------------------
(***************************************************************************)
(* Properties                                                              *)
(***************************************************************************)
\* The home blocks as recovery would leave them if the power failed now.
AfterRecovery ==
    [b \in Blocks |-> IF \E i \in DOMAIN dhead : dhead[i] = b
                     THEN dlog[CHOOSE i \in DOMAIN dhead : dhead[i] = b]
                     ELSE disk[b]]

\* The home blocks as a call that reads them now finds them.
Current == IF Up THEN Content ELSE AfterRecovery

\* The calls between begin_op() and end_op().
Active == {p \in Procs : pc[p] \in InOp}

\* log.c implements TxDisk: whatever the interleaving of calls, commits,
\* crashes and interrupted recoveries, calls are committed in whole groups
\* and a crash leaves exactly the last group committed.
Promise == INSTANCE TxDisk WITH
    durable <- AfterRecovery,
    current <- Current,
    active <- Active
Atomic == Promise!Spec

\* begin_op()'s reservation keeps log_write() and end_op() away from their
\* panics.
NoPanic == Running

\* A block whose cached content is not on the disk yet is in the log and
\* pinned, so that bget() cannot drop the only copy of it.
DirtyIsPinned ==
    Running => \A b \in Blocks : cache[b] \notin {NotCached, disk[b]} =>
                                     b \in Logged /\ pin[b] > 0

\* log_write() and install_trans() balance: a block has one pin from the time
\* it enters the log until it is installed, and none otherwise, so absorption,
\* commits and crashes leak no buffer.
PinsBalance ==
    \A b \in Blocks :
        pin[b] = IF Up /\ \E i \in DOMAIN lh : lh[i] = b
                          /\ (stage = "install" => i >= tail)
                 THEN 1 ELSE 0

\* When no call runs and no commit is under way, everything written is in its
\* home location and the log on the disk is empty: the last end_op() returns
\* only after its group is durable.
QuietIsDurable ==
    Running /\ stage = "none" /\ outstanding = 0 =>
        /\ lh = <<>> /\ dhead = <<>>
        /\ Content = disk

\* The inductive invariant: how far commit() or recovery has come, said by the
\* relation between log.lh, the log on the disk and the home blocks.
NoDup(s) == \A i, j \in DOMAIN s : s[i] = s[j] => i = j
HeadersFit ==
    /\ NoDup(lh) /\ NoDup(dhead)
    /\ DOMAIN lh \subseteq Slots /\ DOMAIN dhead \subseteq Slots
CallsCounted ==
    /\ outstanding = Cardinality(Active)
    /\ \A p \in Procs : pc[p] = "hold" => buf[p] \in Blocks
    /\ committing = 1 <=> stage \in {"write_log", "write_head", "install", "erase", "done"}
    /\ ~Up \/ committing = 1 => outstanding = 0
Progress ==
    /\ stage \in {"boot", "recover_erase", "erase", "done"} => lh = <<>>
    /\ stage = "none" /\ outstanding = 0 => lh = <<>>
    /\ stage \in {"none", "write_log", "write_head", "done"} => dhead = <<>>
    /\ stage \in {"install", "recover_install"} => lh = dhead
    /\ stage = "write_log" => tail \in DOMAIN lh
    /\ stage = "write_head" => tail = 1
    /\ \A i \in DOMAIN lh :
          \/ stage = "write_log" /\ i < tail
          \/ stage \in {"write_head", "install"}
          => dlog[i] = Content[lh[i]]
    /\ stage \in {"install", "recover_install"} =>
          \A i \in DOMAIN lh : i < tail => disk[lh[i]] = dlog[i]
    /\ stage \in {"erase", "recover_erase"} =>
          \A i \in DOMAIN dhead : disk[dhead[i]] = dlog[i]
LogInv ==
    TypeOK /\ HeadersFit /\ CallsCounted /\ Progress /\ DirtyIsPinned /\ PinsBalance

\* The blocks that the calls under way may still log; how many each call has
\* logged, all of them in log.lh; and the most that log.lh can then hold.
Room == {x \in Active \X (1 .. OpWrites) : x[2] > Cardinality(wrote[x[1]])}
RoomInv ==
    /\ \A p \in Active : IsFiniteSet(wrote[p]) /\ wrote[p] \subseteq Logged /\ Cardinality(wrote[p]) <= OpWrites
    /\ outstanding > 0 =>
          \/ Len(lh) + Cardinality(Room) <= OpWrites
          \/ Len(lh) + Cardinality(Room) + 2 * (MAXOPBLOCKS - OpWrites) <= LOGSIZE

\* What a call may write for begin_op()'s test to keep log_write() away from
\* "too big a transaction".  log_write() makes its own test before it looks
\* for the block in log.lh, so a full log stops even a call that logs a block
\* again: MAXOPBLOCKS distinct blocks are one too many.
OpsFit ==
    /\ OpWrites < MAXOPBLOCKS /\ OpWrites < LogBlocks - 1
    /\ LOGSIZE - 2 * (MAXOPBLOCKS - OpWrites) < LogBlocks - 1

\* A home block is overwritten on the disk only with the content that the
\* header on the disk already commits it to (the write-ahead rule).
WriteAhead ==
    [][\A b \in Blocks : disk'[b] # disk[b] =>
            \E i \in DOMAIN dhead : dhead[i] = b /\ dlog[i] = disk'[b]]_vars

\* No wakeup is lost: while a thread sleeps in begin_op(), a commit is under
\* way or another call is, and the end of either wakes it.
SleeperHasWaker ==
    \A p \in Procs : pc[p] = "sleeping" => committing = 1 \/ outstanding > 0
==============================================================================
