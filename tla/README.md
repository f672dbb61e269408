# Verification of the xv6 kernel

This directory is a TLA+ development beside the kernel under `src/kernel`: modules
that follow its C code, TLC configurations that check them on small instances, and
TLAPS proofs of the most important results for every instance. `PROJECT.json`
lists the runs, the source lines of every definition, the hazards each property
is aimed at, and a mutant for every checked property.

## The system

xv6 is a small Unix for a multiprocessor. Several CPUs run kernel code at the same
time; a process in the kernel can be preempted, can sleep, and can be killed by
another process while it does; devices work in parallel with all of them; power
may fail at any moment. Its parts, what they hold and what is hard about them:

| Part | State | Operations | Hard behaviours |
|---|---|---|---|
| Write-ahead log (`log.c`) | header in memory and on disk, log blocks, calls in progress | `begin_op`, `log_write`, `end_op`, commit, recovery | crash at any write, also during recovery; group commit; space for calls not yet made |
| Buffer cache, sleep locks (`bio.c`, `sleeplock.c`) | buffers in LRU order, refcnt, owner | `bget`, `bread`, `bwrite`, `brelse`, `bpin`, `bunpin` | two processes miss the same block; a buffer is recycled under a waiter |
| Disk driver (`virtio_disk.c`) | descriptors, two rings, interrupt | `virtio_disk_rw`, `virtio_disk_intr` | device answers out of order and while the handler runs; descriptors run out; indices wrap |
| Inode table, links (`fs.c`, `sysfile.c`) | table entries, dinodes, directory | `iget`, `ilock`, `iput`, `ialloc`, create, link, unlink | last reference dropped while the number is reused; link count read without the lock |
| Block allocation, file contents (`fs.c`, `file.c`) | bitmap, block maps, size, offset | `balloc`, `bfree`, `bmap`, `itrunc`, `readi`, `writei`, `filewrite` | disk full or a bad address half way through a write; a crash between two parts of one; reservation of log space |
| Directories, path names (`fs.c`, `sysfile.c`) | directory entries, `..` | `dirlookup`, `dirlink`, `namex`, mkdir, rmdir | lock order between directories; removed directories that are still in use |
| Open files, descriptors (`file.c`, `sysfile.c`) | file table, `ofile` | open, dup, pipe, close, fork, exit | shared references; calls that fail half way; stale fields of reused entries |
| Pipes (`pipe.c`) | ring, read and write counters, open ends | `pipewrite`, `piperead`, `pipeclose` | full and empty at wrap-around; a sleeper whose partner leaves or is killed |
| Processes, scheduling (`proc.c`, `trap.c`) | process table, CPUs, `wait_lock` | fork, exit, wait, kill, sleep, wakeup, yield, scheduler | lost wakeups; stack used by two CPUs; parent exits while the child does |
| Console and UART (`console.c`, `uart.c`) | input ring, transmit ring | read, write, interrupt | ring full in the middle of a line; line editing while a reader reads |
| Memory (`kalloc.c`, `vm.c`, `exec.c`) | free list, page tables | alloc, map, copy, grow, exec | out of memory half way; who owns a page; sizes that wrap |
| `mkfs` | the disk image | layout of the first disk | what it leaves for the kernel to find |
| Clock (`trap.c`, `sysproc.c`) | `ticks` | tick, sleep, uptime | wrap-around; signed against unsigned |
| Spin locks (`spinlock.c`) | `noff`, `intena` | acquire, release | nesting with interrupts |
| User programs (`user/`) | | malloc, shell parser, grep | sequential algorithms |

A file system call goes through open files, inodes, the log, the buffer cache and
the driver; all of them sleep and wake through the process module. Each module
takes the layer below by what it promises: the log models the cache as "a block
may be evicted when nobody holds or pins it" (which `Bcache` justifies by
`RefsCounted`), the cache models the driver as a read or
write of one block (which `VirtioDisk` justifies by `DmaSafe`), `FileData` and
`FileTree` take an inode to be what table and disk agree on (`EntriesCurrent` of
`Inode`) and an operation to commit as a whole (`Atomic` of `Log`), the pipe, the
console and the others model sleep and wakeup as "the sleeper goes back to its test" (which `Proc`
justifies by `NoMissedExit`, the lost-wakeup property of the same `sleep` code).

## Conventions

- A section of code that takes a spin lock, uses what it protects and releases it
  is one action, which needs the lock free. A lock held for longer is a variable.
- A loop over a table takes one step per entry where others can come in between.
- Process-local work between two shared steps belongs to the first of them.
- A local variable that is no longer used goes back to its first value, so that
  states that differ only in it are one.
- `panicked` records a call of `panic()`; nothing happens after it.
- `TypeOK` is a conjunct of one checked invariant of each module (`LogInv`, `StackOwned`,
  `RefsCounted`, `RingHoldsStream`, `ChainsPartition`, `LinksCounted`, `BlocksOwned`,
  `TreeShape`, `ConsoleNotStuck`). In `Memory`, `PagesAccounted` and `SizeIsMapped` say as much.
- An operator with a suffix, such as `Closed_Typed` next to `Closed`, is a plausible
  bug in the code of that operator. A mutant puts it in place of the operator to
  show that a property would notice.
- Constants such as `MaxCrashes` or `MaxKills` are bounds that the code does not have.

## Modules

**TxDisk** is what the log promises: a disk whose durable content changes only by
all the writes of a group of finished calls at once, and falls back to it on a crash.

**Log** models `log.c`. Disk: home blocks `disk`, log blocks `dlog`, header `dhead`.
Memory: the buffer cache `cache` with pins `pin`, the header `lh`, `outstanding`,
`committing`, and each thread's place in a call. `begin_op`, `bread`, `log_write`,
`brelse`, `end_op` are the calls; `commit()` is `write_log`, `write_head`,
`install_trans`, `Installed`, `EraseHead`, `EndCommit`, one step per disk write, so
that `Crash` may come between any two; `read_head` begins recovery, which shares
the install and erase steps. `Recycle` is an eviction by the cache. Changing a buffer and
giving it to `log_write()` are one step: that a caller does so before it releases the
buffer is the contract at the head of `log.c`, which is assumed. One caller breaks it,
`writei()` when its copy fails; `FileData` models that. The refinement mapping to `TxDisk`
takes the durable disk to be `disk` overwritten by the log blocks that the header
on disk names.

**Proc** models `proc.c` with the parts of `trap.c` that decide when a process is
killed or preempted. The process table (`state`, `pid`, `parent`, `killed`, `chan`),
the lock of each entry, `wait_lock`, the process on each CPU, and a program counter
for each kernel stack. `SwitchTo`/`SwitchedBack` are the two halves of `scheduler()`
around `swtch()`, in which `p->lock` passes from one thread to the other. `fork`,
`exit`, `wait` are split wherever they release a lock. `sleep` takes `p->lock` and gives
up `wait_lock` in one step and marks the process SLEEPING in the next (`sleep_mark`), so
that an `exit()` may come in between and find the process still running, but locked.
`yield` is a timer interrupt wherever interrupts are on; a process that `Spins` for a
lock has them off.

**Bcache** models `bio.c` and the sleep lock of a buffer; **BlockStore** is what it
promises: each block has one content, readers see the last write. `bget` finds or
recycles under `bcache.lock`, then takes the sleep lock; the LRU list is a sequence.
That callers write or log what they have changed before `brelse()` (`WrittenOrLogged`) is the
usage rule at the head of `bio.c`; it is assumed of them, and nothing in `brelse()` tests it.

**VirtioDisk** models `virtio_disk.c`, and the device as an external component that
reads the available ring, finishes chains in any order, writes the used ring and
raises the interrupt, also while the driver holds its lock. The entry of the ring
and the index are written in two steps, as the barrier between them suggests.
`kill` may wake a process that waits for the disk.

**Pipe** models `pipe.c`: counters that wrap (at `Wrap`, for 2^32), a ring of
`PIPESIZE`, bytes numbered in the order they were written, readers and writers that
close their end or are killed, `copyin`/`copyout` that may fail.

**FileTable** models the reference counts of `file.c` under open, dup, pipe, close,
fork and exit. `todo[p]` is the rest of the call that process `p` executes; a failing
call appends what it has to undo. `fork` and `exit` come to one descriptor per step (`fork_dup`,
`exit_close`), with other calls in between. `exit()` clears a descriptor after `fileclose()`;
the model clears it before, and the reference is from then on the pending step's, which only
the process itself could tell apart. A pipe is its page and the ends still open, the
inode that open finds is its number of references.

**Inode** models the inode table of `fs.c` with create, link, unlink, lookup and use
of files in one directory. `iput()` is four steps: the test under `itable.lock`, the
free on disk, the unlock, the drop of the reference.

**FileData** models file contents: the bitmap, the inodes with their direct and
indirect blocks, and the words of each block, in memory and as the log has committed
them. `sys_open` with `O_TRUNC` and creation, `fileread` and `filewrite` (cut into
operations of `MaxWrite` words) run as the code does, block by block: `bmap_alloc`
allocates what is missing, `copy` moves one part, `copy_fails` is `either_copyin()` or
`either_copyout()` meeting a bad address half way, `finish` the size and `iupdate()`,
`itrunc` one block at a time. `evict` drops a buffer that is not pinned, `Crash` goes back
to the committed state. **MkFs** computes the image that `mkfs` writes for files of
given lengths, as functions that follow `mkfs.c` (`wsect`, `winode`, `iappend`, the
root's entries and size, the bitmap); the initial disk of `FileData` is such an image.

**FileTree** models directories and paths. An inode has its type, `nlink`, and entries
including `.` and `..`; a process its current directory and one open file. `namex` walks one
element per step, locking one inode at a time; `unlink` and `create` keep the directory
locked while they lock what is in it; `link` counts, walks again, then makes the entry or
takes the count back. `ialloc()` may find any free inode, and every `dirlink()` may find the
disk full. `iput()` frees an inode in one step and drops its reference in the next, so that
its number may be reused in between. Three pieces of history, which no step looks at, say
what went before: `lost` counts the names that went with a removed directory, `reused` are
the inodes allocated while a reference to their predecessor was left, and `strayed` tells
that a `..` was followed whose directory is gone. `TreeShape` allows a panic only after the
last.

**Memory** models `kalloc.c`, `vm.c`, `exec.c` and the parts of `proc.c` that own pages.
Pages are numbers; a page holds words, which are page table entries in a table and data
elsewhere, and there are three levels of tables as in the code. Each C function is an
operator on a record that carries the memory, the result and whether it succeeded; `AndThen`
and `OrElse` chain them as the code's early returns and `goto bad` do. A call may find no
page after any number of them (`left`), as other CPUs take pages. `exec` carries the
program's inode (`ip`, `held`), which `bad` releases only if it still has it. `CopiesRight`
evaluates `copyin`, `copyout` and `copyinstr` in every reachable memory, at every address up
to the size and around the trapframe, the trampoline and `MAXVA`. **UserMemory** is what
memory promises: every process has words of its own from 0 to its size, which fork copies,
`sbrk` extends with zeroes or cuts, exec replaces, and nothing else changes.

**Console** models `console.c` and `uart.c`: the input ring with `r`, `w` and `e`, line
editing, `consoleread` a character per step with `cons.lock` kept, `uartputc`,
`uartstart` (the look at the transmitter and the write to it are two steps), the
echo by `uartputc_sync` without `uart_tx_lock`, and the interrupt handler. The device
has a FIFO and interrupts when a byte arrives and when it has nothing left to send.
**ConsoleLines** is what input promises: a queue of lines, edited until handed over.

## Runs

| Run | Instance | Shows |
|---|---|---|
| `log` | 2 threads, 3 blocks, log of 4, 2 crashes | the invariant of the log, refinement of `TxDisk`, write-ahead, no transaction outgrows the log, no sleeper without a waker |
| `proc_safety` | 3 entries, 2 CPUs, 4 pids, kill | stack on one CPU, free entries idle, no missed exit, every process has a live parent |
| `proc_wait` | 3 entries, 1 CPU, 3 pids, a kill, preemption, fair | `wait()` returns once a child has exited |
| `bcache` | 2 processes, 2 buffers, 3 blocks, fair | one buffer per block, counts, refinement of `BlockStore`, sleepers on a buffer try again |
| `pipe` | 2 readers, 2 writers, ring of 2, wrap at 4 | bytes complete and in order, nobody left asleep, the end of the stream reaches every reader |
| `virtio` | 3 processes, 7 descriptors, 1 kill, fair | chains disjoint, transfers only into waiting buffers, once per request; requests finish, waiters for descriptors try again |
| `files` | 2 processes, 3 files, 2 descriptors, 1 page | counts of files and inodes exact, pipe ends exact |
| `inode` | 3 processes, 3 inodes, 2 entries, 1 name | one current entry per inode, links counted, nothing freed in use, `iput` never blocks |
| `blocks` | 2 processes, 2 descriptors, a disk of 13 blocks, 3 calls, crash | blocks have one owner in memory and in what is committed, an operation fits its reservation, only what was written changes |
| `tree` | 2 processes in `/` or `/a/b`, 4 inodes, 4 calls | names and link counts form a tree, a panic needs a stale `..`, no circle of lock waits |
| `memory` | 2 processes, pages of a few words, calls that run out of pages at any point | no page lost or held twice, sizes match page tables, copies move what was asked or fail where the user's pages end, refinement of `UserMemory` |
| `console` | 2 processes, rings of 2, indices that wrap at 4 | refinement of `ConsoleLines`, output complete and in order, no ring stuck and nobody left asleep |

In `log` a call writes one block less than it reserves. `filewrite()` keeps such a
distance (its largest chunk logs four data blocks, the inode, the indirect block and
the one bitmap block, seven of ten), and it is needed: mkfs makes
the log area LOGSIZE blocks with the header among them, one data block less than
`begin_op()` counts on, and `log_write()` refuses a full log even for a block that it
would absorb. With calls that use the whole of their reservation `NoPanic` fails.

Why the bounds are enough. Each instance lets its tables run full (log, buffers,
descriptors, files, entries, ring) and lets everything be reused at least once, since a
table of one or two entries comes back at once; the counters of the pipe wrap at the
smallest multiple of the ring size above it, so that every alignment of full ring and wrap
is reached. The indices of the driver wrap at the size of its rings: at most a third of a
ring is ever in use, so no index catches up with another, which `VirtioProofs` shows for
every multiple. Seven descriptors leave one over, so that an allocation fails half way and
gives back what it took. Two actors show every race of two, and a third is there where the
code wakes everyone or compares a count with one. Two crashes put a crash into recovery from
a crash. Symmetry is used only in safety runs, over sets of names that the specification
treats alike.

`blocks` has two direct blocks per inode, blocks of two words and writes of seven words,
from the start or after a read of one word. They need the indirect block, do not fit in one
operation, and run out of blocks when two calls allocate. In `tree` processes may start in
the directory that is removed, so that four calls remove it and its parent, use their
numbers again and follow the stale `..`. `inode` has one name, so files with two names occur
only in `tree` and, for any set of names, in `InodeProofs`. In `memory` the tables of a
process alone take five pages, and a call may find none to nine, so a fork fails at every
level; `MAXARG` is 3, and an `exec` has three arguments, one more than `sys_exec()` takes
with the null. The rings of the console start just below the wrap; its three loads are input
only (four characters, three reads, a kill), output with an echo (two writes), and both.

`proc_wait` has three entries, so that an orphan is given to init and a third process may be
killed or preempted anywhere, and pays for it with one CPU. A wakeup lost to another
CPU is the subject of `NoMissedExit`, which `proc_safety` checks on two CPUs and `ProcProofs`
proves for any number. Likewise `bcache` has one process asleep for a buffer at a time, and
`NoSleeperLeft` speaks of any number; in `virtio` one process waits for descriptors while
two have theirs, and that several waiters find too few and go back to sleep is not reached.

Deadlock is checked except where the system may stop: a panic that the code
provides for, or processes that all closed their pipe.

### Fairness

- Proc: strong fairness for a runnable process and for a process that keeps finding
  a lock free, because the round-robin of `scheduler()` and the spin in `acquire()`
  come back to it, and for the timer of each CPU (`Tick`), so that no process keeps a CPU for
ever; weak for a CPU's own loop. `Resumed` is apart from the other
  steps, for being resumed again and again is not progress.
- Bcache, VirtioDisk: weak for steps of a process that holds what it needs,
  strong for taking a lock. For VirtioDisk also weak fairness of the device, which
  serves what it was given.

Nothing is assumed of callers that the code leaves open. So `SleepersTryAgain` and
`DescWaitersRetry` say that a sleeper tries again, not that it succeeds: the code has
no queue, and another process may take the lock or the descriptors first. For the
log, the pipe and the console the same concern is stated as invariants, `SleeperHasWaker`,
`NobodyForgotten` and `ConsoleNotStuck`: with two readers one of them can
indeed take every byte, so that not every `read()` returns.

## Proofs

The proof modules hold, for each of seven modules, the inductive invariant, a lemma per
action, and the theorems, for every value of the constants that the named assumption
of the module allows.

| Module | Theorem | States, of every reachable state or step |
|---|---|---|
| `LogProofs` | `LogInvariant` | `LogInv`, the invariant that `log` checks |
| | `TypeCorrect`, `DirtyPinned`, `PinsBalanced` | its parts: types; what is not on disk is pinned; pins and unpins match |
| | `QuietDurable` | `QuietIsDurable`: with no call in progress, disk and cache agree |
| | `SleeperWaker` | `SleeperHasWaker`: while a thread sleeps in `begin_op()`, a commit or another call is under way, whose end wakes it |
| | `WritesAhead` | `WriteAhead`: a home block is overwritten only with what the header on disk already commits it to |
| | `PanicFree` | `NoPanic`: no `log_write()` finds the log full, if calls keep the distance `OpsFit` from their reservation |
| | `Implements` | `Atomic`: `Log` implements `TxDisk`, so calls are atomic with respect to crashes |
| `PipeProofs` | `PipeKeepsStream` | `RingHoldsStream`: the ring holds the unread bytes, in order, wherever the counters wrap |
| | `PipeForgetsNobody` | `NobodyForgotten`: nobody sleeps beside what it waits for; only data left by a killed writer may wait, until the write end is closed |
| `BcacheProofs` | `OneBuffer` | `OneBufferPerBlock` |
| | `RefsAreCounted` | `RefsCounted`: `refcnt` is users and pins, the list a permutation |
| | `NoSleeperLeft` | no process is asleep for a buffer whose lock is free, however many wait |
| | `CacheIsStore` | `IsStore`: `Bcache` implements `BlockStore` |
| `ProcProofs` | `OneCpuPerStack` | `StackOwned`: no kernel stack is on two CPUs |
| | `FreeSlotsIdle` | `FreeSlotIdle`: no CPU is on the stack of a free entry |
| | `NoExitMissed` | `NoMissedExit`: no parent sleeps beside a child that has exited |
| | `ParentsLive` | `ParentAlive`: whoever may exit has a parent that can collect it |
| `FileTableProofs` | `ReferencesExact` | `RefsCounted`: `ref` of a file and the inode's references are exact, `filedup()` and `fileclose()` do not panic |
| | `PipesClosedOnce` | `PipeEnds`: an end of a pipe is open while one file or one pending `pipeclose()` stands for it |
| `InodeProofs` | `OneCurrentEntry` | `EntriesCurrent`: one entry per inode, counted, and as on disk |
| | `NlinkCounts` | `LinksCounted`: `nlink` is the names and the links in the making |
| | `NoFreeInUse` | `InUseIsAllocated`: nothing is freed that has a name or a user |
| | `IputNeverBlocks` | `IputWontBlock`: `iput()` waits for no sleep lock under `itable.lock` |
| `VirtioProofs` | `DescriptorsPartitioned` | `ChainsPartition`: a descriptor is free or in one request's chain |
| | `TransfersSafe` | `DmaSafe`: transfers only for a process that waits, once per request |

`PipeInvariant`, `BcacheInvariant`, `ProcInvariant`, `InodeInvariant` and `VirtioInvariant`
state the inductive invariants; that of the open files is `Inv`. Its definition, the lemmas on
counting and the calls without a pipe are in `FileTableLemmas`, which `FileTableProofs` extends
with pipes, `fork()`, `exit()` and the theorems.

### Assumptions

- `LogAssumption`: sizes are natural numbers, one call's reservation fits the log,
  threads are finitely many, the special values are not blocks or contents.
- `PipeAssumption`: a ring of at least one cell, counters that wrap at a greater
  multiple of it (512 and 2^32 in the code), finitely many readers and writers, no
  process both.
- `BcacheAssumption`: buffers and processes are finite sets, the special values are
  outside of theirs.
- `ProcAssumption`: at least one entry and one process number.
- `FileAssumption`: processes and pages are finite sets, there is a first process and at
  least one descriptor; the table of files may have any size.
- `InodeAssumption`: processes and names are finite sets, there is a name.
- `VirtioAssumption`: at least one descriptor, ring indices that wrap at a multiple of
  their number (8 and 2^16), finitely many processes, success (0) among the
  answers of the device.

`PanicFree` alone assumes more: `OpsFit` says that a call logs fewer blocks than it
reserves, by so many that the smaller of `LOGSIZE` and the log area on the disk still
has room. With the sizes of the code (10, 30, and an area of 30 with the header) it asks
for one block less than the reservation. `MCLog` evaluates it on the instance of `log`.

Bounds such as `MaxBytes`, `MaxKills` or `MaxPid` are arbitrary natural numbers in the proofs.

### The arguments

None of the properties is inductive; each proof adds what its actions rely on.

*Log.* That a commit installs the right contents depends on what the log blocks hold, which
depends on how far `write_log` has come and on nobody changing the cache meanwhile. `LogInv`
therefore adds to the types: `HeadersFit` (both headers are free of duplicates and fit the
log), `CallsCounted` (`outstanding` is the number of threads inside a call, so a commit
finds none), `Progress` (for each stage of commit and recovery, which log blocks already
hold the cached content, which home blocks hold their log block, and which header is empty
or equal to the other), `DirtyIsPinned` and `PinsBalance` (a block that differs from its
home is in the log and pinned once). The crash case is where the shape matters: what memory
held is gone, and `Progress` for the stage `boot` asks nothing of it. For the refinement,
`begin_op` and `end_op` change the calls in progress, `log_write` the current content,
`write_head` makes it durable and `Crash` falls back to what is; every other step leaves the
mapped state alone, installing a block because the mapped disk already shows its log block.

That no transaction outgrows the log (`PanicFree`) needs a count of what the calls under
way may still log: `Room` is a set of pairs of such a call and one of its writes to come,
and `RoomInv` bounds `Len(lh)` together with its size. A call that begins alone finds the
log empty, so the two stay within its own writes. A call admitted beside others passed
the test of `begin_op()`, which reserves `MAXOPBLOCKS` for each of at least two calls, so at least
twice the distance of `OpsFit` is left over. A first `log_write` of a block moves one from
`Room` to `lh`, and `end_op` gives up the rest of a call's share.

*Pipe.* `RingInv` ties the wrapped counters to the numbers of bytes put and got, and
byte `k` to cell `(k - 1) % PIPESIZE`. It carries over a wrap because `Wrap` is a multiple of
`PIPESIZE` (`ModShift`, `ModMod`), and the code's unsigned test for a full
ring is right because `Wrap` exceeds `PIPESIZE` (`FullMeans`). `SleepInv` says of each
sleeper, and of whoever is about to sleep, that its reason holds or that the process
which took the reason away still has the lock and its `wakeup()` to make.

*Buffer cache.* `CallInv`, `LockInv` and `RefInv` say which buffer a caller has at each
point, so that a buffer with `refcnt` 0 has no user when it is recycled. `CleanInv` says
that content which is not on the disk is pinned or still in its writer's hands, so
recycling loses none. The refinement maps a block to its valid buffer or else to the disk,
and its holder to the process between `bread()` and `brelse()`. The end of `bread` gets the
block, `Modify` puts, `releasesleep` releases; every other step is a stutter, the recycling
in `bget` by `CleanInv`. The list is a sequence without
duplicates; that the scan from its end finds the last free buffer is `NatGreatest`.

*Open files.* A call is a sequence `todo[p]` of at most two steps to come (`TodoInv` says
which may follow which), and some of those steps carry a reference: a file still to be
closed, an inode still to be put, a pipe end. `CountInv` states the counts with `Tally`, the
number of pending steps in a given set of operations. Each action replaces the steps of one
process, so that each count changes by what the old and the new steps of that process
contribute. `DupInv` says that a process between `fdalloc()` and `filedup()` has two
descriptors of the file, of which one is counted, so `ref` is at least 1 and `filedup()`
does not panic. `ForkInv` and `DeadInv` say that a child being filled belongs to one parent
and that a process which is gone has no descriptors but those `exit()` has not come to.
`FreshInv` keeps the two files of `pipealloc()` from everybody else until they are in
descriptors or given back, and `FileInv` keeps the fields of a free file from being taken
for those of an open one.

*Processes.* `CpuInv` follows `p->lock` through `swtch()`: a process is on a CPU while it is
RUNNING, and after that only until the scheduler has released the lock for it. The
lost-wakeup argument is in `ExitInv` (how far `exit()` has come: no child before the loop
index is left, no parent before the wakeup index is asleep), `ScanInv` (`wait()` has no
exited child before its index) and `SleepInv` (a sleeper has no exited child, unless
`reparent()` has just given it one and its `wakeup(initproc)` is still to come); all three need
`WaitLockInv`, that only one process is inside these loops. `ForkInv` keeps two
`fork()`s off one entry after `allocproc()` has released its lock.

*Inodes.* The window in `iput()`, where the inode is free on disk and the entry still valid
and referenced, is the hard part. `ValidInv` says that a valid entry agrees with an
allocated inode except in that window (`BeingFreed`), `LockInv` that the window is under
the sleep lock, and `FreshInv` that an inode which `create()` has just taken from the disk
has no links and only such leaving processes at its entry. `DirInv` says that what a
call read in the directory is still there while it holds the directory. Counting is by
cardinalities of the sets of holders, names and pending links, one lemma per way a
step changes them. That `iput()` never blocks follows from `RefInv`: with `ref` 1 the only
holder is the caller, and a lock has a holder that counts.

*Disk driver.* `RingInv` says that the requests sent are, each once, in the available ring,
at the device, or in the used ring. A ring is a window of the cells from one index to the
other, modulo `NUM`; `RingStage`, `RingPut` and `RingGet` are the three things done to it.
That a put never overtakes (`RingRoom`) is counting: the cells of the window name different
descriptors, and the first two of the chain to be put are not among them, so the window
stays shorter than the ring, whatever its size. `ChainInv` keeps the chains disjoint and
complete, and `ServedInv` relates the count of transfers to where the request is.

### Only model-checked

- Liveness (`WaitReturns`, `SleepersTryAgain`, `RequestsFinish`, `DescWaitersRetry`): the
  prover has no rules for fairness.
- `FileTree`: `TreeShape` and `NoLockCycle` speak of paths of any length.
- `Memory`: its loops over pages and page tables are recursive functions, and what
  they compute for every input is induction over data. So is what `MkFs` computes,
  which is where `FileData` starts.
- `Console`.

The induction theorems of the prover's library take the claim as an operator, which the
installed provers cannot instantiate. Where a proof above needs what a loop finds, the
loop is a search for a first or a last element, and `NatLeast` and `NatGreatest`, which speak
of sets, are enough.

## Observations

What the models reach that a reader of the code may not expect. The second
contradicts comments of the code; no test of the repository speaks of any.

- `wait()` tests `killed` and only then sleeps, without `p->lock` in between
  (`proc.c:427`); a kill in the gap finds the process running and does not wake it, and
  it goes on sleeping until a child exits. The console's `sleep` step shows the same.
- `iput()` frees the inode on disk before it drops its own reference (`fs.c:360`). A
  file created meanwhile with the same number shares the table entry, and if that file
  is given up before the first `iput()` goes on, it is given up with `ref == 2` and never
  freed. The comments at `fs.c:129-130` ("iput() frees if the reference and link counts have
  fallen to zero") and `fs.c:332-333` ("If that was the last reference and the inode has no
  links to it, free the inode") promise otherwise. `LinksCounted` and `InUseIsAllocated`
  hold all the same, and `TreeShape` says that no other inode is left over (`reused`).
- `create()` and `link()` do not look at `nlink` of the directory, so a process can fill
  a directory that was removed under it; when it leaves, the names are gone and the
  files keep their links (`lost` in `FileTree`). `..` of such a directory may be an inode
  that is free by now, and `ilock()` panics with "no type". `TreeShape` says that nothing
  else leads to a panic.
- `writei()` copies into the buffer before it knows that the copy succeeds, so a write that
  fails half way changes the cached block without logging it; `OnlyWritten` says that
  the change stays within the range of that write.
- `mkfs` rounds the size of the root directory up to the next block even when its
  entries fill their blocks exactly. Such a root would have a hole, which `readi()`
  fills by allocating. The instance of `blocks` stays off that case.
- After a crash, an inode that was unlinked and still open stays allocated; recovery
  does not look for it.
- A byte of output given to the driver and an echo may both follow a look at an idle
  transmitter. Nothing is lost because its FIFO, which `uartinit()` enables, holds both; with
  room for one byte `OutputInOrder` would fail.

## Not modelled, and why

- Clock: `clockintr()` and `sys_sleep()` are `sleep` and `wakeup` on one channel, which
  `Proc` checks. The comparison `ticks - ticks0 < n` is unsigned, so a negative `n` sleeps
  for nearly 2^32 ticks.
- Spin locks: a section under one is a step, or the lock is a variable. `push_off` and
  `pop_off` count on one CPU, below the grain of the modules; `Proc` uses only that a CPU which
  spins takes no interrupt.
- The kernel page table, built once at boot and never changed, and the TLB.
- System call entry: fetching arguments and saving registers; `devintr()` beyond the
  UART's and the disk's part.
- User programs: `malloc`, the shell's parser, `grep` and the string routines are
  sequential functions of strings or of one process's memory; the others only call
  the kernel, and their calls are the inputs of the modules.
- Boot code and register set-up, the interrupt controller, the RAM disk that is not
  built, the formatting of output, and errors of the hardware other than the disk's
  status byte. Memory is sequentially consistent; the barriers of the code are taken
  to work.
- Crashes while an unlinked file is open: `FileData` has crashes but removes no file,
  `Inode` and `FileTree` remove files but have no crashes.
