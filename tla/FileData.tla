------------------------------- MODULE FileData -------------------------------
(***************************************************************************)
(* The contents of files: the block bitmap, bmap(), itrunc(), readi() and  *)
(* writei() of kernel/fs.c under the calls of file.c and sysfile.c that    *)
(* read, write and truncate an open file, from the image of mkfs on.       *)
(*                                                                         *)
(* A process works on an inode while it holds the inode's lock; the bitmap *)
(* is shared, so every balloc() and bfree() is a step of its own.  A block *)
(* is seen through the buffer cache (data) and kept there from log_write() *)
(* on (pinned).  When the last operation has ended the log commits these   *)
(* (saved), and a crash goes back to that.                                 *)
(***************************************************************************)
EXTENDS MkFs, FiniteSetsExt

CONSTANTS
    Procs,         \* a process writes its own name
    Fds,           \* the struct files, shared by the processes
    MAXOPBLOCKS,
    Images,        \* the lengths of the files given to mkfs
    Reads, Writes, \* how much read() and write() are asked for
    MaxCalls       \* bound: calls begun

VARIABLES
    used,                        \* the bitmap
    data, pinned,                \* the words of each block; blocks in the log
    inode, dinode, lock,         \* in memory, on disk, and who holds it
    saved,                       \* what is committed
    at, off,                     \* struct file: its inode and offset
    pc, fd, goal, rest, tot,     \* a process's call; n - i and tot of its loops
    touched,                     \* blocks its operation has given to the log
    calls, panicked

disk == <<used, data, pinned>>
locals == <<pc, fd, goal, rest, tot>>
vars == <<disk, inode, dinode, lock, saved, at, off, locals, touched, calls, panicked>>

FileInums == Inums \ {ROOTINO}
Nobody == 0
NoFd == 0
ip(p) == at[fd[p]]

ASSUME FileDataAssumption ==
    /\ Nobody \notin Procs /\ NoFd \notin Fds /\ NDIRECT \in Nat \ {0} /\ BSIZE \in Nat \ {0}
    /\ nmeta < FSSIZE /\ MAXOPBLOCKS >= 6

TypeOK ==
    /\ used \subseteq Blocks /\ pinned \subseteq Blocks
    /\ lock \in [Inums -> Procs \cup {Nobody}]
    /\ at \in [Fds -> FileInums] /\ off \in [Fds -> 0 .. MAXFILE * BSIZE]
    /\ pc \in [Procs -> {"idle", "ilock", "map", "fault", "trunc", "end"}]
    /\ fd \in [Procs -> Fds \cup {NoFd}] /\ goal \in [Procs -> {"read", "write", "open", "trunc"}]
    /\ rest \in [Procs -> Nat] /\ tot \in [Procs -> Nat \cup {-1}]
    /\ touched \in [Procs -> SUBSET pinned] /\ calls \in Nat /\ panicked \in BOOLEAN

Init ==
    \E lengths \in Images :
       LET fs == mkfs(lengths) IN
       /\ used = balloc_mkfs(fs) /\ data = fs.data /\ pinned = {}
       /\ inode = fs.dinode /\ dinode = fs.dinode /\ lock = [i \in Inums |-> Nobody]
       /\ saved = [used |-> used, data |-> data, dinode |-> dinode]
       /\ at = [f \in Fds |-> ROOTINO + 1] /\ off = [f \in Fds |-> 0]
       /\ pc = [p \in Procs |-> "idle"] /\ fd = [p \in Procs |-> NoFd]
       /\ goal = [p \in Procs |-> "read"]
       /\ rest = [p \in Procs |-> 0] /\ tot = [p \in Procs |-> 0]
       /\ touched = [p \in Procs |-> {}]
       /\ calls = 0 /\ panicked = FALSE
------------------------------------------------------------------------------
Goto(p, l) == pc' = [pc EXCEPT ![p] = l]

\* log_write() of blocks bs by p, also those of the bitmap and of inodes.
bitmapBlock == 2 + LOGSIZE + ninodeblocks
inodeBlock(i) == 2 + LOGSIZE + i \div IPB
log_write(p, bs) ==
    /\ touched' = [touched EXCEPT ![p] = @ \cup bs]
    /\ pinned' = pinned \cup bs

\* The words one operation of filewrite() may write.
MaxWrite_NoSlop == (MAXOPBLOCKS \div 2) * BSIZE
MaxWrite == ((MAXOPBLOCKS - 1 - 1 - 2) \div 2) * BSIZE
n1(p) == IF goal[p] = "write" THEN Min({rest[p], MaxWrite}) ELSE rest[p]

\* Between begin_op() and end_op(): all calls but a plain read.  The last to
\* end commits the buffers as they are then.
Operating == {q \in Procs : pc[q] # "idle" /\ goal[q] # "read"}
commit ==
    /\ saved' = [used |-> used, dinode |-> dinode,
                 data |-> [b \in Blocks |-> IF b \in pinned THEN data[b] ELSE saved.data[b]]]
    /\ pinned' = {}
Last_Any(p) == TRUE
Last(p) == Operating \subseteq {p}
end_op(p) ==
    /\ touched' = [touched EXCEPT ![p] = {}]
    /\ IF goal[p] # "read" /\ Last(p) THEN commit ELSE UNCHANGED <<saved, pinned>>
Idle(p) ==
    /\ Goto(p, "idle") /\ goal' = [goal EXCEPT ![p] = "read"] /\ fd' = [fd EXCEPT ![p] = NoFd]
    /\ tot' = [tot EXCEPT ![p] = 0] /\ rest' = [rest EXCEPT ![p] = 0]

\* read() and write() of n words through file f.
Begin(p, f, g, n) ==
    /\ pc[p] = "idle" /\ calls < MaxCalls
    /\ fd' = [fd EXCEPT ![p] = f] /\ goal' = [goal EXCEPT ![p] = g] /\ rest' = [rest EXCEPT ![p] = n]
    /\ Goto(p, "ilock") /\ calls' = calls + 1
    /\ UNCHANGED <<disk, inode, dinode, lock, saved, at, off, tot, touched, panicked>>

\* open() of inode i as file f, which no one uses: of a file that is there to
\* truncate it, or with O_CREATE.
sys_open(p, f, i, g) ==
    /\ pc[p] = "idle" /\ calls < MaxCalls
    /\ \A q \in Procs : pc[q] # "idle" => fd[q] # f
    /\ g = "trunc" => inode[i].type # 0
    /\ at' = [at EXCEPT ![f] = i] /\ off' = [off EXCEPT ![f] = 0]
    /\ fd' = [fd EXCEPT ![p] = f] /\ goal' = [goal EXCEPT ![p] = g]
    /\ Goto(p, "ilock") /\ calls' = calls + 1
    /\ UNCHANGED <<disk, inode, dinode, lock, saved, rest, tot, touched, panicked>>

\* The checks at the head of readi() and writei(), under the lock.
Size(p) == inode[ip(p)].size
Refused(p) ==
    \/ goal[p] \in {"read", "write"} /\ off[fd[p]] > Size(p)
    \/ goal[p] = "write" /\ off[fd[p]] + n1(p) > MAXFILE * BSIZE
ilock_refused(p) ==
    /\ pc[p] = "ilock" /\ lock[ip(p)] = Nobody /\ Refused(p)
    /\ Idle(p) /\ end_op(p)
    /\ UNCHANGED <<used, data, inode, dinode, lock, at, off, calls, panicked>>
ilock(p) ==
    /\ pc[p] = "ilock" /\ lock[ip(p)] = Nobody /\ ~Refused(p) /\ goal[p] # "open"
    /\ lock' = [lock EXCEPT ![ip(p)] = p]
    /\ rest' = [rest EXCEPT ![p] = IF goal[p] = "read" THEN Min({@, Size(p) - off[fd[p]]}) ELSE @]
    /\ Goto(p, IF goal[p] = "trunc" THEN "trunc" ELSE "map")
    /\ UNCHANGED <<disk, inode, dinode, saved, at, off, fd, goal, tot, touched, calls, panicked>>

iupdate(p, i, new) ==
    /\ inode' = [inode EXCEPT ![i] = new] /\ dinode' = [dinode EXCEPT ![i] = new]
    /\ log_write(p, {inodeBlock(i)})
create(p) ==
    /\ pc[p] = "ilock" /\ lock[ip(p)] = Nobody /\ goal[p] = "open"
    /\ IF inode[ip(p)].type = 0
       THEN iupdate(p, ip(p), [inode[ip(p)] EXCEPT !.type = 2])
       ELSE UNCHANGED <<inode, dinode, touched, pinned>>
    /\ Goto(p, "end")
    /\ UNCHANGED <<used, data, lock, saved, at, off, fd, goal, rest, tot, calls, panicked>>

\* bmap() of the block at hand: it is there, or one balloc() of the first free
\* block fills in an entry of addrs[] (for the block itself or the indirect
\* block) or of the indirect block.
Free == Blocks \ used
bzero_Kept(d, b) == d
bzero(d, b) == [d EXCEPT ![b] = zeroes]
pos(p) == off[fd[p]] + tot[p]
bn(p) == pos(p) \div BSIZE
Block(p) == Mapped(inode[ip(p)], data, bn(p))
ind(p) == inode[ip(p)].addrs[NDIRECT]
More(p) == pc[p] = "map" /\ tot[p] < n1(p)
There(p) == More(p) /\ Block(p) # 0
bmap_alloc(p) ==
    /\ More(p) /\ Block(p) = 0 /\ Free # {}
    /\ LET b == Min(Free) IN
       /\ used' = used \cup {b}
       /\ IF bn(p) < NDIRECT \/ ind(p) = 0
          THEN /\ inode' = [inode EXCEPT ![ip(p)].addrs[Min({bn(p), NDIRECT})] = b]
               /\ data' = bzero(data, b)
               /\ log_write(p, {bitmapBlock, b})
          ELSE /\ data' = [bzero(data, b) EXCEPT ![ind(p)][bn(p) - NDIRECT] = b]
               /\ log_write(p, {bitmapBlock, b, ind(p)})
               /\ UNCHANGED inode
    /\ panicked' = (goal[p] = "read")      \* panic("log_write outside of trans")
    /\ UNCHANGED <<dinode, lock, saved, at, off, locals, calls>>

\* The part of one block: words from pos(p) on.
Part_Long(p) == n1(p) - tot[p]
Part(p) == Min({n1(p) - tot[p], BSIZE - (pos(p) % BSIZE)})
Patch(p, n) ==
    [data EXCEPT ![Block(p)] = [k \in 0 .. BSIZE - 1 |->
        IF k \in pos(p) % BSIZE .. (pos(p) % BSIZE) + n - 1 THEN p ELSE @[k]]]
copy(p) ==
    /\ There(p)
    /\ IF goal[p] = "write"
       THEN data' = Patch(p, Part(p)) /\ log_write(p, {Block(p)})
       ELSE UNCHANGED <<data, pinned, touched>>
    /\ tot' = [tot EXCEPT ![p] = @ + Part(p)]
    /\ UNCHANGED <<used, inode, dinode, lock, saved, at, off, pc, fd, goal, rest, calls, panicked>>
\* either_copyin() fails after n words: they are in the buffer, not in the
\* log.  either_copyout() fails: readi() returns -1.
copy_fails(p) ==
    /\ There(p)
    /\ IF goal[p] = "write"
       THEN /\ \E n \in 0 .. Part(p) - 1 : data' = Patch(p, n)
            /\ UNCHANGED tot
       ELSE tot' = [tot EXCEPT ![p] = -1] /\ UNCHANGED data
    /\ Goto(p, "fault")
    /\ UNCHANGED <<used, pinned, inode, dinode, lock, saved, at, off, fd, goal, rest, touched, calls, panicked>>

\* The loop ends: all done, out of blocks, or a fault.  writei() sets the size
\* and writes the inode in any case; the offset moves and the lock is free.
Over(p) ==
    \/ pc[p] = "fault"
    \/ pc[p] = "map" /\ (More(p) => Block(p) = 0 /\ Free = {})
finish(p) ==
    /\ Over(p)
    /\ IF goal[p] = "write"
       THEN iupdate(p, ip(p), [inode[ip(p)] EXCEPT !.size = Max({@, pos(p)})])
       ELSE UNCHANGED <<inode, dinode, touched, pinned>>
    /\ lock' = [lock EXCEPT ![ip(p)] = Nobody]
    /\ off' = [off EXCEPT ![fd[p]] = @ + Max({tot[p], 0})]
    /\ IF goal[p] = "write" THEN Goto(p, "end") /\ UNCHANGED <<fd, goal, rest, tot>> ELSE Idle(p)
    /\ UNCHANGED <<used, data, saved, at, calls, panicked>>

\* The operation ends; filewrite() goes on to its next part unless this one
\* fell short.
end(p) ==
    /\ pc[p] = "end"
    /\ end_op(p)
    /\ IF goal[p] = "write" /\ tot[p] = n1(p) /\ tot[p] < rest[p]
       THEN /\ Goto(p, "ilock")
            /\ rest' = [rest EXCEPT ![p] = @ - tot[p]] /\ tot' = [tot EXCEPT ![p] = 0]
            /\ UNCHANGED <<fd, goal>>
       ELSE Idle(p)
    /\ UNCHANGED <<used, data, inode, dinode, lock, at, off, calls, panicked>>

\* itrunc() frees the direct blocks, then those of the indirect block, which
\* it does not clear, then the indirect block; tot counts them.
Place(ino, d, k) ==
    IF k < NDIRECT THEN ino.addrs[k]
    ELSE IF k = MAXFILE THEN ino.addrs[NDIRECT]
    ELSE Mapped(ino, d, k)
Held(p) == {k \in tot[p] .. MAXFILE : Place(inode[ip(p)], data, k) # 0}
bfree(p) ==
    /\ pc[p] = "trunc" /\ Held(p) # {}
    /\ LET k == Min(Held(p))
           b == Place(inode[ip(p)], data, k)
       IN  /\ panicked' = (b \notin used)      \* panic("freeing free block")
           /\ used' = used \ {b}
           /\ tot' = [tot EXCEPT ![p] = k + 1]
           /\ inode' = IF k < NDIRECT THEN [inode EXCEPT ![ip(p)].addrs[k] = 0]
                       ELSE IF k = MAXFILE THEN [inode EXCEPT ![ip(p)].addrs[NDIRECT] = 0]
                       ELSE inode
    /\ log_write(p, {bitmapBlock})
    /\ UNCHANGED <<data, dinode, lock, saved, at, off, pc, fd, goal, rest, calls>>
itrunc(p) ==
    /\ pc[p] = "trunc" /\ Held(p) = {}
    /\ iupdate(p, ip(p), [inode[ip(p)] EXCEPT !.size = 0])
    /\ lock' = [lock EXCEPT ![ip(p)] = Nobody]
    /\ tot' = [tot EXCEPT ![p] = 0]
    /\ Goto(p, "end")
    /\ UNCHANGED <<used, data, saved, at, off, fd, goal, rest, calls, panicked>>

\* The cache drops a buffer that the log has not pinned.
evict(b) ==
    /\ b \notin pinned /\ data[b] # saved.data[b]
    /\ data' = [data EXCEPT ![b] = saved.data[b]]
    /\ UNCHANGED <<used, pinned, inode, dinode, lock, saved, at, off, locals, touched, calls, panicked>>

Crash ==
    /\ Operating # {}
    /\ used' = saved.used /\ data' = saved.data /\ pinned' = {}
    /\ inode' = saved.dinode /\ dinode' = saved.dinode /\ lock' = [i \in Inums |-> Nobody]
    /\ at' = [f \in Fds |-> ROOTINO + 1] /\ off' = [f \in Fds |-> 0]
    /\ pc' = [p \in Procs |-> "idle"] /\ fd' = [p \in Procs |-> NoFd] /\ goal' = [p \in Procs |-> "read"]
    /\ rest' = [p \in Procs |-> 0] /\ tot' = [p \in Procs |-> 0] /\ touched' = [p \in Procs |-> {}]
    /\ UNCHANGED <<saved, calls, panicked>>

Call(p) ==
    \E f \in Fds :
       \/ \E n \in Reads : Begin(p, f, "read", n)
       \/ \E n \in Writes : Begin(p, f, "write", n)
       \/ \E i \in FileInums, g \in {"open", "trunc"} : sys_open(p, f, i, g)
Next ==
    /\ ~panicked
    /\ \/ \E p \in Procs :
            \/ Call(p) \/ ilock_refused(p) \/ ilock(p) \/ create(p)
            \/ bmap_alloc(p) \/ copy(p) \/ copy_fails(p) \/ finish(p) \/ end(p)
            \/ bfree(p) \/ itrunc(p)
       \/ \E b \in Blocks : evict(b)
       \/ Crash

Spec == Init /\ [][Next]_vars
------------------------------------------------------------------------------
\* Where inode i of an image names a block, and that every used block is named
\* once; `gone' are places whose blocks are freed already.
Consistent(u, d, ino, gone) ==
    LET places == {x \in Inums \X (0 .. MAXFILE) : Place(ino[x[1]], d, x[2]) # 0} \ gone
        held == {Place(ino[x[1]], d, x[2]) : x \in places}
    IN  /\ u = (0 .. nmeta - 1) \cup held
        /\ \A b \in held : b >= nmeta
        /\ Cardinality(held) = Cardinality(places)
        /\ \A i \in Inums : (\A x \in gone : x[1] # i) =>
             \A k \in 0 .. MAXFILE - 1 : k * BSIZE < ino[i].size => <<i, k>> \in places

Truncating(i) == lock[i] # Nobody /\ pc[lock[i]] = "trunc"
Gone == {x \in Inums \X (0 .. MAXFILE) : Truncating(x[1]) /\ x[2] < tot[lock[x[1]]]}

\* A block is marked in the bitmap exactly when one inode holds it, in one
\* place; a file has no holes below its size, so that readi() never allocates;
\* an inode no one holds is on disk as it is in memory.  This is so between
\* any two steps of calls that run out of blocks, fault or are truncating.
BlocksOwned ==
    /\ TypeOK
    /\ Consistent(used, data, inode, Gone)
    /\ \A i \in Inums : lock[i] = Nobody => inode[i] = dinode[i]
    /\ ~panicked

\* The same holds of what a crash at any time brings back.
CommittedOwned == Consistent(saved.used, saved.data, saved.dinode, {})

\* The k-th word of a file.
At(i, k) == data[Mapped(inode[i], data, k \div BSIZE)][k % BSIZE]
Saved(i, k) == saved.data[Mapped(inode[i], data, k \div BSIZE)][k % BSIZE]

\* A word of a file changes only when the process that holds the inode writes
\* it (writei()), or when the cache forgets what a faulting write left there;
\* what a file grows by is what was written.  No write to one file shows in
\* another, over reuse of freed blocks.
OnlyWritten ==
    [][Crash \/ \A i \in FileInums : Truncating(i) \/ \A k \in 0 .. inode'[i].size - 1 :
         LET p == lock[i] IN
         IF k < inode[i].size
         THEN \/ At(i, k)' = At(i, k)
              \/ p # Nobody /\ goal[p] = "write" /\ k \in pos(p) .. pos(p) + Part(p) - 1 /\ At(i, k)' = p
              \/ pinned' = pinned /\ saved' = saved /\ At(i, k)' = Saved(i, k)
         ELSE At(i, k)' = p]_vars

\* One operation gives the log no more blocks than begin_op() has reserved for
\* it (filewrite() cuts its writes up for that).
OpFits == \A p \in Procs : Cardinality(touched[p]) <= MAXOPBLOCKS
==============================================================================
