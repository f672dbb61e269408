-------------------------------- MODULE Inode --------------------------------
(***************************************************************************)
(* The in-memory inode table of kernel/fs.c between the inodes on disk and *)
(* the calls of sysfile.c that look up, create, link and unlink files in a *)
(* directory: iget(), ilock(), iunlock(), iput(), ialloc().                *)
(*                                                                         *)
(* A section under itable.lock is a step; so is what a process does to an  *)
(* inode or to the directory while it holds the sleep lock of it, up to    *)
(* the next lock or reference it takes or gives up.  The disk is the       *)
(* buffer cache's view of it.  The directory itself never goes away.       *)
(***************************************************************************)
EXTENDS Integers, FiniteSets, FiniteSetsExt

CONSTANTS
    Procs, Names,
    NInodes,   \* sb.ninodes - 1: the inodes on disk
    NINODE,    \* param.h: entries of the table
    Nobody

Inums == 1 .. NInodes
Slots == 1 .. NINODE

ASSUME InodeAssumption ==
    /\ NInodes \in Nat /\ NINODE \in Nat
    /\ IsFiniteSet(Procs) /\ Nobody \notin Procs
    /\ IsFiniteSet(Names) /\ Names # {}

VARIABLES
    dtype, dnlink,    \* struct dinode: type # 0, nlink
    dir,              \* the inode number at each name, or 0
    dlock,            \* who holds the directory's lock
    inum, ref, valid, type, nlink, lock,   \* struct inode
    pc, ip,           \* each process, and the inode it holds a reference to
    name, goal,       \* what it wants the inode for
    panicked

diskVars == <<dtype, dnlink>>
slotVars == <<inum, valid, type, nlink>>
locals == <<ip, name, goal>>
vars == <<diskVars, dir, dlock, slotVars, ref, lock, pc, locals, panicked>>

TypeOK ==
    /\ dtype \in [Inums -> {0, 1}] /\ dnlink \in [Inums -> Nat]
    /\ dir \in [Names -> Inums \cup {0}]
    /\ dlock \in Procs \cup {Nobody}
    /\ inum \in [Slots -> Inums \cup {0}] /\ ref \in [Slots -> Nat]
    /\ valid \in [Slots -> {0, 1}] /\ type \in [Slots -> {0, 1}] /\ nlink \in [Slots -> Nat]
    /\ lock \in [Slots -> Procs \cup {Nobody}]
    /\ pc \in [Procs -> {"idle", "ialloc", "iget", "ref", "ilock", "load", "locked", "dirlink",
                         "unlinked", "iput", "itrunc", "freed", "drop"}]
    /\ ip \in [Procs -> Slots \cup Inums \cup {0}]
    /\ name \in [Procs -> Names]
    /\ goal \in [Procs -> {"use", "link", "undo", "unlink", "create"}]
    /\ panicked \in 0 .. 3

Init ==
    /\ dtype = [i \in Inums |-> 0] /\ dnlink = [i \in Inums |-> 0]
    /\ dir = [n \in Names |-> 0] /\ dlock = Nobody
    /\ inum = [s \in Slots |-> 0] /\ ref = [s \in Slots |-> 0]
    /\ valid = [s \in Slots |-> 0] /\ type = [s \in Slots |-> 0] /\ nlink = [s \in Slots |-> 0]
    /\ lock = [s \in Slots |-> Nobody]
    /\ pc = [p \in Procs |-> "idle"] /\ ip = [p \in Procs |-> 0]
    /\ name = [p \in Procs |-> CHOOSE n \in Names : TRUE] /\ goal = [p \in Procs |-> "use"]
    /\ panicked = 0
------------------------------------------------------------------------------
Goto(p, l) == pc' = [pc EXCEPT ![p] = l]
Aim(p, g) == goal' = [goal EXCEPT ![p] = g]
AnyName == CHOOSE n \in Names : TRUE

\* iget(): the entry of inode i, or the first unused one.  The fields of an
\* unused entry are dead until ilock() reads them from the disk.  The process
\* goes on at l.
Entries(i) == {s \in Slots : ref[s] > 0 /\ inum[s] = i}
Unused == {s \in Slots : ref[s] = 0}
Invalid_Kept(s) == valid
Invalid(s) == [valid EXCEPT ![s] = 0]
Found_Valid(i) == {s \in Entries(i) : valid[s] = 1}
Found(i) == Entries(i)
iget(p, i, l) ==
    \/ /\ Found(i) # {}
       /\ LET s == Min(Found(i)) IN
          /\ ref' = [ref EXCEPT ![s] = @ + 1]
          /\ ip' = [ip EXCEPT ![p] = s]
       /\ Goto(p, l)
       /\ UNCHANGED <<inum, valid, panicked>>
    \/ /\ Found(i) = {} /\ Unused # {}
       /\ LET s == Min(Unused) IN
          /\ ref' = [ref EXCEPT ![s] = 1]
          /\ inum' = [inum EXCEPT ![s] = i]
          /\ valid' = Invalid(s)
          /\ ip' = [ip EXCEPT ![p] = s]
       /\ Goto(p, l)
       /\ UNCHANGED panicked
    \/ /\ Found(i) = {} /\ Unused = {}
       /\ panicked' = 3     \* panic("iget: no inodes")
       /\ UNCHANGED <<ref, inum, valid, ip, pc>>

\* namei(): dirlookup() and its iget() under the directory's lock.
namei(p, n) ==
    /\ pc[p] = "idle" /\ dlock = Nobody
    /\ dir[n] # 0
    /\ iget(p, dir[n], "ref")
    /\ UNCHANGED <<diskVars, dir, dlock, type, nlink, lock, name, goal>>

\* A process with a reference (an open file, a system call) uses the inode
\* under its lock, links it to another name, or drops it.
use(p) ==
    /\ pc[p] = "ref"
    /\ \/ Goto(p, "ilock") /\ \E g \in {"use", "link"} : Aim(p, g)
       \/ Goto(p, "iput") /\ UNCHANGED goal
    /\ UNCHANGED <<diskVars, dir, dlock, slotVars, ref, lock, ip, name, panicked>>

\* sys_unlink(): the lookup, with the directory's lock kept.
sys_unlink(p, n) ==
    /\ pc[p] = "idle" /\ dlock = Nobody
    /\ dir[n] # 0
    /\ dlock' = p
    /\ iget(p, dir[n], "ilock")
    /\ name' = [name EXCEPT ![p] = n]
    /\ Aim(p, "unlink")
    /\ UNCHANGED <<diskVars, dir, type, nlink, lock>>

\* create() of a name that does not exist.
create(p, n) ==
    /\ pc[p] = "idle" /\ dlock = Nobody
    /\ dir[n] = 0
    /\ dlock' = p
    /\ name' = [name EXCEPT ![p] = n]
    /\ Aim(p, "create") /\ Goto(p, "ialloc")
    /\ UNCHANGED <<diskVars, dir, slotVars, ref, lock, ip, panicked>>

\* ialloc() looks at one dinode after the other, so it may find any that is
\* free; it marks it, and only then calls iget().
ialloc(p) ==
    LET free == {i \in Inums : dtype[i] = 0} IN
    /\ pc[p] = "ialloc"
    /\ \/ \E i \in free :
             /\ dtype' = [dtype EXCEPT ![i] = 1]
             /\ dnlink' = [dnlink EXCEPT ![i] = 0]
             /\ ip' = [ip EXCEPT ![p] = i]
             /\ Goto(p, "iget")
             /\ UNCHANGED <<dlock, name, goal>>
       \/ /\ free = {}
          /\ dlock' = Nobody
          /\ Goto(p, "idle") /\ Aim(p, "use") /\ name' = [name EXCEPT ![p] = AnyName]
          /\ UNCHANGED <<diskVars, ip>>
    /\ UNCHANGED <<dir, slotVars, ref, lock, panicked>>

ialloc_get(p) ==
    /\ pc[p] = "iget"
    /\ iget(p, ip[p], "ilock")
    /\ UNCHANGED <<diskVars, dir, dlock, type, nlink, lock, name, goal>>

\* ilock(): the sleep lock, then the dinode if the entry does not have it.
ilock(p) ==
    LET s == ip[p] IN
    /\ pc[p] = "ilock"
    /\ lock[s] = Nobody
    /\ lock' = [lock EXCEPT ![s] = p]
    /\ Goto(p, IF valid[s] = 0 THEN "load" ELSE "locked")
    /\ UNCHANGED <<diskVars, dir, dlock, slotVars, ref, locals, panicked>>

ilock_read(p) ==
    LET s == ip[p] IN
    /\ pc[p] = "load"
    /\ type' = [type EXCEPT ![s] = dtype[inum[s]]]
    /\ nlink' = [nlink EXCEPT ![s] = dnlink[inum[s]]]
    /\ valid' = [valid EXCEPT ![s] = 1]
    /\ panicked' = IF dtype[inum[s]] = 0 THEN 1 ELSE 0     \* panic("ilock: no type")
    /\ Goto(p, "locked")
    /\ UNCHANGED <<diskVars, dir, dlock, inum, ref, lock, locals>>

\* nlink of the locked inode of p becomes k, in memory and by iupdate() on disk.
SetLinks(p, k) ==
    /\ nlink' = [nlink EXCEPT ![ip[p]] = k]
    /\ dnlink' = [dnlink EXCEPT ![inum[ip[p]]] = k]

Down(p) == nlink[ip[p]] - 1

iunlock(p) == lock' = [lock EXCEPT ![ip[p]] = Nobody]

Using(p, g) == pc[p] = "locked" /\ goal[p] = g

read(p) ==
    /\ Using(p, "use")
    /\ iunlock(p)
    /\ Goto(p, "ref")
    /\ UNCHANGED <<diskVars, dir, dlock, slotVars, ref, locals, panicked>>

\* sys_link(): the link is counted before it is made,
sys_link(p) ==
    /\ Using(p, "link")
    /\ SetLinks(p, nlink[ip[p]] + 1)
    /\ iunlock(p)
    /\ Goto(p, "dirlink")
    /\ UNCHANGED <<dtype, dir, dlock, inum, valid, type, ref, locals, panicked>>

\* and taken back when the new name exists or there is no room for it.
link_dirlink(p) ==
    /\ pc[p] = "dirlink" /\ dlock = Nobody
    /\ \/ /\ \E n \in Names : dir[n] = 0 /\ dir' = [dir EXCEPT ![n] = inum[ip[p]]]
          /\ Goto(p, "iput")
          /\ UNCHANGED goal
       \/ Aim(p, "undo") /\ Goto(p, "ilock") /\ UNCHANGED dir
    /\ UNCHANGED <<diskVars, dlock, slotVars, ref, lock, ip, name, panicked>>

link_bad(p) ==
    /\ Using(p, "undo")
    /\ SetLinks(p, Down(p))
    /\ iunlock(p)
    /\ Goto(p, "iput")
    /\ UNCHANGED <<dtype, dir, dlock, inum, valid, type, ref, locals, panicked>>

\* sys_unlink() clears the entry and gives the directory up,
unlink_entry(p) ==
    /\ Using(p, "unlink")
    /\ panicked' = IF nlink[ip[p]] < 1 THEN 2 ELSE 0     \* panic("unlink: nlink < 1")
    /\ dir' = [dir EXCEPT ![name[p]] = 0]
    /\ dlock' = Nobody
    /\ Goto(p, "unlinked")
    /\ UNCHANGED <<diskVars, slotVars, ref, lock, locals>>

\* then counts the link down.
unlink_nlink(p) ==
    /\ pc[p] = "unlinked"
    /\ SetLinks(p, Down(p))
    /\ iunlock(p)
    /\ Goto(p, "iput")
    /\ UNCHANGED <<dtype, dir, dlock, inum, valid, type, ref, locals, panicked>>

\* create() fills the inode in and links it; when that fails it drops the
\* inode, still with the directory locked.
create_link(p) ==
    /\ Using(p, "create")
    /\ iunlock(p)
    /\ \/ /\ SetLinks(p, 1)
          /\ dir' = [dir EXCEPT ![name[p]] = inum[ip[p]]]
          /\ dlock' = Nobody
          /\ Goto(p, "ref")
       \/ /\ SetLinks(p, 0)
          /\ Goto(p, "iput")
          /\ UNCHANGED <<dir, dlock>>
    /\ UNCHANGED <<dtype, inum, valid, type, ref, locals, panicked>>
------------------------------------------------------------------------------
\* The reference of p is dropped, and its call returns.
Dropped(p) ==
    /\ ref' = [ref EXCEPT ![ip[p]] = @ - 1]
    /\ ip' = [ip EXCEPT ![p] = 0] /\ name' = [name EXCEPT ![p] = AnyName] /\ Aim(p, "use")
    /\ dlock' = IF dlock = p THEN Nobody ELSE dlock
    /\ Goto(p, "idle")

\* iput(): the last reference to an inode without links frees the inode.  The
\* acquiresleep() is under itable.lock, so a lock that is held would stop
\* everyone; the step is there all the same, for IputWontBlock to look at.
LastOf_Linked(s) == ref[s] = 1 /\ valid[s] = 1
LastOf_Any(s) == valid[s] = 1 /\ nlink[s] = 0
LastOf(s) == ref[s] = 1 /\ valid[s] = 1 /\ nlink[s] = 0
iput(p) ==
    LET s == ip[p] IN
    /\ pc[p] = "iput"
    /\ \/ /\ LastOf(s)
          /\ lock[s] = Nobody
          /\ lock' = [lock EXCEPT ![s] = p]
          /\ Goto(p, "itrunc")
          /\ UNCHANGED <<ref, dlock, locals>>
       \/ /\ ~LastOf(s)
          /\ Dropped(p)
          /\ UNCHANGED lock
    /\ UNCHANGED <<diskVars, dir, slotVars, panicked>>

\* itrunc(); type = 0; iupdate().
iput_free(p) ==
    LET s == ip[p] IN
    /\ pc[p] = "itrunc"
    /\ type' = [type EXCEPT ![s] = 0]
    /\ dtype' = [dtype EXCEPT ![inum[s]] = 0]
    /\ dnlink' = [dnlink EXCEPT ![inum[s]] = nlink[s]]
    /\ Goto(p, "freed")
    /\ UNCHANGED <<dir, dlock, inum, valid, nlink, ref, lock, locals, panicked>>

\* valid = 0; releasesleep().
iput_unlock(p) ==
    /\ pc[p] = "freed"
    /\ valid' = Invalid(ip[p])
    /\ iunlock(p)
    /\ Goto(p, "drop")
    /\ UNCHANGED <<diskVars, dir, dlock, inum, type, nlink, ref, locals, panicked>>

iput_drop(p) ==
    /\ pc[p] = "drop"
    /\ Dropped(p)
    /\ UNCHANGED <<diskVars, dir, slotVars, lock, panicked>>

Next ==
    /\ panicked = 0
    /\ \E p \in Procs :
          \/ \E n \in Names : namei(p, n) \/ sys_unlink(p, n) \/ create(p, n)
          \/ use(p) \/ ialloc(p) \/ ialloc_get(p) \/ ilock(p) \/ ilock_read(p) \/ read(p)
          \/ sys_link(p) \/ link_dirlink(p) \/ link_bad(p) \/ unlink_entry(p) \/ unlink_nlink(p)
          \/ create_link(p) \/ iput(p) \/ iput_free(p) \/ iput_unlock(p) \/ iput_drop(p)

Spec == Init /\ [][Next]_vars
------------------------------------------------------------------------------
(***************************************************************************)
(* Properties                                                              *)
(***************************************************************************)
Holding == {p \in Procs : pc[p] \notin {"idle", "ialloc", "iget"}}
Holders(i) == {p \in Holding : inum[ip[p]] = i}

\* An inode has one entry in the table, whose ref counts the processes that
\* hold it: everyone who works on an inode meets at the same lock.  A valid
\* entry agrees with the disk, except while iput() has freed the inode and
\* still has the entry locked: no one goes by fields that belong to an earlier
\* inode in the same entry or to an earlier file in the same inode.
EntriesCurrent ==
    /\ \A s, t \in Slots : ref[s] > 0 /\ ref[t] > 0 /\ s # t => inum[s] # inum[t]
    /\ \A s \in Slots :
        /\ ref[s] = Cardinality({p \in Holding : ip[p] = s})
        /\ ref[s] > 0 /\ valid[s] = 1 /\ (\A p \in Procs : lock[s] = p => pc[p] # "freed")
             => nlink[s] = dnlink[inum[s]] /\ type[s] = dtype[inum[s]]

\* nlink counts the names of an inode, and the links that a call in progress
\* has counted and not yet made, or taken away and not yet counted.
LinksCounted ==
    /\ TypeOK
    /\ \A i \in Inums : dtype[i] = 1 =>
        dnlink[i] = Cardinality({n \in Names : dir[n] = i})
                    + Cardinality({p \in Holders(i) : pc[p] \in {"dirlink", "unlinked"}
                                      \/ (goal[p] = "undo" /\ pc[p] \in {"ilock", "load", "locked"})})

\* An inode that has a name, or that a process holds and is not itself giving
\* up, is not free on disk: no file is freed under its users, no call meets
\* "ilock: no type" or "unlink: nlink < 1".
InUseIsAllocated ==
    /\ panicked \in {0, 3}
    /\ \A n \in Names : dir[n] # 0 => dtype[dir[n]] = 1
    /\ \A p \in Holding : pc[p] \notin {"freed", "drop"} => dtype[inum[ip[p]]] = 1

\* fs.c, iput(): "ref == 1 means no other process can have ip locked, so this
\* acquiresleep() won't block (or deadlock)".
IputWontBlock ==
    \A p \in Procs : pc[p] = "iput" /\ LastOf(ip[p]) => lock[ip[p]] = Nobody
==============================================================================
