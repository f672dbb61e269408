------------------------------ MODULE FileTree ------------------------------
(***************************************************************************)
(* Directories and path names: namex(), dirlookup() and dirlink() of       *)
(* kernel/fs.c, and the calls of kernel/sysfile.c that walk, grow and cut  *)
(* the tree, with the locks each of them takes.                            *)
(*                                                                         *)
(* A step takes a lock, does what the code does under it, and drops the    *)
(* lock; a lock held while another is taken is kept in lock.  The          *)
(* references the code drops next are put one by one, in its order.        *)
(* An inode here is what the table and the disk agree on (module Inode),   *)
(* and a directory is a function from names: where its entries lie is left *)
(* out, and "." and ".." are taken to be the first two, as they are unless *)
(* a stale ".." leads into a directory that is still being made.           *)
(***************************************************************************)
EXTENDS Integers, FiniteSets, Sequences

CONSTANTS
    Procs, Nobody,
    Inums, Root,    \* the inodes of the disk, and ROOTINO
    Names,          \* the names of entries, "." and ".." included
    Calls,          \* the system calls made
    Disk, Starts,   \* the inodes at boot, and the directories processes start in
    MaxCalls        \* how many calls are made in all

Dots == {".", ".."}

ASSUME FileTreeAssumption ==
    /\ Root \in Inums /\ Dots \subseteq Names /\ IsFiniteSet(Inums) /\ IsFiniteSet(Names)
    /\ Starts \subseteq Inums /\ Nobody \notin Procs /\ IsFiniteSet(Procs) /\ 0 \notin Inums

VARIABLES
    fs,         \* the inodes and their references; and the history of their reuse
    lock,       \* who holds the sleep lock of an inode
    cwd, file,  \* of each process: the current directory, an open file (or 0)
    st,         \* where each process is
    calls, panicked,
    strayed     \* history: a stale ".." was followed

vars == <<fs, lock, cwd, file, st, calls, panicked, strayed>>

NoEntries == [n \in Names |-> 0]
Free == [type |-> "none", nlink |-> 0, ents |-> NoEntries]
\* puts: the inodes to iput() before going on; freed: the first one is freed,
\* with its reference still counted.
Idle == [pc |-> "idle", call |-> 0, then |-> "", path |-> <<>>, name |-> "", ip |-> 0, dp |-> 0,
         puts |-> <<>>, freed |-> FALSE]

TypeOK ==
    /\ fs.inode \in [Inums -> [type : {"none", "DIR", "FILE", "DEVICE"}, nlink : Nat,
                               ents : [Names -> Inums \cup {0}]]]
    /\ fs.ref \in [Inums -> Nat] /\ fs.lost \in [Inums -> Nat]
    /\ fs.reused \subseteq Inums /\ fs.stale \subseteq Inums
    /\ lock \in [Inums -> Procs \cup {Nobody}]
    /\ cwd \in [Procs -> Inums] /\ file \in [Procs -> Inums \cup {0}]
    /\ \A p \in Procs : /\ st[p].pc = "idle" => [st[p] EXCEPT !.puts = <<>>, !.freed = FALSE] = Idle
                        /\ st[p].freed => st[p].puts # <<>>
    /\ calls \in 0 .. MaxCalls /\ panicked \in BOOLEAN /\ strayed \in BOOLEAN

Init ==
    /\ cwd \in [Procs -> Starts]
    /\ fs = [inode |-> Disk, ref |-> [i \in Inums |-> Cardinality({p \in Procs : cwd[p] = i})],
             lost |-> [i \in Inums |-> 0], reused |-> {}, stale |-> {}]
    /\ lock = [i \in Inums |-> Nobody]
    /\ file = [p \in Procs |-> 0]
    /\ st = [p \in Procs |-> Idle]
    /\ calls = 0 /\ panicked = FALSE /\ strayed = FALSE
------------------------------------------------------------------------------
Type(i) == fs.inode[i].type
dirlookup(d, n) == fs.inode[d].ents[n]
SetEntry(f, d, n, i) == [f EXCEPT !.inode[d].ents[n] = i]
AddLinks(f, i, k) == [f EXCEPT !.inode[i].nlink = @ + k]
iget(f, i) == [f EXCEPT !.ref[i] = @ + 1]       \* and idup()

\* p goes on as s says, once it has put the inodes of q.
Goto(p, s, q) == st' = [st EXCEPT ![p] = [s EXCEPT !.puts = q]]
End(p, q) == Goto(p, Idle, q)
Ready(p, pc) == st[p].pc = pc /\ st[p].puts = <<>>

\* itrunc() and type = 0 on disk.  The history keeps the names that go with a
\* directory, and the directories whose ".." is stale from now on.
Freed(f, i) ==
    LET names(j) == Cardinality({n \in Names \ Dots : f.inode[i].ents[n] = j})
        under == {d \in Inums : f.inode[d].type = "DIR" /\ f.inode[d].ents[".."] = i}
    IN  [f EXCEPT !.inode[i] = Free, !.lost = [j \in Inums |-> @[j] + names(j)],
                  !.reused = @ \ {i}, !.stale = (@ \cup under) \ {i}]

\* iput(): the last reference to an inode without links frees it on disk, but
\* is dropped only in a later step, the table having been unlocked meanwhile.
\* Whoever drops an inode had it locked before, so it is valid.  An inode that
\* is put after another one is unlocked (iunlockput()) only then.
CanFree(i) == fs.ref[i] = 1 /\ fs.inode[i].nlink = 0
Unlock(p, q) == lock' = [i \in Inums |-> IF q # <<>> /\ i = Head(q) /\ lock[i] = p THEN Nobody ELSE lock[i]]
iput(p) ==
    LET s == st[p]
        i == Head(s.puts)
    IN  /\ s.puts # <<>>
        /\ \/ /\ ~s.freed /\ CanFree(i)
              /\ fs' = Freed(fs, i)
              /\ Goto(p, [s EXCEPT !.freed = TRUE], s.puts)
              /\ UNCHANGED lock
           \/ /\ s.freed \/ ~CanFree(i)
              /\ fs' = [fs EXCEPT !.ref[i] = @ - 1]
              /\ Goto(p, [s EXCEPT !.freed = FALSE], Tail(s.puts))
              /\ Unlock(p, Tail(s.puts))
        /\ UNCHANGED <<cwd, file, calls, panicked, strayed>>

\* ilock(ip), where p is at pc.  A free inode is a panic.
At(p, pc) == Ready(p, pc) /\ lock[st[p].ip] = Nobody
ilock(p, pc) == At(p, pc) /\ Type(st[p].ip) # "none"

\* skipelem() and namex(): path from its first directory on, then at "then",
\* with the inode of the path or, for those that ask for it, of its parent.
Parent == {"unlink", "create", "dirlink"}
Fails(p, s, q) == IF s.then = "dirlink" THEN Goto(p, [s EXCEPT !.pc = "bad"], q) ELSE End(p, q)
From(p, path) == IF path.abs THEN Root ELSE cwd[p]
namex_start(p, s, f, path) ==
    LET ip == From(p, path) IN
    /\ fs' = iget(f, ip)
    /\ \/ path.elems = <<>> /\ s.then \in Parent /\ Fails(p, s, <<ip>>)
       \/ /\ path.elems # <<>> \/ s.then \notin Parent
          /\ Goto(p, [s EXCEPT !.pc = IF path.elems = <<>> THEN s.then ELSE "namex",
                               !.ip = ip, !.path = path.elems], <<>>)

namex(p) ==
    LET s == st[p]
        name == Head(s.path)
        rest == Tail(s.path)
        stop == s.then \in Parent /\ rest = <<>>
        next == dirlookup(s.ip, name)
    IN  /\ ilock(p, "namex")
        /\ \/ /\ Type(s.ip) # "DIR" \/ (~stop /\ next = 0)
              /\ Fails(p, s, <<s.ip>>)
              /\ UNCHANGED <<fs, strayed>>
           \/ /\ Type(s.ip) = "DIR" /\ stop
              /\ Goto(p, [s EXCEPT !.pc = s.then, !.name = name, !.path = <<>>], <<>>)
              /\ UNCHANGED <<fs, strayed>>
           \/ /\ Type(s.ip) = "DIR" /\ ~stop /\ next # 0
              /\ fs' = iget(fs, next)
              /\ strayed' = (strayed \/ (name = ".." /\ s.ip \in fs.stale))
              /\ Goto(p, [s EXCEPT !.pc = IF rest = <<>> THEN s.then ELSE "namex",
                                   !.ip = next, !.path = rest], <<s.ip>>)
        /\ UNCHANGED <<lock, cwd, file, calls, panicked>>

\* The system calls begin: open, O_CREATE and mkdir and mknod (create), unlink,
\* link (of path to new), chdir.
Begin(p, c) ==
    /\ Ready(p, "idle") /\ calls < MaxCalls
    /\ calls' = calls + 1
    /\ namex_start(p, [Idle EXCEPT !.call = c, !.then = c.op], fs, c.path)
    /\ UNCHANGED <<lock, cwd, file, panicked, strayed>>

close(p) ==
    /\ Ready(p, "idle") /\ file[p] # 0
    /\ End(p, <<file[p]>>)
    /\ file' = [file EXCEPT ![p] = 0]
    /\ UNCHANGED <<fs, lock, cwd, calls, panicked, strayed>>
------------------------------------------------------------------------------
\* sys_unlink(): the parent locked, then what the name leads to.
CannotUnlink_Never(n) == FALSE
CannotUnlink(n) == n \in Dots
unlink(p) ==
    LET dp == st[p].ip
        ip == dirlookup(dp, st[p].name)
    IN  /\ ilock(p, "unlink")
        /\ \/ /\ CannotUnlink(st[p].name) \/ ip = 0
              /\ End(p, <<dp>>)
              /\ UNCHANGED <<fs, lock>>
           \/ /\ ~CannotUnlink(st[p].name) /\ ip # 0
              /\ lock' = [lock EXCEPT ![dp] = p]
              /\ fs' = iget(fs, ip)
              /\ Goto(p, [st[p] EXCEPT !.pc = "unlink_ip", !.ip = ip, !.dp = dp], <<>>)
        /\ UNCHANGED <<cwd, file, calls, panicked, strayed>>

isdirempty(i) == \A n \in Names \ Dots : dirlookup(i, n) = 0

unlink_ip(p) ==
    LET s == st[p]
        dir == Type(s.ip) = "DIR"
        cut == SetEntry(fs, s.dp, s.name, 0)
        counted == AddLinks(IF dir THEN AddLinks(cut, s.dp, -1) ELSE cut, s.ip, -1)
    IN  /\ ilock(p, "unlink_ip") /\ fs.inode[s.ip].nlink >= 1
        /\ \/ /\ dir /\ ~isdirempty(s.ip)
              /\ End(p, <<s.ip, s.dp>>)
              /\ UNCHANGED <<fs, lock>>
           \/ /\ ~dir \/ isdirempty(s.ip)
              /\ fs' = counted
              /\ lock' = [lock EXCEPT ![s.dp] = Nobody, ![s.ip] = p]
              /\ End(p, <<s.dp, s.ip>>)
        /\ UNCHANGED <<cwd, file, calls, panicked, strayed>>

\* A file is opened, if a descriptor is free; a device may have a bad number.
Opened(p, i, q) ==
    \/ file[p] = 0 /\ file' = [file EXCEPT ![p] = i] /\ End(p, q)
    \/ (file[p] # 0 \/ Type(i) = "DEVICE") /\ UNCHANGED file /\ End(p, Append(q, i))

\* create(): a name that is there is locked only once the directory is not.
create(p) ==
    LET s == st[p]
        ip == dirlookup(s.ip, s.name)
        free == {i \in Inums : Type(i) = "none"}
    IN  /\ ilock(p, "create")
        /\ \/ /\ ip # 0
              /\ fs' = iget(fs, ip)
              /\ Goto(p, [s EXCEPT !.pc = "create_found", !.ip = ip], <<s.ip>>)
              /\ UNCHANGED lock
           \/ /\ ip = 0 /\ free = {}
              /\ End(p, <<s.ip>>)
              /\ UNCHANGED <<fs, lock>>
           \/ /\ ip = 0
              /\ \E i \in free :
                   /\ fs' = [fs EXCEPT !.inode[i] = [Free EXCEPT !.type = s.call.type],
                                       !.reused = @ \cup {j \in {i} : fs.ref[j] > 0}]
                   /\ Goto(p, [s EXCEPT !.pc = "ialloc_iget", !.ip = i, !.dp = s.ip], <<>>)
              /\ lock' = [lock EXCEPT ![s.ip] = p]
        /\ UNCHANGED <<cwd, file, calls, panicked, strayed>>

ialloc_iget(p) ==
    /\ Ready(p, "ialloc_iget")
    /\ fs' = iget(fs, st[p].ip)
    /\ Goto(p, [st[p] EXCEPT !.pc = "create_new"], <<>>)
    /\ UNCHANGED <<lock, cwd, file, calls, panicked, strayed>>

create_found(p) ==
    LET s == st[p] IN
    /\ ilock(p, "create_found")
    /\ \/ s.call.type = "FILE" /\ Type(s.ip) \in {"FILE", "DEVICE"} /\ Opened(p, s.ip, <<>>)
       \/ /\ ~(s.call.type = "FILE" /\ Type(s.ip) \in {"FILE", "DEVICE"})
          /\ End(p, <<s.ip>>) /\ UNCHANGED file
    /\ UNCHANGED <<fs, lock, cwd, calls, panicked, strayed>>

\* sys_mkdir() and sys_mknod() only drop what create() returns.
Made(p, i, q) == End(p, Append(q, i)) /\ UNCHANGED file

\* The new inode is filled in and named, or a dirlink() finds the disk full.
ForDotDot_Not(f, dp) == f
ForDotDot(f, dp) == AddLinks(f, dp, 1)
WithDots(f, ip, dp, made) ==
    [f EXCEPT !.inode[ip].ents = [n \in Names |-> IF n \notin made THEN @[n] ELSE IF n = "." THEN ip ELSE dp]]
create_new(p) ==
    LET s == st[p]
        dir == s.call.type = "DIR"
        named == SetEntry(AddLinks(WithDots(fs, s.ip, s.dp, IF dir THEN Dots ELSE {}), s.ip, 1),
                          s.dp, s.name, s.ip)
    IN  /\ ilock(p, "create_new")
        /\ \/ /\ fs' = IF dir THEN ForDotDot(named, s.dp) ELSE named
              /\ lock' = [lock EXCEPT ![s.dp] = Nobody]
              /\ \/ s.call.type = "FILE" /\ Opened(p, s.ip, <<s.dp>>)
                 \/ s.call.type # "FILE" /\ Made(p, s.ip, <<s.dp>>)
           \/ /\ \E made \in IF dir THEN {{}, {"."}, Dots} ELSE {{}} :
                    fs' = WithDots(fs, s.ip, s.dp, made)
              /\ End(p, <<s.ip, s.dp>>)
              /\ UNCHANGED <<lock, file>>
        /\ UNCHANGED <<cwd, calls, panicked, strayed>>

\* sys_open() without O_CREATE.
open(p) ==
    LET s == st[p]
        bad == Type(s.ip) = "DIR" /\ s.call.type # "RDONLY"
    IN  /\ ilock(p, "open")
        /\ \/ bad /\ End(p, <<s.ip>>) /\ UNCHANGED file
           \/ ~bad /\ Opened(p, s.ip, <<>>)
        /\ UNCHANGED <<fs, lock, cwd, calls, panicked, strayed>>

chdir(p) ==
    LET ip == st[p].ip IN
    /\ ilock(p, "chdir")
    /\ \/ Type(ip) # "DIR" /\ End(p, <<ip>>) /\ UNCHANGED cwd
       \/ Type(ip) = "DIR" /\ End(p, <<cwd[p]>>) /\ cwd' = [cwd EXCEPT ![p] = ip]
    /\ UNCHANGED <<fs, lock, file, calls, panicked, strayed>>

\* sys_link(): the link is counted, then made; dp holds the inode meanwhile.
link(p) ==
    LET s == st[p] IN
    /\ ilock(p, "link")
    /\ \/ Type(s.ip) = "DIR" /\ End(p, <<s.ip>>) /\ UNCHANGED fs
       \/ /\ Type(s.ip) # "DIR"
          /\ namex_start(p, [s EXCEPT !.then = "dirlink", !.dp = s.ip], AddLinks(fs, s.ip, 1), s.call.new)
    /\ UNCHANGED <<lock, cwd, file, calls, panicked, strayed>>

dirlink(p) ==
    LET s == st[p] IN
    /\ ilock(p, "dirlink")
    /\ \/ /\ dirlookup(s.ip, s.name) = 0
          /\ fs' = SetEntry(fs, s.ip, s.name, s.dp)
          /\ End(p, <<s.ip, s.dp>>)
       \/ /\ Fails(p, s, <<s.ip>>)   \* the name is there, or the disk is full
          /\ UNCHANGED fs
    /\ UNCHANGED <<lock, cwd, file, calls, panicked, strayed>>

link_bad(p) ==
    LET ip == st[p].dp IN
    /\ Ready(p, "bad") /\ lock[ip] = Nobody
    /\ fs' = AddLinks(fs, ip, -1)
    /\ End(p, <<ip>>)
    /\ UNCHANGED <<lock, cwd, file, calls, panicked, strayed>>

\* panic("ilock: no type") and panic("unlink: nlink < 1").
Panics(p) ==
    /\ \/ /\ st[p].pc \in {"namex", "unlink", "unlink_ip", "create", "create_found", "create_new",
                            "open", "chdir", "link", "dirlink"}
          /\ At(p, st[p].pc) /\ Type(st[p].ip) = "none"
       \/ ilock(p, "unlink_ip") /\ fs.inode[st[p].ip].nlink < 1
    /\ panicked' = TRUE
    /\ UNCHANGED <<fs, lock, cwd, file, st, calls, strayed>>

Next ==
    /\ ~panicked
    /\ \E p \in Procs :
          \/ \E c \in Calls : Begin(p, c)
          \/ close(p) \/ iput(p) \/ namex(p) \/ unlink(p) \/ unlink_ip(p) \/ create(p)
          \/ ialloc_iget(p) \/ create_found(p) \/ create_new(p) \/ open(p) \/ chdir(p)
          \/ link(p) \/ dirlink(p) \/ link_bad(p) \/ Panics(p)

Spec == Init /\ [][Next]_vars
------------------------------------------------------------------------------
(***************************************************************************)
(* Properties                                                              *)
(***************************************************************************)
Dirs == {i \in Inums : Type(i) = "DIR"}
Entries == {<<d, n, dirlookup(d, n)>> : d \in Dirs, n \in Names \ Dots}
Linking(i) == {p \in Procs : st[p].then = "dirlink" /\ st[p].dp = i}
Making(i) == {p \in Procs : st[p].pc = "ialloc_iget" /\ st[p].ip = i}
Links(entries, i) ==
    Cardinality({e \in entries : e[3] = i \/ (e[1] = i /\ e[3] \in Dirs)}) + fs.lost[i]
    + Cardinality(Linking(i)) + (IF i = Root THEN 1 ELSE 0)

\* The directories form a tree whatever calls meet in it: each has one name, its
\* ".." is the directory with that name, and every name and every open file or
\* current directory is an inode in use.  nlink counts the names of an inode
\* and, for a directory, those of its subdirectories' ".."; the links a link()
\* in progress has counted; and the names that went with a directory that was
\* removed, filled again by a process still in it, and then freed (create() and
\* link() do not look at the links of the directory).  An inode without links
\* is there only while someone holds or makes it, or when ialloc() took it from
\* an iput() that had freed it and not yet dropped it (module Inode says what
\* becomes of it).  The kernel panics only once a process has followed the ".."
\* of a removed directory to a parent that was freed since.
TreeShape ==
    LET entries == Entries IN
    /\ TypeOK
    /\ panicked => strayed
    /\ \A i \in Inums :
         IF Type(i) # "none"
         THEN /\ fs.inode[i].nlink = Links(entries, i)
              /\ fs.inode[i].nlink = 0 => fs.ref[i] > 0 \/ i \in fs.reused \/ Making(i) # {}
         ELSE \A p \in Procs : i \notin {cwd[p], file[p]}
    /\ \A e \in entries : e[3] # 0 =>
         /\ Type(e[3]) # "none"
         /\ Type(e[3]) = "DIR" =>
              /\ \A x \in entries : x[3] = e[3] => x = e
              /\ dirlookup(e[3], ".") = e[3] /\ dirlookup(e[3], "..") = e[1]

\* No processes wait for each other's inode locks in a circle, and none for a
\* lock it holds, although paths go up (".."), down and nowhere (".") and
\* create() and unlink() hold a directory while they lock what is in it.
WaitsForLock(p) == st[p].pc \notin {"idle", "ialloc_iget"} /\ st[p].puts = <<>>
WantedLock(p) == IF st[p].pc = "bad" THEN st[p].dp ELSE st[p].ip
NoLockCycle ==
    \A S \in SUBSET Procs \ {{}} :
       \E p \in S : ~WaitsForLock(p) \/ lock[WantedLock(p)] \notin S
==============================================================================
