------------------------------ MODULE FileTable ------------------------------
(***************************************************************************)
(* The open files of kernel/file.c and the file descriptors of sysfile.c:  *)
(* how open, dup, pipe, close, fork and exit share struct file, pipes and  *)
(* in-memory inodes among processes by counting references.                *)
(*                                                                         *)
(* A section under ftable.lock is a step, and so is the close of a pipe    *)
(* end or the iput() that follows a last close; what a process does to its *)
(* own descriptors between two such steps is part of the first.  todo[p]   *)
(* is the rest of the system call that p executes.                         *)
(***************************************************************************)
EXTENDS Integers, FiniteSets, Sequences, FiniteSetsExt

CONSTANTS
    Procs,
    First,     \* the process that runs first
    NFILE, NOFILE,
    Pages      \* pages that kalloc() may return for a pipe

Files == 1 .. NFILE
Fds == 0 .. NOFILE - 1
NoFile == 0

ASSUME FileAssumption ==
    First \in Procs /\ IsFiniteSet(Procs) /\ IsFiniteSet(Pages) /\ NFILE \in Nat /\ NOFILE \in Nat \ {0}

VARIABLES
    ref, type, page, writable,   \* struct file: of each file
    ofile,     \* p->ofile
    live,      \* the processes that exist
    open,      \* of each page: the ends of the pipe in it that are open
    iref,      \* references to the inode that open() finds
    todo, panicked

fileVars == <<type, page, writable>>
vars == <<ref, fileVars, ofile, live, open, iref, todo, panicked>>

Ends == {"r", "w"}

\* What a system call has left to do, with its arguments.
Op == [op : {"open", "iput", "filedup", "fileclose", "pipe0", "pipe1", "pipe2", "pipeclose", "fork", "exit"},
       x : Files \cup Pages \cup Procs \cup {0}, y : Files \cup Fds \cup {1}]

TypeOK ==
    /\ ref \in [Files -> Nat]
    /\ type \in [Files -> {"none", "pipe", "inode"}]
    /\ page \in [Files -> Pages \cup {0}] /\ writable \in [Files -> {0, 1}]
    /\ ofile \in [Procs -> [Fds -> Files \cup {NoFile}]]
    /\ live \subseteq Procs
    /\ open \in [Pages -> SUBSET Ends]
    /\ iref \in Nat
    /\ todo \in [Procs -> Seq(Op)] /\ \A p \in Procs : Len(todo[p]) <= 2
    /\ panicked \in {0, 1}

Init ==
    /\ ref = [f \in Files |-> 0] /\ type = [f \in Files |-> "none"]
    /\ page = [f \in Files |-> 0] /\ writable = [f \in Files |-> 0]
    /\ ofile = [p \in Procs |-> [fd \in Fds |-> NoFile]]
    /\ live = {First}
    /\ open = [g \in Pages |-> {}]
    /\ iref = 0
    /\ todo = [p \in Procs |-> <<>>]
    /\ panicked = 0
------------------------------------------------------------------------------
\* The rest of a system call.
do(o, x, y) == [op |-> o, x |-> x, y |-> y]
closing(f) == do("fileclose", f, 0)
Busy(p, o) == todo[p] # <<>> /\ Head(todo[p]).op = o
Idle(p) == p \in live /\ todo[p] = <<>>
Then(p, s) == todo' = [todo EXCEPT ![p] = s]
Continue(p, s) == Then(p, s \o Tail(todo[p]))

FreeFiles == {f \in Files : ref[f] = 0}
FreeFds(p) == {fd \in Fds : ofile[p][fd] = NoFile}

\* sys_open(): namei() or create() gave a reference to the inode.
sys_open(p) ==
    /\ Idle(p)
    /\ iref' = iref + 1
    /\ Then(p, <<do("open", 0, 0)>>)
    /\ UNCHANGED <<ref, fileVars, ofile, live, open, panicked>>

\* It goes on with filealloc() and fdalloc(); either may fail.
OpenFails_Leak(p, s) == Then(p, s)
OpenFails(p, s) == Then(p, s \o <<do("iput", 0, 0)>>)
open_alloc(p) ==
    LET f == Min(FreeFiles) IN
    /\ Busy(p, "open")
    /\ \/ /\ FreeFiles = {}
          /\ OpenFails(p, <<>>)
          /\ UNCHANGED <<ref, fileVars, ofile>>
       \/ /\ FreeFiles # {} /\ FreeFds(p) = {}
          /\ ref' = [ref EXCEPT ![f] = 1]
          /\ OpenFails(p, <<closing(f)>>)
          /\ UNCHANGED <<fileVars, ofile>>
       \/ /\ FreeFiles # {} /\ FreeFds(p) # {}
          /\ ref' = [ref EXCEPT ![f] = 1]
          /\ type' = [type EXCEPT ![f] = "inode"]
          /\ ofile' = [ofile EXCEPT ![p][Min(FreeFds(p))] = f]
          /\ Continue(p, <<>>)
          /\ UNCHANGED <<page, writable>>
    /\ UNCHANGED <<live, open, iref, panicked>>

\* sys_dup(): the descriptor is there before the reference is counted.
sys_dup(p) ==
    /\ Idle(p)
    /\ FreeFds(p) # {}
    /\ \E fd \in Fds \ FreeFds(p) :
          /\ ofile' = [ofile EXCEPT ![p][Min(FreeFds(p))] = ofile[p][fd]]
          /\ Then(p, <<do("filedup", ofile[p][fd], 0)>>)
    /\ UNCHANGED <<ref, fileVars, live, open, iref, panicked>>

filedup(p) ==
    LET f == Head(todo[p]).x IN
    /\ Busy(p, "filedup")
    /\ panicked' = IF ref[f] < 1 THEN 1 ELSE 0
    /\ ref' = [ref EXCEPT ![f] = @ + 1]
    /\ Continue(p, <<>>)
    /\ UNCHANGED <<fileVars, ofile, live, open, iref>>

sys_close(p) ==
    /\ Idle(p)
    /\ \E fd \in Fds \ FreeFds(p) :
          /\ ofile' = [ofile EXCEPT ![p][fd] = NoFile]
          /\ Then(p, <<closing(ofile[p][fd])>>)
    /\ UNCHANGED <<ref, fileVars, live, open, iref, panicked>>

\* fileclose(): the last close takes a copy of the file, frees it, and then
\* closes what the copy stands for.
Closed_Typed(f) == type
Closed(f) == [type EXCEPT ![f] = "none"]
LastRef(f) == ref[f] = 1
fileclose(p) ==
    LET f == Head(todo[p]).x IN
    /\ Busy(p, "fileclose")
    /\ panicked' = IF ref[f] < 1 THEN 1 ELSE 0
    /\ \/ /\ ~LastRef(f)
          /\ ref' = [ref EXCEPT ![f] = @ - 1]
          /\ Continue(p, <<>>)
          /\ UNCHANGED type
       \/ /\ LastRef(f)
          /\ ref' = [ref EXCEPT ![f] = 0]
          /\ type' = Closed(f)
          /\ Continue(p, CASE type[f] = "pipe" -> <<do("pipeclose", page[f], writable[f])>>
                           [] type[f] = "inode" -> <<do("iput", 0, 0)>>
                           [] type[f] = "none" -> <<>>)
    /\ UNCHANGED <<page, writable, ofile, live, open, iref>>

iput(p) ==
    /\ Busy(p, "iput")
    /\ iref' = iref - 1
    /\ Continue(p, <<>>)
    /\ UNCHANGED <<ref, fileVars, ofile, live, open, panicked>>

\* pipeclose(); the page goes back when both ends are closed.
pipeclose(p) ==
    LET g == Head(todo[p]).x
        e == IF Head(todo[p]).y = 1 THEN "w" ELSE "r" IN
    /\ Busy(p, "pipeclose")
    /\ open' = [open EXCEPT ![g] = @ \ {e}]
    /\ panicked' = IF e \in open[g] THEN panicked ELSE 1
    /\ Continue(p, <<>>)
    /\ UNCHANGED <<ref, fileVars, ofile, live, iref>>

sys_pipe(p) ==
    /\ Idle(p)
    /\ Then(p, <<do("pipe0", 0, 0)>>)
    /\ UNCHANGED <<ref, fileVars, ofile, live, open, iref, panicked>>

\* pipealloc(): the two files, one after the other,
pipealloc(p) ==
    /\ Busy(p, "pipe0") \/ Busy(p, "pipe1")
    /\ LET f == Min(FreeFiles) IN
       \/ /\ FreeFiles = {}
          /\ Then(p, IF Busy(p, "pipe0") THEN <<>> ELSE <<closing(Head(todo[p]).x)>>)
          /\ UNCHANGED ref
       \/ /\ FreeFiles # {}
          /\ ref' = [ref EXCEPT ![f] = 1]
          /\ Then(p, IF Busy(p, "pipe0") THEN <<do("pipe1", f, 0)>>
                                         ELSE <<do("pipe2", Head(todo[p]).x, f)>>)
    /\ UNCHANGED <<fileVars, ofile, live, open, iref, panicked>>

\* the page, which kalloc() may not have; then sys_pipe() finds descriptors
\* and copies them out, and undoes everything when either fails.
pipe_page(p) ==
    LET rf == Head(todo[p]).x
        wf == Head(todo[p]).y
        fd0 == Min(FreeFds(p))
        fd1 == Min(FreeFds(p) \ {fd0})
        undo == <<closing(rf), closing(wf)>> IN
    /\ Busy(p, "pipe2")
    /\ \/ /\ Then(p, undo)
          /\ UNCHANGED <<fileVars, ofile, open>>
       \/ \E g \in {h \in Pages : open[h] = {}} :
             /\ open' = [open EXCEPT ![g] = Ends]
             /\ type' = [type EXCEPT ![rf] = "pipe", ![wf] = "pipe"]
             /\ page' = [page EXCEPT ![rf] = g, ![wf] = g]
             /\ writable' = [writable EXCEPT ![rf] = 0, ![wf] = 1]
             /\ \/ Then(p, undo) /\ UNCHANGED ofile
                \/ /\ Cardinality(FreeFds(p)) >= 2
                   /\ ofile' = [ofile EXCEPT ![p][fd0] = rf, ![p][fd1] = wf]
                   /\ Then(p, <<>>)
    /\ UNCHANGED <<ref, live, iref, panicked>>

\* fork(): the child gets the parent's descriptors one by one, each of them
\* counted before the child can run.
fork(p) ==
    /\ Idle(p)
    /\ \E q \in Procs \ live :
          /\ todo[q] = <<>>
          /\ \A r \in Procs : Busy(r, "fork") => Head(todo[r]).x # q
          /\ Then(p, <<do("fork", q, 0)>>)
    /\ UNCHANGED <<ref, fileVars, ofile, live, open, iref, panicked>>

fork_dup(p) ==
    LET q == Head(todo[p]).x
        fd == Head(todo[p]).y
        f == ofile[p][fd] IN
    /\ Busy(p, "fork")
    /\ ofile' = [ofile EXCEPT ![q][fd] = f]
    /\ \/ f = NoFile /\ UNCHANGED <<ref, panicked>>
       \/ /\ f # NoFile
          /\ ref' = [ref EXCEPT ![f] = @ + 1]
          /\ panicked' = IF ref[f] < 1 THEN 1 ELSE 0
    /\ IF fd = NOFILE - 1 THEN Then(p, <<>>) /\ live' = live \cup {q}
                          ELSE Then(p, <<do("fork", q, fd + 1)>>) /\ UNCHANGED live
    /\ UNCHANGED <<fileVars, open, iref>>

\* exit() closes the descriptors in order.  It clears each after fileclose(),
\* here before: nobody but the process reads its descriptors.
exit(p) ==
    /\ Idle(p)
    /\ p # First     \* panic("init exiting")
    /\ live' = live \ {p}
    /\ Then(p, <<do("exit", 0, 0)>>)
    /\ UNCHANGED <<ref, fileVars, ofile, open, iref, panicked>>

exit_close(p) ==
    LET fd == Head(todo[p]).y
        f == ofile[p][fd]
        rest == IF fd = NOFILE - 1 THEN <<>> ELSE <<do("exit", 0, fd + 1)>> IN
    /\ Busy(p, "exit")
    /\ ofile' = [ofile EXCEPT ![p][fd] = NoFile]
    /\ Then(p, IF f = NoFile THEN rest ELSE <<closing(f)>> \o rest)
    /\ UNCHANGED <<ref, fileVars, live, open, iref, panicked>>

Next ==
    /\ panicked = 0
    /\ \E p \in Procs : sys_open(p) \/ open_alloc(p) \/ sys_dup(p) \/ filedup(p) \/ sys_close(p)
                        \/ fileclose(p) \/ iput(p) \/ pipeclose(p) \/ sys_pipe(p) \/ pipealloc(p)
                        \/ pipe_page(p) \/ fork(p) \/ fork_dup(p) \/ exit(p) \/ exit_close(p)

Spec == Init /\ [][Next]_vars
------------------------------------------------------------------------------
(***************************************************************************)
(* Properties                                                              *)
(***************************************************************************)
\* The references to file f: descriptors, and references that a system call
\* in progress holds or is about to count.
Descriptors(f) == {x \in Procs \X Fds : ofile[x[1]][x[2]] = f}
Steps == {x \in Procs \X (1 .. 2) : x[2] \in DOMAIN todo[x[1]]}
Step(x) == todo[x[1]][x[2]]
Held(f) == {x \in Steps : \/ Step(x).op \in {"fileclose", "pipe1", "pipe2"} /\ Step(x).x = f
                          \/ Step(x).op = "pipe2" /\ Step(x).y = f}
Uncounted(f) == {x \in Steps : Step(x).op = "filedup" /\ Step(x).x = f}

\* ftable counts exactly the references there are, whatever calls of other
\* processes come in between: no file is freed while a descriptor points to
\* it, and none stays allocated without one.  The inode has one reference for
\* each open file on it and for each call of open() or close() that has yet to
\* take it over or drop it.
RefsCounted ==
    /\ TypeOK /\ panicked = 0
    /\ \A f \in Files : ref[f] + Cardinality(Uncounted(f))
                         = Cardinality(Descriptors(f)) + Cardinality(Held(f))
    /\ iref = Cardinality({f \in Files : ref[f] > 0 /\ type[f] = "inode"})
              + Cardinality({x \in Steps : Step(x).op \in {"open", "iput"}})

\* An end of a pipe is open exactly as long as one file stands for it, or its
\* close is under way; so a page is given back once, when both ends are gone,
\* and no file points to a page that was given back.
PipeEnds ==
    \A g \in Pages : \A w \in {0, 1} :
        Cardinality({f \in Files : ref[f] > 0 /\ type[f] = "pipe" /\ page[f] = g /\ writable[f] = w})
        + Cardinality({x \in Steps : Step(x) = do("pipeclose", g, w)})
        = IF (IF w = 1 THEN "w" ELSE "r") \in open[g] THEN 1 ELSE 0
==============================================================================
