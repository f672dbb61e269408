--------------------------- MODULE FileTableProofs ---------------------------
(***************************************************************************)
(* Proofs about FileTable, for any processes, files, descriptors and       *)
(* pages: the reference counts of open files, of the inode and of the ends *)
(* of pipes are exact, and the panics of filedup() and fileclose() are     *)
(* never met.  FileTableLemmas has the invariant and the other steps.      *)
(***************************************************************************)
EXTENDS FileTableLemmas

USE ZenonT(60)
------------------------------------------------------------------------------
(***************************************************************************)
(* The steps that allocate files, and those of fork() and exit(), keep the *)
(* invariant                                                               *)
(***************************************************************************)
\* A process that is in a system call other than exit() exists.
LEMMA Running ==
  ASSUME Inv, NEW p \in Procs, todo[p] # <<>>, Head(todo[p]).op \notin {"fileclose", "iput", "pipeclose", "exit"}
  PROVE  p \in live
<1>1. Head(todo[p]) \in Pending(todo[p])
  BY Heads
<1> QED BY <1>1 DEF Inv, TodoInv

\* open() fails, and drops the inode, or its file and then the inode;
LEMMA OpenFailsInv ==
  ASSUME Inv, NEW p \in Procs, open_alloc(p), FreeFiles = {} \/ FreeFds(p) = {}
  PROVE  Inv'
<1> DEFINE h == Head(todo[p])
           k == Min(FreeFiles)
           c == closing(k)
           d == do("iput", 0, 0)
<1>1. todo[p] # <<>> /\ h.op = "open"
  BY DEF open_alloc, Busy
<1>2. todo \in Calls /\ h \in Op /\ h \in Pending(todo[p]) /\ todo[p] = <<h>> /\ Pending(todo[p]) = {h} /\ p \in live
  BY <1>1, Heads, Running
<1>3. d \in Op /\ d.op = "iput" /\ OpOK(d)
  <2>1. d \in Op
    BY DoOp
  <2>2. d.op = "iput"
    BY DEF do
  <2>3. OpOK(d)
    BY <2>2 DEF OpOK
  <2> QED BY <2>1, <2>2, <2>3
<1>4. UNCHANGED <<type, page, writable, ofile, live, open, iref, panicked>>
  BY DEF open_alloc, fileVars
<1>5. /\ One(h, InodeOps) = 1 /\ One(d, InodeOps) = 1
      /\ \A f : One(h, UncountedOps(f)) = 0 /\ One(h, HeldOps(f)) = 0 /\ One(d, UncountedOps(f)) = 0 /\ One(d, HeldOps(f)) = 0
      /\ \A g, w : One(h, CloseOps(g, w)) = 0 /\ One(d, CloseOps(g, w)) = 0
  BY <1>1, <1>2, <1>3 DEF One, InodeOps, UncountedOps, HeldOps, CloseOps
<1>6. \A f : ~Mentions(d, f)
  BY <1>3 DEF Mentions, HeldOps, UncountedOps
<1>7. CASE FreeFiles = {}
  <2>1. ref' = ref /\ todo' = Set(todo, p, <<d>>)
    <3>1. <<>> \o <<d>> = <<d>>
      <4> HIDE DEF d
      <4> QED BY SMTT(30)
    <3> QED BY <1>7, <3>1 DEF open_alloc, OpenFails, Then, Set
  <2> HIDE DEF h, d
  <2>2. /\ todo' \in Calls /\ Len(todo'[p]) # 2 /\ Pending(todo'[p]) = {d}
        /\ \A q \in Procs : q # p => todo'[q] = todo[q]
    BY <1>2, <1>3, <2>1, Turn
  <2>3. ASSUME NEW Q PROVE Tally(todo, Q) \in Nat /\ Tally(todo', Q) \in Nat /\ Tally(todo', Q) + One(h, Q) = Tally(todo, Q) + One(d, Q)
    BY <1>2, <1>3, <2>1, TurnTally
  <2>4. ASSUME NEW Q, One(h, Q) = One(d, Q), One(d, Q) \in {0, 1} PROVE Tally(todo', Q) = Tally(todo, Q)
    BY <2>3, <2>4, SMTT(30)
  <2>5. TypeOK' /\ panicked' = 0
    BY <1>4, <2>1, <2>2 DEF Inv, TypeOK, Calls
  <2>6. TodoInv'
    BY <1>2, <1>3, <1>4, <2>2, KeepsTodo
  <2>7. ForkInv' /\ DeadInv'
    BY <1>1, <1>2, <1>3, <1>4, <2>2, KeepsFork DEF h
  <2>8. DupInv'
    BY <1>3, <1>4, <2>2, KeepsDup
  <2>9. FileInv'
    BY <1>4, <2>1 DEF Inv, FileInv
  <2>10. FreshInv'
    <3>1. \A f \in Files : ~Touches(p, f) =>
             /\ ref'[f] = ref[f] /\ type'[f] = type[f]
             /\ \A r \in Procs : \A fd \in Fds : ofile'[r][fd] # f
             /\ \A u \in Pending(todo'[p]) : ~Mentions(u, f)
      BY <1>4, <1>6, <2>1, <2>2 DEF Touches
    <3> QED BY <1>3, <2>2, <3>1, KeepsFresh
  <2>11. CountInv'
    <3>1. ASSUME NEW f \in Files
          PROVE  ref'[f] + Tally(todo', UncountedOps(f)) = Cardinality(FdsOf(ofile', f)) + Tally(todo', HeldOps(f))
      <4>1. Tally(todo', UncountedOps(f)) = Tally(todo, UncountedOps(f)) /\ Tally(todo', HeldOps(f)) = Tally(todo, HeldOps(f))
        BY <1>5, <2>4
      <4> QED BY <1>4, <2>1, <4>1 DEF Inv, CountInv
    <3>2. Tally(todo', InodeOps) = Tally(todo, InodeOps)
      BY <1>5, <2>4
    <3>3. \A g \in Pages : \A w \in {0, 1} : Tally(todo', CloseOps(g, w)) = Tally(todo, CloseOps(g, w))
      BY <1>5, <2>4
    <3> QED BY <1>4, <3>1, <3>2, <3>3, KeepsRest
  <2> QED BY <2>5, <2>6, <2>7, <2>8, <2>9, <2>10, <2>11 DEF Inv
<1>8. CASE FreeFiles # {}
  <2>1. k \in Files /\ ref[k] = 0
    <3>1. FreeFiles \in SUBSET Files
      BY DEF FreeFiles
    <3>2. k \in FreeFiles
      BY <1>8, <3>1, LeastFree
    <3> QED BY <3>2 DEF FreeFiles
  <2>2. c \in Op /\ c.op = "fileclose" /\ c.x = k /\ OpOK(c)
    <3>1. c \in Op
      BY <2>1, DoOp
    <3>2. c.op = "fileclose" /\ c.x = k
      BY DEF closing, do
    <3> QED BY <2>1, <3>1, <3>2 DEF OpOK
  <2>3. ref' = [ref EXCEPT ![k] = 1] /\ todo' = Two(todo, p, c, d)
    <3>1. <<c>> \o <<d>> = <<c, d>>
      <4> HIDE DEF c, d
      <4> QED BY <1>3, <2>2, PairOf
    <3> QED BY <1>8, <3>1 DEF open_alloc, OpenFails, Then, Set, Two
  <2> HIDE DEF h, c, d, k
  <2>4. /\ todo' \in Calls /\ todo'[p][1] = c /\ todo'[p][2] = d /\ Pending(todo'[p]) = {c, d}
        /\ \A q \in Procs : q # p => todo'[q] = todo[q]
    <3>1. Two(todo, p, c, d) \in Calls /\ \A q \in Procs : q # p => Two(todo, p, c, d)[q] = todo[q]
      BY <1>2, <1>3, <2>2, Split
    <3>2. Two(todo, p, c, d)[p] = <<c, d>>
      BY <1>2, <1>3, <2>2, SplitOps
    <3>3. Pending(<<c, d>>) = {c, d}
      BY PendingOf
    <3>4. <<c, d>>[1] = c /\ <<c, d>>[2] = d
      BY <1>3, <2>2, Shapes
    <3> QED BY <2>3, <3>1, <3>2, <3>3, <3>4
  <2>5. ASSUME NEW Q PROVE /\ Tally(todo, Q) \in Nat /\ Tally(todo', Q) \in Nat
                           /\ Tally(todo', Q) + One(h, Q) = Tally(todo, Q) + (One(c, Q) + One(d, Q))
    <3>1. /\ Tally(todo, Q) \in Nat /\ Tally(Two(todo, p, c, d), Q) \in Nat
          /\ Tally(Two(todo, p, c, d), Q) + One(Head(todo[p]), Q) = Tally(todo, Q) + (One(c, Q) + One(d, Q))
      BY <1>2, <1>3, <2>2, SplitTally DEF h
    <3> QED BY <2>3, <3>1 DEF h
  <2>6. ASSUME NEW Q, One(h, Q) = One(d, Q), One(d, Q) \in {0, 1}, One(c, Q) \in {0, 1} PROVE Tally(todo', Q) = Tally(todo, Q) + One(c, Q)
    BY <2>5, <2>6, SMTT(30)
  <2>7. ref' \in [Files -> Nat] /\ ref'[k] = 1 /\ \A f \in Files : f # k => ref'[f] = ref[f]
    <3>1. 1 \in Nat
      BY SMTT(30)
    <3> QED BY <2>1, <2>3, <3>1 DEF Inv, TypeOK
  <2>8. TypeOK' /\ panicked' = 0
    BY <1>4, <2>4, <2>7 DEF Inv, TypeOK, Calls
  <2>9. TodoInv'
    BY <1>2, <1>3, <1>4, <2>2, <2>4, KeepsTodo
  <2>10. ForkInv' /\ DeadInv'
    BY <1>1, <1>2, <1>3, <1>4, <2>2, <2>4, KeepsFork DEF h
  <2>11. DupInv'
    BY <1>3, <1>4, <2>2, <2>4, KeepsDup
  <2>12. FileInv'
    <3>1. 0 # 1
      BY SMTT(30), SMTT(60)
    <3> QED BY <1>4, <2>1, <2>7, <3>1 DEF Inv, FileInv
  <2>13. FreshInv'
    <3>1. \A f \in Files : ~Touches(p, f) =>
             /\ ref'[f] = ref[f] /\ type'[f] = type[f]
             /\ \A r \in Procs : \A fd \in Fds : ofile'[r][fd] # f
             /\ \A u \in Pending(todo'[p]) : ~Mentions(u, f)
      <4> SUFFICES ASSUME NEW f \in Files, ~Touches(p, f)
                   PROVE  f # k /\ ~Mentions(c, f) /\ (\A r \in Procs : \A fd \in Fds : ofile[r][fd] # f)
        BY <1>4, <1>6, <2>4, <2>7
      <4>1. f # k
        BY <2>1 DEF Touches
      <4> QED BY <2>2, <4>1 DEF Touches, Mentions, HeldOps, UncountedOps
    <3> QED BY <1>3, <2>2, <2>4, <3>1, KeepsFresh
  <2>14. CountInv'
    <3>1. ASSUME NEW f \in Files
          PROVE  ref'[f] + Tally(todo', UncountedOps(f)) = Cardinality(FdsOf(ofile', f)) + Tally(todo', HeldOps(f))
      <4> DEFINE r == ref[f]
                 s == ref'[f]
                 u == Tally(todo, UncountedOps(f))
                 n == Cardinality(FdsOf(ofile, f))
                 m == Tally(todo, HeldOps(f))
                 e == IF k = f THEN 1 ELSE 0
      <4>1. n \in Nat /\ r \in Nat
        BY FdsFinite DEF Inv, TypeOK
      <4>2. One(c, UncountedOps(f)) = 0 /\ One(c, HeldOps(f)) = e
        BY <2>2, Weights
      <4>3. m \in Nat /\ u \in Nat /\ Tally(todo', UncountedOps(f)) = u + 0 /\ Tally(todo', HeldOps(f)) = m + e
        <5>1. e \in {0, 1} /\ 0 \in {0, 1}
          OBVIOUS
        <5> QED BY <1>5, <2>5, <2>6, <4>2, <5>1
      <4>4. r + u = n + m
        BY DEF Inv, CountInv
      <4>5. (k = f => s = 1 /\ r = 0 /\ e = 1) /\ (k # f => s = r /\ e = 0)
        BY <2>1, <2>7
      <4>6. s + (u + 0) = n + (m + e)
        <5> HIDE DEF r, s, u, n, m, e
        <5> QED BY <4>1, <4>3, <4>4, <4>5, SMTT(30), SMTT(60)
      <4> QED BY <1>4, <4>3, <4>6
    <3>2. ASSUME NEW Q, One(h, Q) = One(d, Q), One(d, Q) \in {0, 1}, One(c, Q) = 0 PROVE Tally(todo', Q) = Tally(todo, Q)
      BY <2>5, <3>2, SMTT(30), SMTT(60)
    <3>3. One(c, InodeOps) = 0 /\ \A g, w : One(c, CloseOps(g, w)) = 0
      BY <2>2 DEF One, InodeOps, CloseOps
    <3>4. Tally(todo', InodeOps) = Tally(todo, InodeOps)
      BY <1>5, <3>2, <3>3
    <3>5. \A g \in Pages : \A w \in {0, 1} : Tally(todo', CloseOps(g, w)) = Tally(todo, CloseOps(g, w))
      BY <1>5, <3>2, <3>3
    <3> QED BY <1>4, <3>1, <3>4, <3>5, KeepsRest
  <2> QED BY <2>8, <2>9, <2>10, <2>11, <2>12, <2>13, <2>14 DEF Inv
<1> QED BY <1>7, <1>8

\* or it has a file and a descriptor for the inode.
LEMMA OpenDoneInv ==
  ASSUME Inv, NEW p \in Procs, open_alloc(p), FreeFiles # {}, FreeFds(p) # {}
  PROVE  Inv'
<1> DEFINE h == Head(todo[p])
           k == Min(FreeFiles)
           n == Min(FreeFds(p))
<1>1. todo[p] # <<>> /\ h.op = "open"
  BY DEF open_alloc, Busy
<1>2. /\ todo \in Calls /\ h \in Op /\ h \in Pending(todo[p]) /\ todo[p] = <<h>> /\ Tail(todo[p]) = <<>>
      /\ Pending(todo[p]) = {h} /\ p \in live
  BY <1>1, Heads, Running
<1>3. k \in Files /\ ref[k] = 0 /\ n \in Fds /\ ofile[p][n] = NoFile
  <2>1. FreeFiles \in SUBSET Files /\ FreeFds(p) \in SUBSET Fds
    BY DEF FreeFiles, FreeFds
  <2>2. k \in FreeFiles /\ n \in FreeFds(p)
    BY <2>1, LeastFree
  <2> QED BY <2>2 DEF FreeFiles, FreeFds
<1>4. /\ ref' = [ref EXCEPT ![k] = 1] /\ type' = [type EXCEPT ![k] = "inode"] /\ ofile' = WithFd(ofile, p, n, k)
      /\ todo' = Set(todo, p, <<>>) /\ UNCHANGED <<page, writable, live, open, iref, panicked>>
  <2>1. <<>> \o <<>> = <<>>
    BY SMTT(30), SMTT(60)
  <2> QED BY <1>2, <2>1 DEF open_alloc, Continue, Then, Set, WithFd
<1>5. type[k] = "none" /\ type \in [Files -> {"none", "pipe", "inode"}]
  BY <1>3 DEF Inv, FileInv, TypeOK
<1> HIDE DEF h, k, n
<1>6. /\ todo' \in Calls /\ Len(todo'[p]) # 2 /\ Pending(todo'[p]) = {}
      /\ \A q \in Procs : q # p => todo'[q] = todo[q]
  BY <1>2, <1>4, Finish
<1>7. ASSUME NEW Q PROVE Tally(todo, Q) \in Nat /\ Tally(todo', Q) \in Nat /\ Tally(todo, Q) = Tally(todo', Q) + One(h, Q)
  <2>1. /\ Tally(todo, Q) \in Nat /\ Tally(Set(todo, p, <<>>), Q) \in Nat
        /\ Tally(todo, Q) = Tally(Set(todo, p, <<>>), Q) + One(h, Q)
    BY <1>2, FinishTally
  <2> QED BY <1>4, <2>1
<1>8. ofile \in Tables /\ k \in Slots
  BY <1>3 DEF Inv, TypeOK, Tables, Slots
<1>9. /\ ofile' \in Tables /\ ofile'[p][n] = k
      /\ \A q \in Procs : \A e \in Fds : q # p \/ e # n => ofile'[q][e] = ofile[q][e]
  BY <1>3, <1>4, <1>8, FdSet, SMTT(30), SMTT(60)
<1>10. \A q \in Procs : q # p => ofile'[q] = ofile[q]
  BY <1>3, <1>4, <1>8, FdSet, SMTT(30), SMTT(60)
<1>11. /\ ref' \in [Files -> Nat] /\ ref'[k] = 1 /\ \A f \in Files : f # k => ref'[f] = ref[f]
       /\ type' \in [Files -> {"none", "pipe", "inode"}] /\ type'[k] = "inode" /\ \A f \in Files : f # k => type'[f] = type[f]
  <2>1. 1 \in Nat /\ ref \in [Files -> Nat]
    <3>1. 1 \in Nat
      BY SMTT(30), SMTT(60)
    <3> QED BY <3>1 DEF Inv, TypeOK
  <2>2. ref' \in [Files -> Nat] /\ ref'[k] = 1 /\ \A f \in Files : f # k => ref'[f] = ref[f]
    BY <1>3, <1>4, <2>1
  <2>3. type' \in [Files -> {"none", "pipe", "inode"}] /\ type'[k] = "inode" /\ \A f \in Files : f # k => type'[f] = type[f]
    BY <1>3, <1>4, <1>5
  <2> QED BY <2>2, <2>3
<1>12. TypeOK' /\ panicked' = 0
  BY <1>4, <1>6, <1>9, <1>11 DEF Inv, TypeOK, Calls, Tables, Slots
<1>13. TodoInv'
  BY <1>4, <1>6, KeepsTodo
<1>14. ForkInv' /\ DeadInv'
  BY <1>1, <1>2, <1>4, <1>6, <1>10, KeepsFork
<1>15. DupInv'
  BY <1>6, <1>10, KeepsDup
<1>16. FileInv'
  <2>1. 0 # 1
    BY SMTT(30), SMTT(60)
  <2> QED BY <1>4, <1>11, <2>1 DEF Inv, FileInv
<1>17. FreshInv'
  <2>1. \A f \in Files : ~Touches(p, f) =>
             /\ ref'[f] = ref[f] /\ type'[f] = type[f]
             /\ \A r \in Procs : \A fd \in Fds : ofile'[r][fd] # f
             /\ \A u \in Pending(todo'[p]) : ~Mentions(u, f)
    <3> SUFFICES ASSUME NEW f \in Files, ~Touches(p, f)
                 PROVE  f # k /\ (\A r \in Procs : \A fd \in Fds : ofile'[r][fd] # f)
      BY <1>6, <1>11
    <3>1. f # k
      BY <1>3 DEF Touches
    <3> QED BY <1>9, <3>1 DEF Touches
  <2> QED BY <1>6, <2>1, KeepsFresh
<1>18. ASSUME NEW Q, One(h, Q) = 0 PROVE Tally(todo', Q) = Tally(todo, Q)
  BY <1>7, <1>18, SMTT(30), SMTT(60)
<1>19. ASSUME NEW f \in Files
       PROVE  ref'[f] + Tally(todo', UncountedOps(f)) = Cardinality(FdsOf(ofile', f)) + Tally(todo', HeldOps(f))
  <2> DEFINE r == ref[f]
             s == ref'[f]
             u == Tally(todo, UncountedOps(f))
             d == Cardinality(FdsOf(ofile, f))
             m == Tally(todo, HeldOps(f))
             e == IF k = f THEN 1 ELSE 0
  <2>1. One(h, UncountedOps(f)) = 0 /\ One(h, HeldOps(f)) = 0
    BY <1>1, <1>2, Weights
  <2>2. Tally(todo', HeldOps(f)) = m /\ Tally(todo', UncountedOps(f)) = u /\ u \in Nat /\ m \in Nat
    BY <1>7, <1>18, <2>1
  <2>3. d \in Nat /\ Cardinality(FdsOf(ofile', f)) = d - 0 + e
    <3>1. NoFile # f
      BY FileIsNone
    <3>2. d \in Nat /\ Cardinality(FdsOf(WithFd(ofile, p, n, k), f)) = d - (IF ofile[p][n] = f THEN 1 ELSE 0) + e
      BY <1>3, <1>8, FdCount, SMTT(30), SMTT(60)
    <3> QED BY <1>3, <1>4, <3>1, <3>2
  <2>4. r + u = d + m /\ r \in Nat /\ (k = f => r = 0 /\ s = 1 /\ e = 1) /\ (k # f => s = r /\ e = 0)
    BY <1>3, <1>11 DEF Inv, CountInv, TypeOK
  <2>5. s + u = (d - 0 + e) + m
    <3> HIDE DEF r, s, u, d, m, e
    <3> QED BY <2>2, <2>3, <2>4, SMTT(30), SMTT(60)
  <2> QED BY <2>2, <2>3, <2>5
<1>20. iref' = Cardinality(InodeFiles(type')) + Tally(todo', InodeOps)
  <2> DEFINE S == InodeFiles(type)
             T == InodeFiles(type')
             m == Tally(todo', InodeOps)
  <2>1. /\ S \subseteq Files /\ T \subseteq Files /\ k \notin S /\ k \in T
        /\ \A f \in Files : f # k => (f \in T <=> f \in S)
    <3>1. "none" # "inode"
      OBVIOUS
    <3> QED BY <1>3, <1>5, <1>11, <3>1 DEF InodeFiles
  <2> HIDE DEF S, T
  <2>2. Cardinality(S) \in Nat /\ Cardinality(T) = Cardinality(S) + 1
    <3>1. Cardinality(T) \in Nat /\ Cardinality(S) \in Nat /\ Cardinality(T) = Cardinality(S) + (IF k \in T THEN 1 ELSE 0)
      BY <1>3, <2>1, LessOne
    <3> QED BY <2>1, <3>1
  <2>3. m \in Nat /\ Tally(todo, InodeOps) = m + 1
    <3>1. One(h, InodeOps) = 1
      BY <1>1, <1>2, Weights
    <3> QED BY <1>7, <3>1
  <2>4. iref = Cardinality(S) + (m + 1)
    BY <2>3 DEF Inv, CountInv, S
  <2>5. iref = (Cardinality(S) + 1) + m
    <3> HIDE DEF m
    <3> QED BY <2>2, <2>3, <2>4, SMTT(30)
  <2> QED BY <1>4, <2>2, <2>5 DEF T
<1>21. ASSUME NEW g \in Pages, NEW w \in {0, 1}
       PROVE  Cardinality(PipeFiles(type', page', writable', g, w)) + Tally(todo', CloseOps(g, w)) = Opened(open', g, w)
  <2>1. PipeFiles(type', page', writable', g, w) = PipeFiles(type, page, writable, g, w)
    <3>1. \A f \in Files : type'[f] = "pipe" <=> type[f] = "pipe"
      BY <1>3, <1>5, <1>11
    <3> QED BY <1>4, <3>1 DEF PipeFiles
  <2>2. Tally(todo', CloseOps(g, w)) = Tally(todo, CloseOps(g, w))
    <3>1. One(h, CloseOps(g, w)) = 0
      BY <1>1 DEF One, CloseOps
    <3> QED BY <1>18, <3>1
  <2> QED BY <1>4, <2>1, <2>2 DEF Inv, CountInv
<1> QED BY <1>12, <1>13, <1>14, <1>15, <1>16, <1>17, <1>19, <1>20, <1>21 DEF Inv, CountInv

\* pipealloc() finds no file, and gives up the first if it has that;
LEMMA PipeallocFailsInv ==
  ASSUME Inv, NEW p \in Procs, pipealloc(p), FreeFiles = {}
  PROVE  Inv'
<1> DEFINE h == Head(todo[p])
           c == closing(h.x)
<1>1. todo[p] # <<>> /\ h.op \in {"pipe0", "pipe1"}
  BY DEF pipealloc, Busy
<1>2. /\ todo \in Calls /\ h \in Op /\ h \in Pending(todo[p]) /\ todo[p] = <<h>> /\ Pending(todo[p]) = {h}
      /\ p \in live /\ OpOK(h)
  BY <1>1, Heads, Running
<1>3. UNCHANGED <<ref, type, page, writable, ofile, live, open, iref, panicked>>
  BY DEF pipealloc, fileVars
<1>4. /\ One(h, InodeOps) = 0 /\ \A f : One(h, UncountedOps(f)) = 0
      /\ \A f : One(h, HeldOps(f)) = IF h.op = "pipe1" /\ h.x = f THEN 1 ELSE 0
      /\ \A g, w : One(h, CloseOps(g, w)) = 0
  BY <1>1, <1>2 DEF One, InodeOps, UncountedOps, HeldOps, CloseOps
<1>5. ASSUME todo' \in Calls, Len(todo'[p]) # 2, \A q \in Procs : q # p => todo'[q] = todo[q],
             \A o \in Pending(todo'[p]) : o.op = "fileclose" /\ OpOK(o) /\ \A f : Mentions(o, f) => Mentions(h, f),
             \A f \in Files : /\ Tally(todo', UncountedOps(f)) = Tally(todo, UncountedOps(f))
                              /\ Tally(todo', HeldOps(f)) = Tally(todo, HeldOps(f)),
             Tally(todo', InodeOps) = Tally(todo, InodeOps),
             \A g \in Pages : \A w \in {0, 1} : Tally(todo', CloseOps(g, w)) = Tally(todo, CloseOps(g, w))
      PROVE  Inv'
  <2>1. TypeOK' /\ panicked' = 0
    BY <1>3, <1>5 DEF Inv, TypeOK, Calls
  <2>2. TodoInv'
    BY <1>2, <1>3, <1>5, KeepsTodo
  <2>3. ForkInv' /\ DeadInv'
    BY <1>1, <1>2, <1>3, <1>5, KeepsFork
  <2>4. DupInv'
    BY <1>3, <1>5, KeepsDup
  <2>5. FileInv'
    BY <1>3 DEF Inv, FileInv
  <2>6. FreshInv'
    <3>1. \A f \in Files : ~Touches(p, f) =>
             /\ ref'[f] = ref[f] /\ type'[f] = type[f]
             /\ \A r \in Procs : \A fd \in Fds : ofile'[r][fd] # f
             /\ \A u \in Pending(todo'[p]) : ~Mentions(u, f)
      BY <1>2, <1>3, <1>5 DEF Touches
    <3> QED BY <1>5, <3>1, KeepsFresh
  <2>7. CountInv'
    <3>1. \A f \in Files : ref'[f] + Tally(todo', UncountedOps(f)) = Cardinality(FdsOf(ofile', f)) + Tally(todo', HeldOps(f))
      BY <1>3, <1>5 DEF Inv, CountInv
    <3> QED BY <1>3, <1>5, <3>1, KeepsRest
  <2> QED BY <2>1, <2>2, <2>3, <2>4, <2>5, <2>6, <2>7 DEF Inv
<1>6. CASE h.op = "pipe0"
  <2>1. todo' = Set(todo, p, <<>>)
    BY <1>1, <1>6 DEF pipealloc, Busy, Then, Set
  <2> HIDE DEF h
  <2>2. /\ todo' \in Calls /\ Len(todo'[p]) # 2 /\ Pending(todo'[p]) = {}
        /\ \A q \in Procs : q # p => todo'[q] = todo[q]
    BY <1>2, <2>1, Finish
  <2>3. ASSUME NEW Q, One(h, Q) = 0 PROVE Tally(todo', Q) = Tally(todo, Q)
    <3>1. Tally(Set(todo, p, <<>>), Q) \in Nat /\ Tally(todo, Q) = Tally(Set(todo, p, <<>>), Q) + One(h, Q)
      BY <1>2, FinishTally
    <3> QED BY <2>1, <2>3, <3>1, SMTT(30)
  <2>4. "pipe0" # "pipe1"
    OBVIOUS
  <2>5. \A f : One(h, HeldOps(f)) = 0
    BY <1>4, <1>6, <2>4
  <2> QED BY <1>4, <1>5, <2>2, <2>3, <2>5
<1>7. CASE h.op = "pipe1"
  <2>1. c \in Op /\ c.op = "fileclose" /\ c.x = h.x /\ OpOK(c)
    <3>1. h.x \in Files
      BY <1>2, <1>7 DEF OpOK
    <3>2. c \in Op
      BY <3>1, DoOp
    <3>3. c.op = "fileclose" /\ c.x = h.x
      BY DEF closing, do
    <3> QED BY <3>1, <3>2, <3>3 DEF OpOK
  <2>2. todo' = Set(todo, p, <<c>>)
    <3>1. "pipe0" # "pipe1"
      OBVIOUS
    <3> QED BY <1>7, <3>1 DEF pipealloc, Busy, Then, Set
  <2> HIDE DEF h, c
  <2>3. /\ todo' \in Calls /\ Len(todo'[p]) # 2 /\ Pending(todo'[p]) = {c}
        /\ \A q \in Procs : q # p => todo'[q] = todo[q]
    BY <1>2, <2>1, <2>2, Turn
  <2>4. ASSUME NEW Q, One(h, Q) = One(c, Q), One(c, Q) \in {0, 1} PROVE Tally(todo', Q) = Tally(todo, Q)
    <3>1. /\ Tally(todo, Q) \in Nat /\ Tally(Set(todo, p, <<c>>), Q) \in Nat
          /\ Tally(Set(todo, p, <<c>>), Q) + One(h, Q) = Tally(todo, Q) + One(c, Q)
      BY <1>2, <2>1, TurnTally
    <3> QED BY <2>2, <2>4, <3>1, SMTT(30)
  <2>5. /\ One(c, InodeOps) = 0 /\ \A f : One(c, UncountedOps(f)) = 0
        /\ \A f : One(c, HeldOps(f)) = IF h.x = f THEN 1 ELSE 0
        /\ \A g, w : One(c, CloseOps(g, w)) = 0
    BY <2>1 DEF One, InodeOps, UncountedOps, HeldOps, CloseOps
  <2>6. \A f : Mentions(c, f) => Mentions(h, f)
    BY <1>2, <1>7, <2>1 DEF Mentions, HeldOps, UncountedOps
  <2>7. \A f \in Files : /\ Tally(todo', UncountedOps(f)) = Tally(todo, UncountedOps(f))
                         /\ Tally(todo', HeldOps(f)) = Tally(todo, HeldOps(f))
    <3>1. \A f : One(h, HeldOps(f)) = One(c, HeldOps(f)) /\ One(c, HeldOps(f)) \in {0, 1}
      BY <1>4, <1>7, <2>5
    <3> QED BY <1>4, <2>4, <2>5, <3>1
  <2>8. Tally(todo', InodeOps) = Tally(todo, InodeOps)
    BY <1>4, <2>4, <2>5
  <2>9. \A g \in Pages : \A w \in {0, 1} : Tally(todo', CloseOps(g, w)) = Tally(todo, CloseOps(g, w))
    BY <1>4, <2>4, <2>5
  <2> QED BY <1>5, <2>1, <2>3, <2>6, <2>7, <2>8, <2>9
<1> QED BY <1>1, <1>6, <1>7

\* or takes one that nobody refers to.
LEMMA PipeallocTakesInv ==
  ASSUME Inv, NEW p \in Procs, pipealloc(p), FreeFiles # {}
  PROVE  Inv'
<1> DEFINE h == Head(todo[p])
           k == Min(FreeFiles)
           c == IF h.op = "pipe0" THEN do("pipe1", k, 0) ELSE do("pipe2", h.x, k)
<1>1. todo[p] # <<>> /\ h.op \in {"pipe0", "pipe1"}
  BY DEF pipealloc, Busy
<1>2. /\ todo \in Calls /\ h \in Op /\ h \in Pending(todo[p]) /\ todo[p] = <<h>> /\ Pending(todo[p]) = {h}
      /\ p \in live /\ OpOK(h)
  BY <1>1, Heads, Running
<1>3. k \in Files /\ ref[k] = 0 /\ type[k] = "none"
  <2>1. FreeFiles \in SUBSET Files
    BY DEF FreeFiles
  <2>2. k \in FreeFiles
    BY <2>1, LeastFree
  <2> QED BY <2>2 DEF FreeFiles, Inv, FileInv
<1>4. UNCHANGED <<type, page, writable, ofile, live, open, iref, panicked>> /\ ref' = [ref EXCEPT ![k] = 1]
  BY DEF pipealloc, fileVars
<1>5. todo' = Set(todo, p, <<c>>)
  BY <1>1 DEF pipealloc, Busy, Then, Set
<1>6. (\A r \in Procs : \A fd \in Fds : ofile[r][fd] # k) /\ (\A r \in Procs : \A u \in Pending(todo[r]) : ~Mentions(u, k))
  BY <1>3, RefPositive
<1> HIDE DEF k
<1>7. c \in Op /\ OpOK(c) /\ c.op \in {"pipe1", "pipe2"} /\ \A f : Mentions(c, f) <=> Mentions(h, f) \/ f = k
  <2>1. CASE h.op = "pipe0"
    <3>1. c = do("pipe1", k, 0)
      BY <2>1
    <3>2. c \in Op
      BY <1>3, <3>1, DoOp
    <3>3. c.op = "pipe1" /\ c.x = k
      BY <3>1 DEF do
    <3>4. \A f : ~Mentions(h, f)
      BY <2>1 DEF Mentions, HeldOps, UncountedOps
    <3>5. \A f : Mentions(c, f) <=> f = k
      BY <3>2, <3>3 DEF Mentions, HeldOps, UncountedOps
    <3>6. OpOK(c)
      BY <1>3, <3>3 DEF OpOK
    <3> QED BY <3>2, <3>3, <3>4, <3>5, <3>6
  <2>2. CASE h.op = "pipe1"
    <3>1. c = do("pipe2", h.x, k)
      <4>1. "pipe0" # "pipe1"
        OBVIOUS
      <4> QED BY <2>2, <4>1
    <3>2. h.x \in Files
      BY <1>2, <2>2 DEF OpOK
    <3>3. c \in Op
      BY <1>3, <3>1, <3>2, DoOp
    <3>4. c.op = "pipe2" /\ c.x = h.x /\ c.y = k
      BY <3>1 DEF do
    <3>5. \A f : Mentions(h, f) <=> f = h.x
      BY <1>2, <2>2 DEF Mentions, HeldOps, UncountedOps
    <3>6. \A f : Mentions(c, f) <=> f = h.x \/ f = k
      BY <3>3, <3>4 DEF Mentions, HeldOps, UncountedOps
    <3>7. h.x # k
      BY <1>2, <1>6, <3>5
    <3>8. OpOK(c)
      BY <1>3, <3>2, <3>4, <3>7 DEF OpOK
    <3> QED BY <3>3, <3>4, <3>5, <3>6, <3>8
  <2> QED BY <1>1, <2>1, <2>2
<1> HIDE DEF h, c
<1>8. /\ todo' \in Calls /\ Len(todo'[p]) # 2 /\ Pending(todo'[p]) = {c}
      /\ \A q \in Procs : q # p => todo'[q] = todo[q]
  <2>1. c \in Op
    BY <1>7
  <2>2. /\ Set(todo, p, <<c>>) \in Calls /\ Len(Set(todo, p, <<c>>)[p]) # 2 /\ Pending(Set(todo, p, <<c>>)[p]) = {c}
        /\ \A q \in Procs : q # p => Set(todo, p, <<c>>)[q] = todo[q]
    BY <1>2, <2>1, Turn
  <2> QED BY <1>5, <2>2
<1>9. ASSUME NEW Q PROVE Tally(todo, Q) \in Nat /\ Tally(todo', Q) \in Nat /\ Tally(todo', Q) + One(h, Q) = Tally(todo, Q) + One(c, Q)
  BY <1>2, <1>5, <1>7, TurnTally
<1>10. ref' \in [Files -> Nat] /\ ref'[k] = 1 /\ \A f \in Files : f # k => ref'[f] = ref[f]
  <2>1. 1 \in Nat
    BY SMTT(30), SMTT(60)
  <2> QED BY <1>3, <1>4, <2>1 DEF Inv, TypeOK
<1>11. TypeOK' /\ panicked' = 0
  BY <1>4, <1>8, <1>10 DEF Inv, TypeOK, Calls
<1>12. TodoInv'
  BY <1>2, <1>4, <1>7, <1>8, KeepsTodo
<1>13. ForkInv' /\ DeadInv'
  BY <1>1, <1>2, <1>4, <1>7, <1>8, KeepsFork
<1>14. DupInv'
  BY <1>4, <1>7, <1>8, KeepsDup
<1>15. FileInv'
  <2>1. 0 # 1
    BY SMTT(30), SMTT(60)
  <2> QED BY <1>4, <1>10, <2>1 DEF Inv, FileInv
<1>16. FreshInv'
  <2>1. \A f \in Files : ~Touches(p, f) =>
             /\ ref'[f] = ref[f] /\ type'[f] = type[f]
             /\ \A r \in Procs : \A fd \in Fds : ofile'[r][fd] # f
             /\ \A u \in Pending(todo'[p]) : ~Mentions(u, f)
    <3> SUFFICES ASSUME NEW f \in Files, ~Touches(p, f)
                 PROVE  f # k /\ ~Mentions(h, f) /\ (\A r \in Procs : \A fd \in Fds : ofile[r][fd] # f)
      BY <1>4, <1>7, <1>8, <1>10
    <3>1. f # k
      BY <1>3 DEF Touches
    <3> QED BY <1>2, <3>1 DEF Touches
  <2>2. ASSUME NEW f \in Files, Mentions(c, f)
        PROVE  /\ ref'[f] = 1 /\ type'[f] = "none"
               /\ \A q \in Procs : \A fd \in Fds : ofile'[q][fd] # f
               /\ \A q \in Procs : q # p => \A u \in Pending(todo[q]) : ~Mentions(u, f)
    <3>1. CASE f = k
      BY <1>3, <1>4, <1>6, <1>10, <3>1
    <3>2. CASE f # k
      <4>1. Mentions(h, f)
        BY <1>7, <2>2, <3>2
      <4>2. h.op \in {"pipe1", "pipe2"}
        <5>1. h.op # "pipe0"
          BY <4>1 DEF Mentions, HeldOps, UncountedOps
        <5> QED BY <1>1, <5>1 DEF h
      <4>3. /\ ref[f] = 1 /\ type[f] = "none"
            /\ \A q \in Procs : \A fd \in Fds : ofile[q][fd] # f
            /\ \A q \in Procs : \A u \in Pending(todo[q]) : Mentions(u, f) => q = p
        BY <1>2, <4>1, <4>2 DEF Inv, FreshInv
      <4> QED BY <1>4, <1>10, <3>2, <4>3
    <3> QED BY <3>1, <3>2
  <2> QED BY <1>8, <2>1, <2>2, KeepsFresh
<1>17. /\ One(h, InodeOps) = 0 /\ One(c, InodeOps) = 0
       /\ \A f : One(h, UncountedOps(f)) = 0 /\ One(c, UncountedOps(f)) = 0
       /\ \A g, w : One(h, CloseOps(g, w)) = 0 /\ One(c, CloseOps(g, w)) = 0
  BY <1>1, <1>7 DEF One, InodeOps, UncountedOps, CloseOps, h
<1>18. ASSUME NEW Q, One(h, Q) = 0, One(c, Q) = 0 PROVE Tally(todo', Q) = Tally(todo, Q)
  BY <1>9, <1>18, SMTT(30)
<1>19. ASSUME NEW f \in Files
       PROVE  ref'[f] + Tally(todo', UncountedOps(f)) = Cardinality(FdsOf(ofile', f)) + Tally(todo', HeldOps(f))
  <2> DEFINE r == ref[f]
             s == ref'[f]
             u == Tally(todo, UncountedOps(f))
             d == Cardinality(FdsOf(ofile, f))
             m == Tally(todo, HeldOps(f))
             mm == Tally(todo', HeldOps(f))
             e == IF k = f THEN 1 ELSE 0
             x == One(h, HeldOps(f))
  <2>1. x \in {0, 1} /\ One(c, HeldOps(f)) = x + e
    <3>1. (h \in HeldOps(f)) <=> Mentions(h, f)
      BY <1>1 DEF Mentions, UncountedOps, h
    <3>2. (c \in HeldOps(f)) <=> Mentions(c, f)
      BY <1>7 DEF Mentions, UncountedOps
    <3>3. k = f => ~Mentions(h, f)
      BY <1>2, <1>6
    <3>4. (k = f => e = 1 /\ x = 0 /\ One(c, HeldOps(f)) = 1) /\ (k # f => e = 0 /\ x \in {0, 1} /\ One(c, HeldOps(f)) = x)
      BY <1>7, <3>1, <3>2, <3>3 DEF One
    <3> HIDE DEF e, x
    <3> QED BY <3>4, SMTT(30)
  <2>2. m \in Nat /\ mm \in Nat /\ mm + x = m + One(c, HeldOps(f))
    BY <1>9
  <2>3. Tally(todo', UncountedOps(f)) = u /\ u \in Nat
    BY <1>9, <1>17, <1>18
  <2>4. d \in Nat /\ r \in Nat /\ r + u = d + m
    BY FdsFinite DEF Inv, CountInv, TypeOK
  <2>5. (k = f => r = 0 /\ s = 1 /\ e = 1) /\ (k # f => s = r /\ e = 0)
    BY <1>3, <1>10
  <2>6. s + u = d + mm
    <3> HIDE DEF r, s, u, d, m, mm, e, x
    <3> QED BY <2>1, <2>2, <2>3, <2>4, <2>5, SMTT(30), SMTT(60)
  <2> QED BY <1>4, <2>3, <2>6
<1>20. CountInv'
  <2>1. Tally(todo', InodeOps) = Tally(todo, InodeOps)
    BY <1>17, <1>18
  <2>2. \A g \in Pages : \A w \in {0, 1} : Tally(todo', CloseOps(g, w)) = Tally(todo, CloseOps(g, w))
    BY <1>17, <1>18
  <2> QED BY <1>4, <1>19, <2>1, <2>2, KeepsRest
<1> QED BY <1>11, <1>12, <1>13, <1>14, <1>15, <1>16, <1>20 DEF Inv

\* pipealloc() did one or the other.
LEMMA PipeallocInv == ASSUME Inv, NEW p \in Procs, pipealloc(p) PROVE Inv'
  BY PipeallocFailsInv, PipeallocTakesInv

\* open() did one or the other.
LEMMA OpenAllocInv == ASSUME Inv, NEW p \in Procs, open_alloc(p) PROVE Inv'
  BY OpenFailsInv, OpenDoneInv

\* The two files of a pipe in the making.
LEMMA PipeOfTwo ==
  ASSUME Inv, NEW p \in Procs, Busy(p, "pipe2")
  PROVE  /\ todo \in Calls /\ Head(todo[p]) \in Op /\ Head(todo[p]) \in Pending(todo[p]) /\ todo[p] = <<Head(todo[p])>>
         /\ todo[p] # <<>> /\ Head(todo[p]).op = "pipe2" /\ Pending(todo[p]) = {Head(todo[p])} /\ p \in live
         /\ Head(todo[p]).x \in Files /\ Head(todo[p]).y \in Files /\ Head(todo[p]).x # Head(todo[p]).y
         /\ type[Head(todo[p]).x] = "none" /\ type[Head(todo[p]).y] = "none"
         /\ ref[Head(todo[p]).x] = 1 /\ ref[Head(todo[p]).y] = 1
         /\ \A f : Mentions(Head(todo[p]), f) <=> f = Head(todo[p]).x \/ f = Head(todo[p]).y
<1> DEFINE h == Head(todo[p])
<1>1. todo[p] # <<>> /\ h.op = "pipe2"
  BY DEF Busy
<1>2. /\ todo \in Calls /\ h \in Op /\ h \in Pending(todo[p]) /\ todo[p] = <<h>> /\ Pending(todo[p]) = {h}
      /\ p \in live /\ OpOK(h)
  BY <1>1, Heads, Running
<1> HIDE DEF h
<1>3. h.x \in Files /\ h.y \in Files /\ h.x # h.y
  BY <1>1, <1>2 DEF OpOK
<1>4. \A f : Mentions(h, f) <=> f = h.x \/ f = h.y
  BY <1>1, <1>2 DEF Mentions, HeldOps, UncountedOps
<1>5. \A f \in Files : Mentions(h, f) => ref[f] = 1 /\ type[f] = "none"
  BY <1>1, <1>2 DEF Inv, FreshInv
<1> QED BY <1>1, <1>2, <1>3, <1>4, <1>5 DEF h

\* A pipe() that fails has its two files to close, with or without a page.
LEMMA PipeUndoes ==
  ASSUME Inv, NEW p \in Procs, Busy(p, "pipe2"), ref' = ref, ofile' = ofile, live' = live,
         todo' = Two(todo, p, closing(Head(todo[p]).x), closing(Head(todo[p]).y)),
         \A f \in Files : f # Head(todo[p]).x /\ f # Head(todo[p]).y => type'[f] = type[f]
  PROVE  /\ todo' \in Calls /\ TodoInv' /\ ForkInv' /\ DeadInv' /\ DupInv' /\ FreshInv'
         /\ \A f \in Files :
               ref'[f] + Tally(todo', UncountedOps(f)) = Cardinality(FdsOf(ofile', f)) + Tally(todo', HeldOps(f))
         /\ Tally(todo', InodeOps) = Tally(todo, InodeOps)
         /\ \A g, w : Tally(todo', CloseOps(g, w)) = Tally(todo, CloseOps(g, w))
<1> DEFINE h == Head(todo[p])
           c == closing(h.x)
           d == closing(h.y)
<1>1. /\ todo \in Calls /\ h \in Op /\ h \in Pending(todo[p]) /\ todo[p] = <<h>> /\ todo[p] # <<>> /\ h.op = "pipe2"
      /\ Pending(todo[p]) = {h} /\ p \in live /\ h.x \in Files /\ h.y \in Files /\ h.x # h.y
      /\ \A f : Mentions(h, f) <=> f = h.x \/ f = h.y
  BY PipeOfTwo
<1>2. todo' = Two(todo, p, c, d)
  OBVIOUS
<1> HIDE DEF h
<1>3. c \in Op /\ c.op = "fileclose" /\ c.x = h.x /\ OpOK(c) /\ d \in Op /\ d.op = "fileclose" /\ d.x = h.y /\ OpOK(d)
  <2>1. c \in Op /\ d \in Op
    BY <1>1, DoOp
  <2>2. c.op = "fileclose" /\ c.x = h.x /\ d.op = "fileclose" /\ d.x = h.y
    BY DEF closing, do
  <2> QED BY <1>1, <2>1, <2>2 DEF OpOK
<1> HIDE DEF c, d
<1>4. /\ todo' \in Calls /\ todo'[p][1] = c /\ todo'[p][2] = d /\ Pending(todo'[p]) = {c, d}
      /\ \A q \in Procs : q # p => todo'[q] = todo[q]
  <2>1. Two(todo, p, c, d) \in Calls /\ \A q \in Procs : q # p => Two(todo, p, c, d)[q] = todo[q]
    BY <1>1, <1>3, Split
  <2>2. Two(todo, p, c, d)[p] = <<c, d>>
    BY <1>1, <1>3, SplitOps
  <2>3. Pending(<<c, d>>) = {c, d}
    BY PendingOf
  <2>4. <<c, d>>[1] = c /\ <<c, d>>[2] = d
    BY <1>3, Shapes
  <2> QED BY <1>2, <2>1, <2>2, <2>3, <2>4
<1>5. ASSUME NEW Q PROVE /\ Tally(todo, Q) \in Nat /\ Tally(todo', Q) \in Nat
                         /\ Tally(todo', Q) + One(h, Q) = Tally(todo, Q) + (One(c, Q) + One(d, Q))
  <2>1. /\ Tally(todo, Q) \in Nat /\ Tally(Two(todo, p, c, d), Q) \in Nat
        /\ Tally(Two(todo, p, c, d), Q) + One(Head(todo[p]), Q) = Tally(todo, Q) + (One(c, Q) + One(d, Q))
    BY <1>1, <1>3, SplitTally DEF h
  <2> QED BY <1>2, <2>1 DEF h
<1>6. ASSUME NEW Q, One(h, Q) = One(c, Q) + One(d, Q), One(c, Q) \in {0, 1}, One(d, Q) \in {0, 1} PROVE Tally(todo', Q) = Tally(todo, Q)
  BY <1>5, <1>6, SMTT(30), SMTT(60)
<1>7. TodoInv'
  BY <1>1, <1>3, <1>4, KeepsTodo
<1>8. ForkInv' /\ DeadInv'
  BY <1>1, <1>3, <1>4, KeepsFork
<1>9. DupInv'
  BY <1>3, <1>4, KeepsDup
<1>10. FreshInv'
  <2>1. \A f : (Mentions(c, f) => f = h.x) /\ (Mentions(d, f) => f = h.y)
    BY <1>3 DEF Mentions, HeldOps, UncountedOps
  <2>2. \A f \in Files : ~Touches(p, f) =>
             /\ ref'[f] = ref[f] /\ type'[f] = type[f]
             /\ \A r \in Procs : \A fd \in Fds : ofile'[r][fd] # f
             /\ \A u \in Pending(todo'[p]) : ~Mentions(u, f)
    <3> SUFFICES ASSUME NEW f \in Files, ~Touches(p, f)
                 PROVE  f # h.x /\ f # h.y /\ (\A r \in Procs : \A fd \in Fds : ofile[r][fd] # f)
      BY <1>4, <2>1 DEF h
    <3> QED BY <1>1 DEF Touches
  <2> QED BY <1>3, <1>4, <2>2, KeepsFresh
<1>11. /\ \A f : Tally(todo', UncountedOps(f)) = Tally(todo, UncountedOps(f))
       /\ Tally(todo', InodeOps) = Tally(todo, InodeOps)
       /\ \A g, w : Tally(todo', CloseOps(g, w)) = Tally(todo, CloseOps(g, w))
  <2>1. 0 = 0 + 0 /\ 0 \in {0, 1}
    BY SMTT(30), SMTT(60)
  <2>2. \A f : One(h, UncountedOps(f)) = 0 /\ One(c, UncountedOps(f)) = 0 /\ One(d, UncountedOps(f)) = 0
    BY <1>1, <1>3 DEF One, UncountedOps
  <2>3. One(h, InodeOps) = 0 /\ One(c, InodeOps) = 0 /\ One(d, InodeOps) = 0
    BY <1>1, <1>3 DEF One, InodeOps
  <2>4. \A g, w : One(h, CloseOps(g, w)) = 0 /\ One(c, CloseOps(g, w)) = 0 /\ One(d, CloseOps(g, w)) = 0
    BY <1>1, <1>3 DEF One, CloseOps
  <2>5. ASSUME NEW Q, One(h, Q) = 0, One(c, Q) = 0, One(d, Q) = 0 PROVE Tally(todo', Q) = Tally(todo, Q)
    BY <1>6, <2>1, <2>5
  <2> QED BY <2>2, <2>3, <2>4, <2>5
<1>12. ASSUME NEW f \in Files PROVE Tally(todo', HeldOps(f)) = Tally(todo, HeldOps(f))
  <2>1. One(h, HeldOps(f)) = IF h.x = f \/ h.y = f THEN 1 ELSE 0
    BY <1>1 DEF One, HeldOps
  <2>2. One(c, HeldOps(f)) = (IF h.x = f THEN 1 ELSE 0) /\ One(d, HeldOps(f)) = (IF h.y = f THEN 1 ELSE 0)
    BY <1>3 DEF One, HeldOps
  <2>3. /\ (h.x = f => One(h, HeldOps(f)) = 1 /\ One(c, HeldOps(f)) = 1 /\ One(d, HeldOps(f)) = 0)
        /\ (h.y = f => One(h, HeldOps(f)) = 1 /\ One(c, HeldOps(f)) = 0 /\ One(d, HeldOps(f)) = 1)
        /\ (h.x # f /\ h.y # f => One(h, HeldOps(f)) = 0 /\ One(c, HeldOps(f)) = 0 /\ One(d, HeldOps(f)) = 0)
    BY <1>1, <2>1, <2>2
  <2>4. /\ One(h, HeldOps(f)) = One(c, HeldOps(f)) + One(d, HeldOps(f))
        /\ One(c, HeldOps(f)) \in {0, 1} /\ One(d, HeldOps(f)) \in {0, 1}
    <3>1. 1 = 1 + 0 /\ 1 = 0 + 1 /\ 0 = 0 + 0 /\ 0 \in {0, 1} /\ 1 \in {0, 1}
      BY SMTT(30), SMTT(60)
    <3> QED BY <2>3, <3>1
  <2> QED BY <1>6, <2>4
<1>13. \A f \in Files :
          ref'[f] + Tally(todo', UncountedOps(f)) = Cardinality(FdsOf(ofile', f)) + Tally(todo', HeldOps(f))
  BY <1>11, <1>12 DEF Inv, CountInv
<1> QED BY <1>4, <1>7, <1>8, <1>9, <1>10, <1>11, <1>13

\* The files of a new pipe stand for its two ends.
LEMMA PipeMade ==
  ASSUME Inv, NEW r \in Files, NEW s \in Files, r # s, type[r] = "none", type[s] = "none", ref[r] = 1, ref[s] = 1,
         NEW g \in Pages, open[g] = {}, open' = [open EXCEPT ![g] = Ends],
         type' = [type EXCEPT ![r] = "pipe", ![s] = "pipe"], page' = [page EXCEPT ![r] = g, ![s] = g],
         writable' = [writable EXCEPT ![r] = 0, ![s] = 1], ref' = ref, iref' = iref,
         Tally(todo', InodeOps) = Tally(todo, InodeOps),
         \A u, w : Tally(todo', CloseOps(u, w)) = Tally(todo, CloseOps(u, w))
  PROVE  /\ type' \in [Files -> {"none", "pipe", "inode"}] /\ page' \in [Files -> Pages \cup {0}]
         /\ writable' \in [Files -> {0, 1}] /\ open' \in [Pages -> SUBSET Ends] /\ FileInv'
         /\ \A f \in Files : f # r /\ f # s => type'[f] = type[f]
         /\ iref' = Cardinality(InodeFiles(type')) + Tally(todo', InodeOps)
         /\ \A u \in Pages : \A w \in {0, 1} :
               Cardinality(PipeFiles(type', page', writable', u, w)) + Tally(todo', CloseOps(u, w)) = Opened(open', u, w)
<1>1. /\ type \in [Files -> {"none", "pipe", "inode"}] /\ page \in [Files -> Pages \cup {0}]
      /\ writable \in [Files -> {0, 1}] /\ open \in [Pages -> SUBSET Ends]
  BY DEF Inv, TypeOK
<1>2. /\ type' \in [Files -> {"none", "pipe", "inode"}] /\ type'[r] = "pipe" /\ type'[s] = "pipe"
      /\ \A f \in Files : f # r /\ f # s => type'[f] = type[f]
  BY <1>1
<1>3. /\ page' \in [Files -> Pages \cup {0}] /\ page'[r] = g /\ page'[s] = g
      /\ \A f \in Files : f # r /\ f # s => page'[f] = page[f]
  BY <1>1
<1>4. /\ writable' \in [Files -> {0, 1}] /\ writable'[r] = 0 /\ writable'[s] = 1
      /\ \A f \in Files : f # r /\ f # s => writable'[f] = writable[f]
  BY <1>1
<1>5. open' \in [Pages -> SUBSET Ends] /\ open'[g] = Ends /\ \A u \in Pages : u # g => open'[u] = open[u]
  BY <1>1
<1>6. FileInv'
  <2>1. 0 # 1
    BY SMTT(30), SMTT(60)
  <2>2. ASSUME NEW f \in Files PROVE (ref'[f] = 0 => type'[f] = "none") /\ (type'[f] = "pipe" => page'[f] \in Pages)
    <3>1. CASE f = r \/ f = s
      BY <1>3, <2>1, <3>1
    <3>2. CASE f # r /\ f # s
      BY <1>2, <1>3, <3>2 DEF Inv, FileInv
    <3> QED BY <3>1, <3>2
  <2> QED BY <2>2 DEF FileInv
<1>7. InodeFiles(type') = InodeFiles(type)
  <2>1. \A f \in Files : type'[f] = "inode" <=> type[f] = "inode"
    BY <1>2
  <2> QED BY <2>1 DEF InodeFiles
<1>8. iref' = Cardinality(InodeFiles(type')) + Tally(todo', InodeOps)
  BY <1>7 DEF Inv, CountInv
<1>9. ASSUME NEW u \in Pages, NEW w \in {0, 1}
      PROVE  Cardinality(PipeFiles(type', page', writable', u, w)) + Tally(todo', CloseOps(u, w)) = Opened(open', u, w)
  <2> DEFINE S == PipeFiles(type, page, writable, u, w)
             T == PipeFiles(type', page', writable', u, w)
             m == Tally(todo, CloseOps(u, w))
  <2>1. Cardinality(S) + m = Opened(open, u, w) /\ S \subseteq Files /\ T \subseteq Files
    BY DEF Inv, CountInv, PipeFiles
  <2>2. r \notin S /\ s \notin S /\ \A f \in Files : f # r /\ f # s => (f \in T <=> f \in S)
    BY <1>2, <1>3, <1>4 DEF PipeFiles
  <2>3. CASE u # g
    <3>1. r \notin T /\ s \notin T
      BY <1>3, <2>3 DEF PipeFiles
    <3>2. S = T
      <4> HIDE DEF S, T
      <4>1. \A f \in Files : f \in S <=> f \in T
        BY <2>2, <3>1
      <4> QED BY <2>1, <4>1
    <3>3. Opened(open', u, w) = Opened(open, u, w)
      BY <1>5, <2>3 DEF Opened
    <3> QED BY <2>1, <3>2, <3>3
  <2>4. CASE u = g
    <3>1. /\ w = 0 => r \in T /\ s \notin T
          /\ w = 1 => s \in T /\ r \notin T
      <4>1. 0 # 1
        BY SMTT(30), SMTT(60)
      <4> QED BY <1>2, <1>3, <1>4, <2>4, <4>1 DEF PipeFiles
    <3>2. Opened(open, u, w) = 0 /\ Opened(open', u, w) = 1
      <4>1. End(w) \in Ends
        BY DEF End, Ends
      <4> QED BY <1>5, <2>4, <4>1 DEF Opened
    <3> HIDE DEF S, T
    <3>3. Cardinality(S) \in Nat /\ Cardinality(T) \in Nat /\ Cardinality(T) = Cardinality(S) + 1
      <4>1. CASE w = 0
        <5>1. \A f \in Files : f # r => (f \in T <=> f \in S)
          BY <2>2, <3>1, <4>1
        <5>2. Cardinality(T) \in Nat /\ Cardinality(S) \in Nat /\ Cardinality(T) = Cardinality(S) + (IF r \in T THEN 1 ELSE 0)
          BY <2>1, <2>2, <5>1, LessOne
        <5> QED BY <3>1, <4>1, <5>2
      <4>2. CASE w = 1
        <5>1. \A f \in Files : f # s => (f \in T <=> f \in S)
          BY <2>2, <3>1, <4>2
        <5>2. Cardinality(T) \in Nat /\ Cardinality(S) \in Nat /\ Cardinality(T) = Cardinality(S) + (IF s \in T THEN 1 ELSE 0)
          BY <2>1, <2>2, <5>1, LessOne
        <5> QED BY <3>1, <4>2, <5>2
      <4> QED BY <4>1, <4>2
    <3>4. m \in Nat /\ Tally(todo', CloseOps(u, w)) = m
      <4>1. todo \in Calls
        BY DEF Inv, TypeOK, Calls
      <4> QED BY <4>1, TallyFinite
    <3>5. Cardinality(T) + m = 1
      <4> HIDE DEF m
      <4> QED BY <2>1, <3>2, <3>3, <3>4, SMTT(30), SMTT(60)
    <3> QED BY <3>2, <3>4, <3>5 DEF T
  <2> QED BY <2>3, <2>4
<1> QED BY <1>2, <1>3, <1>4, <1>5, <1>6, <1>8, <1>9

\* pipe() gives each file to one of two free descriptors.
LEMMA PipeDone ==
  ASSUME Inv, NEW p \in Procs, Busy(p, "pipe2"), ref' = ref, live' = live, todo' = Set(todo, p, <<>>),
         NEW m \in Fds, NEW n \in Fds, m # n, ofile[p][m] = NoFile, ofile[p][n] = NoFile,
         ofile' = WithFd(WithFd(ofile, p, m, Head(todo[p]).x), p, n, Head(todo[p]).y),
         \A f \in Files : f # Head(todo[p]).x /\ f # Head(todo[p]).y => type'[f] = type[f]
  PROVE  /\ todo' \in Calls /\ ofile' \in Tables /\ TodoInv' /\ ForkInv' /\ DeadInv' /\ DupInv' /\ FreshInv'
         /\ \A f \in Files :
               ref'[f] + Tally(todo', UncountedOps(f)) = Cardinality(FdsOf(ofile', f)) + Tally(todo', HeldOps(f))
         /\ Tally(todo', InodeOps) = Tally(todo, InodeOps)
         /\ \A g, w : Tally(todo', CloseOps(g, w)) = Tally(todo, CloseOps(g, w))
<1> DEFINE h == Head(todo[p])
           v == WithFd(ofile, p, m, h.x)
<1>1. /\ todo \in Calls /\ h \in Op /\ h \in Pending(todo[p]) /\ todo[p] = <<h>> /\ todo[p] # <<>> /\ h.op = "pipe2"
      /\ Pending(todo[p]) = {h} /\ p \in live /\ h.x \in Files /\ h.y \in Files /\ h.x # h.y
      /\ \A f : Mentions(h, f) <=> f = h.x \/ f = h.y
  BY PipeOfTwo
<1>2. ofile' = WithFd(v, p, n, h.y)
  OBVIOUS
<1> HIDE DEF h
<1>3. ofile \in Tables /\ h.x \in Slots /\ h.y \in Slots
  BY <1>1 DEF Inv, TypeOK, Tables, Slots
<1>4. /\ v \in Tables /\ v[p][m] = h.x /\ \A q \in Procs : \A e \in Fds : q # p \/ e # m => v[q][e] = ofile[q][e]
  BY <1>3, FdSet, SMTT(30), SMTT(60)
<1>5. \A q \in Procs : q # p => v[q] = ofile[q]
  BY <1>3, FdSet, SMTT(30), SMTT(60)
<1>6. \A f : /\ Cardinality(FdsOf(ofile, f)) \in Nat
             /\ Cardinality(FdsOf(v, f)) = Cardinality(FdsOf(ofile, f)) - (IF ofile[p][m] = f THEN 1 ELSE 0) + (IF h.x = f THEN 1 ELSE 0)
  BY <1>3, FdCount, SMTT(30), SMTT(60)
<1> HIDE DEF v
<1>7. /\ ofile' \in Tables /\ ofile'[p][n] = h.y /\ (\A q \in Procs : \A e \in Fds : q # p \/ e # n => ofile'[q][e] = v[q][e])
      /\ \A q \in Procs : q # p => ofile'[q] = v[q]
  <2>1. v \in Tables /\ h.y \in Slots
    BY <1>3, <1>4
  <2>2. /\ WithFd(v, p, n, h.y) \in Tables /\ WithFd(v, p, n, h.y)[p][n] = h.y
        /\ \A q \in Procs : \A e \in Fds : q # p \/ e # n => WithFd(v, p, n, h.y)[q][e] = v[q][e]
        /\ \A q \in Procs : q # p => WithFd(v, p, n, h.y)[q] = v[q]
    BY <2>1, FdSet, SMTT(30), SMTT(60)
  <2> QED BY <1>2, <2>2
<1>8. \A q \in Procs : q # p => ofile'[q] = v[q]
  BY <1>7
<1>9. \A f : Cardinality(FdsOf(ofile', f)) = Cardinality(FdsOf(v, f)) - (IF v[p][n] = f THEN 1 ELSE 0) + (IF h.y = f THEN 1 ELSE 0)
  <2>1. \A f : Cardinality(FdsOf(WithFd(v, p, n, h.y), f)) = Cardinality(FdsOf(v, f)) - (IF v[p][n] = f THEN 1 ELSE 0) + (IF h.y = f THEN 1 ELSE 0)
    BY <1>3, <1>4, FdCount, SMTT(30), SMTT(60)
  <2> QED BY <1>2, <2>1
<1>10. /\ todo' \in Calls /\ Len(todo'[p]) # 2 /\ Pending(todo'[p]) = {}
       /\ \A q \in Procs : q # p => todo'[q] = todo[q]
  BY <1>1, Finish
<1>11. ASSUME NEW Q PROVE Tally(todo, Q) \in Nat /\ Tally(todo', Q) \in Nat /\ Tally(todo, Q) = Tally(todo', Q) + One(h, Q)
  <2>1. /\ Tally(todo, Q) \in Nat /\ Tally(Set(todo, p, <<>>), Q) \in Nat
        /\ Tally(todo, Q) = Tally(Set(todo, p, <<>>), Q) + One(h, Q)
    BY <1>1, FinishTally
  <2> QED BY <2>1
<1>12. ASSUME NEW Q, One(h, Q) = 0 PROVE Tally(todo', Q) = Tally(todo, Q)
  BY <1>11, <1>12, SMTT(30), SMTT(60)
<1>13. TodoInv'
  BY <1>10, KeepsTodo
<1>14. \A q \in Procs : q # p => ofile'[q] = ofile[q]
  BY <1>5, <1>8
<1>15. ForkInv' /\ DeadInv'
  BY <1>1, <1>10, <1>14, KeepsFork
<1>16. DupInv'
  BY <1>10, <1>14, KeepsDup
<1>17. FreshInv'
  <2>1. \A f \in Files : ~Touches(p, f) =>
             /\ ref'[f] = ref[f] /\ type'[f] = type[f]
             /\ \A r \in Procs : \A fd \in Fds : ofile'[r][fd] # f
             /\ \A u \in Pending(todo'[p]) : ~Mentions(u, f)
    <3> SUFFICES ASSUME NEW f \in Files, ~Touches(p, f)
                 PROVE  f # h.x /\ f # h.y /\ (\A r \in Procs : \A fd \in Fds : ofile'[r][fd] # f)
      BY <1>10 DEF h
    <3>1. f # h.x /\ f # h.y
      BY <1>1 DEF Touches
    <3>2. \A r \in Procs : \A fd \in Fds : v[r][fd] # f
      BY <1>4, <3>1 DEF Touches
    <3> QED BY <1>7, <3>1, <3>2
  <2> QED BY <1>10, <2>1, KeepsFresh
<1>18. /\ \A f : Tally(todo', UncountedOps(f)) = Tally(todo, UncountedOps(f))
       /\ Tally(todo', InodeOps) = Tally(todo, InodeOps)
       /\ \A g, w : Tally(todo', CloseOps(g, w)) = Tally(todo, CloseOps(g, w))
  <2>1. (\A f : One(h, UncountedOps(f)) = 0) /\ One(h, InodeOps) = 0 /\ \A g, w : One(h, CloseOps(g, w)) = 0
    BY <1>1 DEF One, UncountedOps, InodeOps, CloseOps
  <2> QED BY <1>12, <2>1
<1>19. ASSUME NEW f \in Files
       PROVE  ref'[f] + Tally(todo', UncountedOps(f)) = Cardinality(FdsOf(ofile', f)) + Tally(todo', HeldOps(f))
  <2> DEFINE d == Cardinality(FdsOf(ofile, f))
             dd == Cardinality(FdsOf(ofile', f))
             t == Tally(todo', HeldOps(f))
             x == IF h.x = f THEN 1 ELSE 0
             y == IF h.y = f THEN 1 ELSE 0
  <2>1. NoFile # f /\ v[p][n] = NoFile
    BY <1>4, FileIsNone
  <2>2. d \in Nat /\ dd = (d - 0 + x) - 0 + y
    <3>1. d \in Nat /\ Cardinality(FdsOf(v, f)) = d - 0 + x
      BY <1>6, <2>1
    <3>2. dd = Cardinality(FdsOf(v, f)) - 0 + y
      BY <1>9, <2>1
    <3> QED BY <3>1, <3>2
  <2>3. t \in Nat /\ Tally(todo, HeldOps(f)) = t + One(h, HeldOps(f))
    BY <1>11
  <2>4. One(h, HeldOps(f)) = IF h.x = f \/ h.y = f THEN 1 ELSE 0
    BY <1>1 DEF One, HeldOps
  <2>5. /\ (h.x = f => One(h, HeldOps(f)) = 1 /\ x = 1 /\ y = 0)
        /\ (h.y = f => One(h, HeldOps(f)) = 1 /\ x = 0 /\ y = 1)
        /\ (h.x # f /\ h.y # f => One(h, HeldOps(f)) = 0 /\ x = 0 /\ y = 0)
    BY <1>1, <2>4
  <2>6. d + (t + One(h, HeldOps(f))) = dd + t
    <3> HIDE DEF d, dd, t, x, y
    <3> QED BY <2>2, <2>3, <2>5, SMTT(30), SMTT(60)
  <2>7. ref[f] + Tally(todo, UncountedOps(f)) = d + (t + One(h, HeldOps(f)))
    BY <2>3 DEF Inv, CountInv
  <2> QED BY <1>18, <2>6, <2>7
<1> QED BY <1>7, <1>10, <1>13, <1>15, <1>16, <1>17, <1>18, <1>19

\* The page of a pipe and its descriptors are there, or everything is undone.
LEMMA PipePageInv == ASSUME Inv, NEW p \in Procs, pipe_page(p) PROVE Inv'
<1> DEFINE r == Head(todo[p]).x
           s == Head(todo[p]).y
           m == Min(FreeFds(p))
           n == Min(FreeFds(p) \ {m})
           undo == <<closing(r), closing(s)>>
<1>1. Busy(p, "pipe2") /\ UNCHANGED <<ref, live, iref, panicked>>
  BY DEF pipe_page
<1>2. /\ r \in Files /\ s \in Files /\ r # s /\ type[r] = "none" /\ type[s] = "none" /\ ref[r] = 1 /\ ref[s] = 1
  BY <1>1, PipeOfTwo
<1>3. ASSUME Then(p, undo), UNCHANGED <<type, page, writable, ofile, open>> PROVE Inv'
  <2>1. todo' = Two(todo, p, closing(r), closing(s))
    BY <1>3 DEF Then, Set, Two
  <2>2. /\ todo' \in Calls /\ TodoInv' /\ ForkInv' /\ DeadInv' /\ DupInv' /\ FreshInv'
        /\ \A f \in Files :
              ref'[f] + Tally(todo', UncountedOps(f)) = Cardinality(FdsOf(ofile', f)) + Tally(todo', HeldOps(f))
        /\ Tally(todo', InodeOps) = Tally(todo, InodeOps)
        /\ \A g, w : Tally(todo', CloseOps(g, w)) = Tally(todo, CloseOps(g, w))
    BY <1>1, <1>3, <2>1, PipeUndoes
  <2>3. TypeOK' /\ panicked' = 0 /\ FileInv'
    BY <1>1, <1>3, <2>2 DEF Inv, TypeOK, FileInv, Calls
  <2>4. CountInv'
    BY <1>1, <1>3, <2>2, KeepsRest
  <2> QED BY <2>2, <2>3, <2>4 DEF Inv
<1>4. ASSUME NEW g \in Pages, open[g] = {}, open' = [open EXCEPT ![g] = Ends],
             type' = [type EXCEPT ![r] = "pipe", ![s] = "pipe"], page' = [page EXCEPT ![r] = g, ![s] = g],
             writable' = [writable EXCEPT ![r] = 0, ![s] = 1],
             \/ Then(p, undo) /\ ofile' = ofile
             \/ /\ Cardinality(FreeFds(p)) >= 2
                /\ ofile' = [ofile EXCEPT ![p][m] = r, ![p][n] = s]
                /\ Then(p, <<>>)
      PROVE  Inv'
  <2>1. \A f \in Files : f # r /\ f # s => type'[f] = type[f]
    BY <1>2, <1>4 DEF Inv, TypeOK
  <2>2. /\ todo' \in Calls /\ ofile' \in Tables /\ TodoInv' /\ ForkInv' /\ DeadInv' /\ DupInv' /\ FreshInv'
        /\ \A f \in Files :
              ref'[f] + Tally(todo', UncountedOps(f)) = Cardinality(FdsOf(ofile', f)) + Tally(todo', HeldOps(f))
        /\ Tally(todo', InodeOps) = Tally(todo, InodeOps)
        /\ \A u, w : Tally(todo', CloseOps(u, w)) = Tally(todo, CloseOps(u, w))
    <3>1. CASE Then(p, undo) /\ ofile' = ofile
      <4>1. todo' = Two(todo, p, closing(r), closing(s))
        BY <3>1 DEF Then, Set, Two
      <4>2. ofile' \in Tables
        BY <3>1 DEF Inv, TypeOK, Tables, Slots
      <4> QED BY <1>1, <2>1, <3>1, <4>1, <4>2, PipeUndoes
    <3>2. CASE Cardinality(FreeFds(p)) >= 2 /\ ofile' = [ofile EXCEPT ![p][m] = r, ![p][n] = s] /\ Then(p, <<>>)
      <4>1. FreeFds(p) \in SUBSET Fds /\ IsFiniteSet(FreeFds(p))
        <5>1. IsFiniteSet(Fds)
          <6>1. 0 \in Int /\ NOFILE - 1 \in Int
            BY FileAssumption, SMTT(30), SMTT(60)
          <6> QED BY <6>1, FS_Interval DEF Fds
        <5>2. FreeFds(p) \in SUBSET Fds
          BY DEF FreeFds
        <5> QED BY <5>1, <5>2, FS_Subset
      <4>2. m \in FreeFds(p)
        <5>1. FreeFds(p) # {}
          <6>1. Cardinality({}) = 0
            BY FS_EmptySet
          <6>2. ~(0 >= 2)
            BY SMTT(30), SMTT(60)
          <6> QED BY <3>2, <6>1, <6>2
        <5> QED BY <4>1, <5>1, LeastFree
      <4>3. n \in FreeFds(p) \ {m}
        <5> HIDE DEF m
        <5>1. FreeFds(p) \ {m} # {}
          <6> SUFFICES ASSUME FreeFds(p) \ {m} = {} PROVE FALSE
            OBVIOUS
          <6>1. FreeFds(p) = {m}
            BY <4>2
          <6>2. Cardinality({m}) = 1
            BY FS_Singleton
          <6> QED BY <3>2, <6>1, <6>2, SMTT(30), SMTT(60)
        <5>2. FreeFds(p) \ {m} \in SUBSET Fds
          BY <4>1
        <5> QED BY <5>1, <5>2, LeastFree
      <4>4. m \in Fds /\ n \in Fds /\ m # n /\ ofile[p][m] = NoFile /\ ofile[p][n] = NoFile
        BY <4>2, <4>3 DEF FreeFds
      <4>5. ofile' = WithFd(WithFd(ofile, p, m, r), p, n, s)
        <5> HIDE DEF m, n, r, s
        <5>1. ofile \in [Procs -> [Fds -> Files \cup {NoFile}]]
          BY DEF Inv, TypeOK
        <5> QED BY <3>2, <4>4, <5>1 DEF WithFd
      <4>6. todo' = Set(todo, p, <<>>)
        BY <3>2 DEF Then, Set
      <4> HIDE DEF m, n
      <4> QED BY <1>1, <2>1, <4>4, <4>5, <4>6, PipeDone
    <3> QED BY <1>4, <3>1, <3>2
  <2>3. /\ type' \in [Files -> {"none", "pipe", "inode"}] /\ page' \in [Files -> Pages \cup {0}]
        /\ writable' \in [Files -> {0, 1}] /\ open' \in [Pages -> SUBSET Ends] /\ FileInv'
        /\ iref' = Cardinality(InodeFiles(type')) + Tally(todo', InodeOps)
        /\ \A u \in Pages : \A w \in {0, 1} :
              Cardinality(PipeFiles(type', page', writable', u, w)) + Tally(todo', CloseOps(u, w)) = Opened(open', u, w)
    <3> HIDE DEF r, s
    <3> QED BY <1>1, <1>2, <1>4, <2>2, PipeMade
  <2>4. TypeOK' /\ panicked' = 0
    BY <1>1, <2>2, <2>3 DEF Inv, TypeOK, Calls, Tables, Slots
  <2>5. CountInv'
    BY <2>2, <2>3 DEF CountInv
  <2> QED BY <2>2, <2>3, <2>4, <2>5 DEF Inv
<1> QED BY <1>3, <1>4 DEF pipe_page, fileVars

\* What fork() has left to do after a descriptor: the next one, or nothing
\* when the child exists.
LEMMA ForkGoesOn ==
  ASSUME Inv, NEW p \in Procs, fork_dup(p)
  PROVE  /\ todo' \in Calls /\ Len(todo'[p]) # 2 /\ \A r \in Procs : r # p => todo'[r] = todo[r]
         /\ \/ live' = live /\ \E o \in Pending(todo'[p]) : o.op = "fork" /\ o.x = Head(todo[p]).x
            \/ live' = live \cup {Head(todo[p]).x}
         /\ \A o \in Pending(todo'[p]) : OpOK(o) /\ o.op = "fork" /\ o.x = Head(todo[p]).x /\ o.y = Head(todo[p]).y + 1 /\ live' = live
         /\ \A f : /\ Tally(todo', UncountedOps(f)) = Tally(todo, UncountedOps(f))
                   /\ Tally(todo', HeldOps(f)) = Tally(todo, HeldOps(f))
         /\ Tally(todo', InodeOps) = Tally(todo, InodeOps)
         /\ \A g, w : Tally(todo', CloseOps(g, w)) = Tally(todo, CloseOps(g, w))
<1> DEFINE h == Head(todo[p])
           c == do("fork", h.x, h.y + 1)
<1>1. todo[p] # <<>> /\ h.op = "fork"
  BY DEF fork_dup, Busy
<1>2. todo \in Calls /\ h \in Op /\ todo[p] = <<h>> /\ OpOK(h)
  BY <1>1, Heads
<1>3. h.x \in Procs /\ h.y \in Fds
  BY <1>1, <1>2 DEF OpOK
<1>4. (\A f : One(h, UncountedOps(f)) = 0 /\ One(h, HeldOps(f)) = 0) /\ One(h, InodeOps) = 0 /\ \A g, w : One(h, CloseOps(g, w)) = 0
  BY <1>1 DEF One, UncountedOps, HeldOps, InodeOps, CloseOps
<1>5. CASE h.y = NOFILE - 1
  <2>1. todo' = Set(todo, p, <<>>) /\ live' = live \cup {h.x}
    BY <1>5 DEF fork_dup, Then, Set
  <2> HIDE DEF h
  <2>2. /\ todo' \in Calls /\ Len(todo'[p]) # 2 /\ Pending(todo'[p]) = {}
        /\ \A r \in Procs : r # p => todo'[r] = todo[r]
    BY <1>2, <2>1, Finish
  <2>3. ASSUME NEW Q, One(h, Q) = 0 PROVE Tally(todo', Q) = Tally(todo, Q)
    <3>1. Tally(Set(todo, p, <<>>), Q) \in Nat /\ Tally(todo, Q) = Tally(Set(todo, p, <<>>), Q) + One(h, Q)
      BY <1>2, FinishTally
    <3> QED BY <2>1, <2>3, <3>1, SMTT(30)
  <2>4. /\ \A f : /\ Tally(todo', UncountedOps(f)) = Tally(todo, UncountedOps(f))
                  /\ Tally(todo', HeldOps(f)) = Tally(todo, HeldOps(f))
        /\ Tally(todo', InodeOps) = Tally(todo, InodeOps)
        /\ \A g, w : Tally(todo', CloseOps(g, w)) = Tally(todo, CloseOps(g, w))
    BY <1>4, <2>3
  <2> QED BY <2>1, <2>2, <2>4 DEF h
<1>6. CASE h.y # NOFILE - 1
  <2>1. todo' = Set(todo, p, <<c>>) /\ live' = live
    BY <1>6 DEF fork_dup, Then, Set
  <2>2. c \in Op /\ c.op = "fork" /\ c.x = h.x /\ c.y = h.y + 1 /\ OpOK(c)
    <3> HIDE DEF h
    <3>1. h.y + 1 \in Fds
      BY <1>3, <1>6, FileAssumption, SMTT(30), SMTT(60) DEF Fds
    <3>2. c \in Op
      BY <1>3, <3>1, DoOp
    <3>3. c.op = "fork" /\ c.x = h.x /\ c.y = h.y + 1
      BY DEF do
    <3> QED BY <1>3, <3>1, <3>2, <3>3 DEF OpOK
  <2> HIDE DEF h, c
  <2>3. /\ todo' \in Calls /\ Len(todo'[p]) # 2 /\ Pending(todo'[p]) = {c}
        /\ \A r \in Procs : r # p => todo'[r] = todo[r]
    BY <1>2, <2>1, <2>2, Turn
  <2>4. ASSUME NEW Q, One(h, Q) = 0, One(c, Q) = 0 PROVE Tally(todo', Q) = Tally(todo, Q)
    <3>1. /\ Tally(todo, Q) \in Nat /\ Tally(Set(todo, p, <<c>>), Q) \in Nat
          /\ Tally(Set(todo, p, <<c>>), Q) + One(h, Q) = Tally(todo, Q) + One(c, Q)
      BY <1>2, <2>2, TurnTally
    <3> QED BY <2>1, <2>4, <3>1, SMTT(30)
  <2>5. (\A f : One(c, UncountedOps(f)) = 0 /\ One(c, HeldOps(f)) = 0) /\ One(c, InodeOps) = 0 /\ \A g, w : One(c, CloseOps(g, w)) = 0
    BY <2>2 DEF One, UncountedOps, HeldOps, InodeOps, CloseOps
  <2>6. /\ \A f : /\ Tally(todo', UncountedOps(f)) = Tally(todo, UncountedOps(f))
                  /\ Tally(todo', HeldOps(f)) = Tally(todo, HeldOps(f))
        /\ Tally(todo', InodeOps) = Tally(todo, InodeOps)
        /\ \A g, w : Tally(todo', CloseOps(g, w)) = Tally(todo, CloseOps(g, w))
    BY <1>4, <2>4, <2>5
  <2>7. /\ \E o \in Pending(todo'[p]) : o.op = "fork" /\ o.x = h.x
        /\ \A o \in Pending(todo'[p]) : OpOK(o) /\ o.op = "fork" /\ o.x = h.x /\ o.y = h.y + 1 /\ live' = live
    BY <2>1, <2>2, <2>3
  <2> QED BY <2>1, <2>3, <2>6, <2>7 DEF h
<1> QED BY <1>5, <1>6

\* fork() counts a descriptor of the child that it has just filled in.
LEMMA ForkDupInv == ASSUME Inv, NEW p \in Procs, fork_dup(p) PROVE Inv'
<1> DEFINE h == Head(todo[p])
           q == h.x
           n == h.y
           k == ofile[p][n]
<1>1. todo[p] # <<>> /\ h.op = "fork"
  BY DEF fork_dup, Busy
<1>2. /\ todo \in Calls /\ h \in Op /\ h \in Pending(todo[p]) /\ Pending(todo[p]) = {h}
      /\ p \in live /\ OpOK(h)
  BY <1>1, Heads, Running
<1>3. q \in Procs /\ n \in Fds /\ n \in Nat
  <2>1. q \in Procs /\ n \in Fds
    BY <1>1, <1>2 DEF OpOK
  <2>2. Fds \subseteq Nat
    BY FileAssumption, SMTT(30), SMTT(60) DEF Fds
  <2> QED BY <2>1, <2>2
<1>4. /\ q \notin live /\ todo[q] = <<>> /\ q # p
      /\ \A r \in Procs : \A u \in Pending(todo[r]) : u.op = "fork" /\ u.x = q => r = p
      /\ \A e \in Fds : ofile[q][e] # NoFile => e < n
  BY <1>1, <1>2 DEF Inv, ForkInv
<1>5. /\ todo' \in Calls /\ Len(todo'[p]) # 2 /\ \A r \in Procs : r # p => todo'[r] = todo[r]
      /\ \/ live' = live /\ \E o \in Pending(todo'[p]) : o.op = "fork" /\ o.x = q
         \/ live' = live \cup {q}
      /\ \A o \in Pending(todo'[p]) : OpOK(o) /\ o.op = "fork" /\ o.x = q /\ o.y = n + 1 /\ live' = live
  BY ForkGoesOn
<1>6. UNCHANGED <<type, page, writable, open, iref>> /\ ofile' = WithFd(ofile, q, n, k)
  BY DEF fork_dup, fileVars, WithFd
<1>7. ofile \in Tables /\ k \in Slots /\ (k # NoFile => k \in Files) /\ ref \in [Files -> Nat]
  <2>1. ofile \in Tables /\ ref \in [Files -> Nat]
    BY DEF Inv, TypeOK, Tables, Slots
  <2>2. k \in Slots
    BY <1>3, <2>1 DEF Tables
  <2> QED BY <2>1, <2>2 DEF Slots
<1>8. /\ panicked' = 0 /\ ref' \in [Files -> Nat]
      /\ \A f \in Files : (k = f => ref'[f] = ref[f] + 1 /\ ref'[f] # 0) /\ (k # f => ref'[f] = ref[f])
  <2>1. CASE k = NoFile
    <3>1. ref' = ref /\ panicked' = panicked
      BY <2>1 DEF fork_dup
    <3>2. \A f \in Files : k # f
      BY <2>1, FileIsNone
    <3> QED BY <1>7, <3>1, <3>2 DEF Inv
  <2>2. CASE k # NoFile
    <3>1. ref' = [ref EXCEPT ![k] = ref[k] + 1] /\ panicked' = IF ref[k] < 1 THEN 1 ELSE 0
      BY <2>2 DEF fork_dup
    <3>2. k \in Files /\ ref[k] \in Nat
      BY <1>7, <2>2
    <3>3. ~(ref[k] < 1)
      BY <1>3, <3>2, RefPositive
    <3> HIDE DEF k
    <3>4. ref[k] + 1 \in Nat /\ ref[k] + 1 # 0
      BY <3>2, SMTT(30), SMTT(60)
    <3> QED BY <1>7, <3>1, <3>2, <3>3, <3>4
  <2> QED BY <2>1, <2>2
<1>9. /\ ofile' \in Tables /\ ofile'[q][n] = k
      /\ \A r \in Procs : \A e \in Fds : r # q \/ e # n => ofile'[r][e] = ofile[r][e]
  <2> HIDE DEF k, n, q
  <2> QED BY <1>3, <1>6, <1>7, FdSet, SMTT(30), SMTT(60)
<1>10. \A r \in Procs : r # q => ofile'[r] = ofile[r]
  <2> HIDE DEF k, n, q
  <2> QED BY <1>3, <1>6, <1>7, FdSet, SMTT(30), SMTT(60)
<1>11. ofile[q][n] = NoFile
  <2>1. ~(n < n)
    <3> HIDE DEF n
    <3> QED BY <1>3, SMTT(30), SMTT(60)
  <2> QED BY <1>3, <1>4, <2>1
<1>12. Pending(todo'[q]) = {} /\ todo'[q] = <<>>
  BY <1>3, <1>4, <1>5, PendingOf
<1>13. p \in live' /\ \A r \in Procs : r # q => (r \in live' <=> r \in live)
  BY <1>2, <1>5
<1> HIDE DEF k, n, q, h
<1>14. TypeOK'
  <2>1. live' \subseteq Procs
    BY <1>3, <1>5 DEF Inv, TypeOK
  <2>2. panicked' \in {0, 1}
    BY <1>8
  <2> QED BY <1>5, <1>6, <1>8, <1>9, <2>1, <2>2 DEF Inv, TypeOK, Calls, Tables, Slots
<1>15. TodoInv'
  <2> SUFFICES ASSUME NEW r \in Procs
               PROVE  /\ \A o \in Pending(todo'[r]) : OpOK(o)
                      /\ Len(todo'[r]) = 2 => /\ todo'[r][1].op \in {"fileclose", "iput", "pipeclose"}
                                              /\ todo'[r][2].op \in {"fileclose", "iput", "exit"}
                      /\ r \in live' => \A o \in Pending(todo'[r]) : o.op # "exit"
                      /\ r \notin live' => \A o \in Pending(todo'[r]) : o.op \in {"fileclose", "iput", "pipeclose", "exit"}
    BY DEF TodoInv
  <2>1. CASE r = p
    BY <1>5, <1>13, <2>1
  <2>2. CASE r = q
    <3>1. Len(<<>>) # 2
      BY SMTT(30), SMTT(60)
    <3> QED BY <1>12, <2>2, <3>1
  <2>3. CASE r # p /\ r # q
    BY <1>5, <1>13, <2>3 DEF Inv, TodoInv
  <2> QED BY <2>1, <2>2, <2>3
<1>16. ForkInv'
  <2> SUFFICES ASSUME NEW s \in Procs, NEW o \in Pending(todo'[s]), o.op = "fork"
               PROVE  /\ o.x \notin live' /\ todo'[o.x] = <<>>
                      /\ \A r \in Procs : \A u \in Pending(todo'[r]) : u.op = "fork" /\ u.x = o.x => r = s
                      /\ \A e \in Fds : ofile'[o.x][e] # NoFile => e < o.y
    BY DEF ForkInv
  <2>1. CASE s = p
    <3>1. o.x = q /\ o.y = n + 1 /\ live' = live
      BY <1>5, <2>1
    <3>2. \A r \in Procs : \A u \in Pending(todo'[r]) : u.op = "fork" /\ u.x = q => r = p
      BY <1>4, <1>5
    <3>3. ASSUME NEW e \in Fds, ofile'[q][e] # NoFile PROVE e < n + 1
      <4>1. e \in Nat
        BY FileAssumption, SMTT(30), SMTT(60) DEF Fds
      <4>2. e = n \/ e < n
        BY <1>3, <1>4, <1>9, <3>3
      <4> QED BY <1>3, <4>1, <4>2, SMTT(30), SMTT(60)
    <3> QED BY <1>4, <1>12, <2>1, <3>1, <3>2, <3>3
  <2>2. CASE s # p
    <3>1. o \in Pending(todo[s])
      BY <1>5, <2>2
    <3>2. o.x # q
      BY <1>4, <2>2, <3>1
    <3>3. /\ o.x \notin live /\ todo[o.x] = <<>>
          /\ \A r \in Procs : \A u \in Pending(todo[r]) : u.op = "fork" /\ u.x = o.x => r = s
          /\ \A e \in Fds : ofile[o.x][e] # NoFile => e < o.y
      BY <3>1 DEF Inv, ForkInv
    <3>4. o.x \in Procs /\ o.x # p
      <4>1. o.x \in Procs
        BY <3>1 DEF Inv, TodoInv, OpOK
      <4> QED BY <1>2, <3>3, <4>1
    <3>5. \A r \in Procs : \A u \in Pending(todo'[r]) : u.op = "fork" /\ u.x = o.x => r = s
      BY <1>5, <3>2, <3>3
    <3> QED BY <1>5, <1>10, <1>13, <3>2, <3>3, <3>4, <3>5
  <2> QED BY <2>1, <2>2
<1>17. DeadInv'
  <2> SUFFICES ASSUME NEW s \in Procs \ live', NEW e \in Fds, ofile'[s][e] # NoFile
               PROVE  \/ \E r \in Procs : \E o \in Pending(todo'[r]) : o.op = "fork" /\ o.x = s
                      \/ \E o \in Pending(todo'[s]) : o.op = "exit" /\ e >= o.y
    BY DEF DeadInv
  <2>1. CASE s = q
    BY <1>5, <2>1
  <2>2. CASE s # q
    <3>1. s # p /\ s \notin live /\ ofile[s][e] # NoFile
      BY <1>10, <1>13, <2>2
    <3>2. \/ \E r \in Procs : \E o \in Pending(todo[r]) : o.op = "fork" /\ o.x = s
          \/ \E o \in Pending(todo[s]) : o.op = "exit" /\ e >= o.y
      BY <3>1 DEF Inv, DeadInv
    <3>3. \A r \in Procs : \A o \in Pending(todo[r]) : o.op = "fork" /\ o.x = s => r # p
      BY <1>2, <2>2 DEF q
    <3> QED BY <1>5, <3>1, <3>2, <3>3
  <2> QED BY <2>1, <2>2
<1>18. DupInv'
  <2> SUFFICES ASSUME NEW r \in Procs, NEW o \in Pending(todo'[r]), o.op = "filedup"
               PROVE  \E fe, ff \in Fds : fe # ff /\ ofile'[r][fe] = o.x /\ ofile'[r][ff] = o.x
    BY DEF DupInv
  <2>1. r # p /\ r # q
    BY <1>5, <1>12
  <2>2. \E fe, ff \in Fds : fe # ff /\ ofile[r][fe] = o.x /\ ofile[r][ff] = o.x
    BY <1>5, <2>1 DEF Inv, DupInv
  <2> QED BY <1>10, <2>1, <2>2
<1>19. FileInv'
  BY <1>6, <1>8 DEF Inv, FileInv
<1>20. FreshInv'
  <2>1. \A o \in Pending(todo'[p]) : \A f : ~Mentions(o, f)
    BY <1>5 DEF Mentions, HeldOps, UncountedOps
  <2>2. \A f \in Files : ~Touches(p, f) =>
             /\ ref'[f] = ref[f] /\ type'[f] = type[f]
             /\ \A r \in Procs : \A fd \in Fds : ofile'[r][fd] # f
             /\ \A u \in Pending(todo'[p]) : ~Mentions(u, f)
    <3> SUFFICES ASSUME NEW f \in Files, ~Touches(p, f)
                 PROVE  f # k /\ (\A r \in Procs : \A fd \in Fds : ofile'[r][fd] # f)
      BY <1>6, <1>8, <2>1
    <3>1. f # k
      BY <1>3 DEF Touches, k
    <3> QED BY <1>3, <1>9, <3>1 DEF Touches
  <2> QED BY <1>5, <2>1, <2>2, KeepsFresh
<1>21. CountInv'
  <2>1. ASSUME NEW f \in Files
        PROVE  ref'[f] + Tally(todo', UncountedOps(f)) = Cardinality(FdsOf(ofile', f)) + Tally(todo', HeldOps(f))
    <3> DEFINE r == ref[f]
               s == ref'[f]
               u == Tally(todo, UncountedOps(f))
               d == Cardinality(FdsOf(ofile, f))
               m == Tally(todo, HeldOps(f))
               e == IF k = f THEN 1 ELSE 0
    <3>1. Tally(todo', HeldOps(f)) = m /\ Tally(todo', UncountedOps(f)) = u
      BY ForkGoesOn
    <3>2. u \in Nat /\ m \in Nat /\ r \in Nat
      BY <1>2, <1>7, TallyFinite
    <3>3. d \in Nat /\ Cardinality(FdsOf(ofile', f)) = d - 0 + e
      <4>1. NoFile # f
        BY FileIsNone
      <4>2. d \in Nat /\ Cardinality(FdsOf(WithFd(ofile, q, n, k), f)) = d - (IF ofile[q][n] = f THEN 1 ELSE 0) + e
        BY <1>3, <1>7, FdCount, SMTT(30), SMTT(60)
      <4> QED BY <1>6, <1>11, <4>1, <4>2
    <3>4. r + u = d + m /\ (k = f => s = r + 1 /\ e = 1) /\ (k # f => s = r /\ e = 0)
      BY <1>8 DEF Inv, CountInv
    <3>5. s + u = (d - 0 + e) + m
      <4> HIDE DEF r, s, u, d, m, e
      <4> QED BY <3>2, <3>3, <3>4, SMTT(30), SMTT(60)
    <3> QED BY <3>1, <3>3, <3>5
  <2>2. Tally(todo', InodeOps) = Tally(todo, InodeOps) /\ \A g, w : Tally(todo', CloseOps(g, w)) = Tally(todo, CloseOps(g, w))
    BY ForkGoesOn
  <2> QED BY <1>6, <2>1, <2>2, KeepsRest
<1> QED BY <1>8, <1>14, <1>15, <1>16, <1>17, <1>18, <1>19, <1>20, <1>21 DEF Inv

\* What exit() has left to do after a descriptor: to close its file, if there
\* is one, and the next descriptors, if there are more.
LEMMA ExitGoesOn ==
  ASSUME Inv, NEW p \in Procs, exit_close(p), NEW k, k = ofile[p][Head(todo[p]).y]
  PROVE  /\ todo' \in Calls /\ \A r \in Procs : r # p => todo'[r] = todo[r]
         /\ Len(todo'[p]) = 2 => todo'[p][1].op = "fileclose" /\ todo'[p][2].op = "exit"
         /\ \A o \in Pending(todo'[p]) : /\ OpOK(o)
                                         /\ o.op = "exit" \/ (o.op = "fileclose" /\ o.x = k)
         /\ Head(todo[p]).y # NOFILE - 1 => \E o \in Pending(todo'[p]) : o.op = "exit" /\ o.y = Head(todo[p]).y + 1
         /\ \A f \in Files : /\ Tally(todo, UncountedOps(f)) \in Nat /\ Tally(todo, HeldOps(f)) \in Nat
                             /\ Tally(todo', UncountedOps(f)) = Tally(todo, UncountedOps(f))
                             /\ Tally(todo', HeldOps(f)) = Tally(todo, HeldOps(f)) + (IF k = f THEN 1 ELSE 0)
         /\ Tally(todo', InodeOps) = Tally(todo, InodeOps)
         /\ \A g, w : Tally(todo', CloseOps(g, w)) = Tally(todo, CloseOps(g, w))
<1> DEFINE h == Head(todo[p])
           n == h.y
           c == closing(k)
           d == do("exit", 0, n + 1)
<1>1. todo[p] # <<>> /\ h.op = "exit"
  BY DEF exit_close, Busy
<1>2. todo \in Calls /\ h \in Op /\ todo[p] = <<h>> /\ OpOK(h)
  BY <1>1, Heads
<1>3. n \in Fds /\ (k # NoFile => k \in Files)
  <2>1. n \in Fds
    BY <1>1, <1>2 DEF OpOK
  <2>2. ofile \in Tables
    BY DEF Inv, TypeOK, Tables, Slots
  <2>3. ofile[p][n] \in Slots
    BY <2>1, <2>2 DEF Tables
  <2> QED BY <2>1, <2>3 DEF Slots
<1>4. /\ (k = NoFile /\ n = NOFILE - 1 => todo' = Set(todo, p, <<>>))
      /\ (k = NoFile /\ n # NOFILE - 1 => todo' = Set(todo, p, <<d>>))
      /\ (k # NoFile /\ n = NOFILE - 1 => todo' = Set(todo, p, <<c>> \o <<>>))
      /\ (k # NoFile /\ n # NOFILE - 1 => todo' = Set(todo, p, <<c>> \o <<d>>))
  BY DEF exit_close, Then, Set
<1> HIDE DEF h
<1>5. ASSUME k # NoFile PROVE c \in Op /\ c.op = "fileclose" /\ c.x = k /\ OpOK(c)
  <2>1. c \in Op
    BY <1>3, <1>5, DoOp
  <2>2. c.op = "fileclose" /\ c.x = k
    BY DEF closing, do
  <2> QED BY <1>3, <1>5, <2>1, <2>2 DEF OpOK
<1>6. ASSUME n # NOFILE - 1 PROVE d \in Op /\ d.op = "exit" /\ d.y = n + 1 /\ OpOK(d)
  <2> HIDE DEF n
  <2>1. n + 1 \in Fds
    BY <1>3, <1>6, FileAssumption, SMTT(30), SMTT(60) DEF Fds
  <2>2. d \in Op
    BY <2>1, DoOp
  <2>3. d.op = "exit" /\ d.y = n + 1
    BY DEF do
  <2> QED BY <2>1, <2>2, <2>3 DEF OpOK
<1>7. /\ \A f : One(h, UncountedOps(f)) = 0 /\ One(c, UncountedOps(f)) = 0 /\ One(d, UncountedOps(f)) = 0
      /\ One(h, InodeOps) = 0 /\ One(c, InodeOps) = 0 /\ One(d, InodeOps) = 0
      /\ \A g, w : One(h, CloseOps(g, w)) = 0 /\ One(c, CloseOps(g, w)) = 0 /\ One(d, CloseOps(g, w)) = 0
      /\ \A f : One(h, HeldOps(f)) = 0 /\ One(d, HeldOps(f)) = 0
  <2>1. c.op = "fileclose" /\ d.op = "exit" /\ h.op = "exit"
    BY <1>1 DEF closing, do, h
  <2> HIDE DEF c, d
  <2> QED BY <2>1 DEF One, UncountedOps, InodeOps, CloseOps, HeldOps
<1>8. ASSUME NEW f \in Files, k # NoFile PROVE One(c, HeldOps(f)) = IF k = f THEN 1 ELSE 0
  <2> HIDE DEF c
  <2> QED BY <1>5, <1>8 DEF One, HeldOps
<1> HIDE DEF c, d, n
<1>9. ASSUME
             \A Q : One(h, Q) = 0 /\ One(c, Q) = 0 /\ One(d, Q) = 0 => Tally(todo', Q) = Tally(todo, Q),
             \A f \in Files : Tally(todo', HeldOps(f)) = Tally(todo, HeldOps(f)) + (IF k = f THEN 1 ELSE 0)
      PROVE  /\ \A f \in Files : /\ Tally(todo, UncountedOps(f)) \in Nat /\ Tally(todo, HeldOps(f)) \in Nat
                                 /\ Tally(todo', UncountedOps(f)) = Tally(todo, UncountedOps(f))
                                 /\ Tally(todo', HeldOps(f)) = Tally(todo, HeldOps(f)) + (IF k = f THEN 1 ELSE 0)
             /\ Tally(todo', InodeOps) = Tally(todo, InodeOps)
             /\ \A g, w : Tally(todo', CloseOps(g, w)) = Tally(todo, CloseOps(g, w))
  <2>1. \A Q : Tally(todo, Q) \in Nat
    BY <1>2, TallyFinite
  <2> QED BY <1>7, <1>9, <2>1
<1>10. CASE k = NoFile /\ n = NOFILE - 1
  <2>1. todo' = Set(todo, p, <<>>)
    BY <1>4, <1>10
  <2>2. /\ todo' \in Calls /\ Len(todo'[p]) # 2 /\ Pending(todo'[p]) = {}
        /\ \A q \in Procs : q # p => todo'[q] = todo[q]
    BY <1>2, <2>1, Finish
  <2>3. ASSUME NEW Q, One(h, Q) = 0 PROVE Tally(todo', Q) = Tally(todo, Q) + 0 /\ Tally(todo', Q) = Tally(todo, Q)
    <3>1. Tally(Set(todo, p, <<>>), Q) \in Nat /\ Tally(todo, Q) = Tally(Set(todo, p, <<>>), Q) + One(h, Q)
      BY <1>2, FinishTally
    <3> QED BY <2>1, <2>3, <3>1, SMTT(30)
  <2>4. \A f \in Files : k # f
    BY <1>10, FileIsNone
  <2>5. \A f \in Files : Tally(todo', HeldOps(f)) = Tally(todo, HeldOps(f)) + (IF k = f THEN 1 ELSE 0)
    BY <1>7, <2>3, <2>4
  <2> QED BY <1>9, <1>10, <2>2, <2>3, <2>5 DEF n, h
<1>11. CASE k = NoFile /\ n # NOFILE - 1
  <2>1. todo' = Set(todo, p, <<d>>) /\ d \in Op /\ d.op = "exit" /\ d.y = n + 1 /\ OpOK(d)
    BY <1>4, <1>6, <1>11
  <2>2. /\ todo' \in Calls /\ Len(todo'[p]) # 2 /\ Pending(todo'[p]) = {d}
        /\ \A q \in Procs : q # p => todo'[q] = todo[q]
    BY <1>2, <2>1, Turn
  <2>3. ASSUME NEW Q, One(h, Q) = 0, One(d, Q) = 0 PROVE Tally(todo', Q) = Tally(todo, Q) + 0 /\ Tally(todo', Q) = Tally(todo, Q)
    <3>1. /\ Tally(todo, Q) \in Nat /\ Tally(Set(todo, p, <<d>>), Q) \in Nat
          /\ Tally(Set(todo, p, <<d>>), Q) + One(h, Q) = Tally(todo, Q) + One(d, Q)
      BY <1>2, <2>1, TurnTally
    <3> QED BY <2>1, <2>3, <3>1, SMTT(30)
  <2>4. \A f \in Files : k # f
    BY <1>11, FileIsNone
  <2>5. \A f \in Files : Tally(todo', HeldOps(f)) = Tally(todo, HeldOps(f)) + (IF k = f THEN 1 ELSE 0)
    BY <1>7, <2>3, <2>4
  <2> QED BY <1>9, <2>1, <2>2, <2>3, <2>5 DEF n, h
<1>12. CASE k # NoFile /\ n = NOFILE - 1
  <2>1. todo' = Set(todo, p, <<c>>) /\ c \in Op /\ c.op = "fileclose" /\ c.x = k /\ OpOK(c)
    <3>1. <<c>> \o <<>> = <<c>>
      BY SMTT(30), SMTT(60)
    <3> QED BY <1>4, <1>5, <1>12, <3>1
  <2>2. /\ todo' \in Calls /\ Len(todo'[p]) # 2 /\ Pending(todo'[p]) = {c}
        /\ \A q \in Procs : q # p => todo'[q] = todo[q]
    BY <1>2, <2>1, Turn
  <2>3. ASSUME NEW Q, One(h, Q) = 0
        PROVE  Tally(todo, Q) \in Nat /\ Tally(todo', Q) \in Nat /\ Tally(todo', Q) + 0 = Tally(todo, Q) + One(c, Q)
    <3>1. /\ Tally(todo, Q) \in Nat /\ Tally(Set(todo, p, <<c>>), Q) \in Nat
          /\ Tally(Set(todo, p, <<c>>), Q) + One(h, Q) = Tally(todo, Q) + One(c, Q)
      BY <1>2, <2>1, TurnTally
    <3> QED BY <2>1, <2>3, <3>1
  <2>4. ASSUME NEW Q, One(h, Q) = 0 PROVE Tally(todo', Q) = Tally(todo, Q) + One(c, Q)
    BY <2>3, <2>4, SMTT(30)
  <2>5. ASSUME NEW Q, One(h, Q) = 0, One(c, Q) = 0 PROVE Tally(todo', Q) = Tally(todo, Q)
    BY <2>3, <2>5, SMTT(30)
  <2>6. \A f \in Files : Tally(todo', HeldOps(f)) = Tally(todo, HeldOps(f)) + (IF k = f THEN 1 ELSE 0)
    BY <1>7, <1>8, <1>12, <2>4
  <2> QED BY <1>9, <1>12, <2>1, <2>2, <2>5, <2>6 DEF n, h
<1>13. CASE k # NoFile /\ n # NOFILE - 1
  <2>1. c \in Op /\ c.op = "fileclose" /\ c.x = k /\ OpOK(c) /\ d \in Op /\ d.op = "exit" /\ d.y = n + 1 /\ OpOK(d)
    BY <1>5, <1>6, <1>13
  <2>2. todo' = Two(todo, p, c, d)
    <3>1. <<c>> \o <<d>> = <<c, d>>
      BY <2>1, PairOf
    <3> QED BY <1>4, <1>13, <3>1 DEF Two
  <2>3. /\ todo' \in Calls /\ todo'[p][1] = c /\ todo'[p][2] = d /\ Pending(todo'[p]) = {c, d}
        /\ \A q \in Procs : q # p => todo'[q] = todo[q]
    <3>1. Two(todo, p, c, d) \in Calls /\ \A q \in Procs : q # p => Two(todo, p, c, d)[q] = todo[q]
      BY <1>2, <2>1, Split
    <3>2. Two(todo, p, c, d)[p] = <<c, d>>
      BY <1>2, <2>1, SplitOps
    <3>3. Pending(<<c, d>>) = {c, d}
      BY PendingOf
    <3>4. <<c, d>>[1] = c /\ <<c, d>>[2] = d
      BY <2>1, Shapes
    <3> QED BY <2>2, <3>1, <3>2, <3>3, <3>4
  <2>4. ASSUME NEW Q, One(h, Q) = 0, One(d, Q) = 0
        PROVE  Tally(todo, Q) \in Nat /\ Tally(todo', Q) \in Nat /\ Tally(todo', Q) + 0 = Tally(todo, Q) + (One(c, Q) + 0)
    <3>1. /\ Tally(todo, Q) \in Nat /\ Tally(Two(todo, p, c, d), Q) \in Nat
          /\ Tally(Two(todo, p, c, d), Q) + One(Head(todo[p]), Q) = Tally(todo, Q) + (One(c, Q) + One(d, Q))
      BY <1>2, <2>1, SplitTally DEF h
    <3> QED BY <2>2, <2>4, <3>1 DEF h
  <2>5. ASSUME NEW Q, One(h, Q) = 0, One(d, Q) = 0, One(c, Q) \in {0, 1} PROVE Tally(todo', Q) = Tally(todo, Q) + One(c, Q)
    BY <2>4, <2>5, SMTT(30), SMTT(60)
  <2>6. ASSUME NEW Q, One(h, Q) = 0, One(c, Q) = 0, One(d, Q) = 0 PROVE Tally(todo', Q) = Tally(todo, Q)
    BY <2>4, <2>6, SMTT(30), SMTT(60)
  <2>7. \A f \in Files : Tally(todo', HeldOps(f)) = Tally(todo, HeldOps(f)) + (IF k = f THEN 1 ELSE 0)
    <3>1. \A f \in Files : One(c, HeldOps(f)) = (IF k = f THEN 1 ELSE 0) /\ One(c, HeldOps(f)) \in {0, 1}
      BY <1>8, <1>13
    <3> QED BY <1>7, <2>5, <3>1
  <2> QED BY <1>9, <2>1, <2>3, <2>6, <2>7 DEF n, h
<1> QED BY <1>10, <1>11, <1>12, <1>13

\* exit() clears a descriptor, whose reference it then holds until it has
\* closed the file.
LEMMA ExitCloseInv == ASSUME Inv, NEW p \in Procs, exit_close(p) PROVE Inv'
<1> DEFINE h == Head(todo[p])
           n == h.y
           k == ofile[p][n]
<1>1. todo[p] # <<>> /\ h.op = "exit"
  BY DEF exit_close, Busy
<1>2. /\ todo \in Calls /\ h \in Pending(todo[p]) /\ Pending(todo[p]) = {h} /\ OpOK(h)
  BY <1>1, Heads
<1>3. n \in Fds /\ n \in Nat /\ p \notin live /\ k \in Slots
  <2>1. n \in Fds
    BY <1>1, <1>2 DEF OpOK
  <2>2. Fds \subseteq Nat
    BY FileAssumption, SMTT(30) DEF Fds
  <2>3. k \in Slots
    <3>1. ofile \in Tables
      BY DEF Inv, TypeOK, Tables, Slots
    <3> QED BY <2>1, <3>1 DEF Tables
  <2> QED BY <1>1, <1>2, <2>1, <2>2, <2>3 DEF Inv, TodoInv
<1>4. UNCHANGED <<ref, type, page, writable, live, open, iref, panicked>> /\ ofile' = WithFd(ofile, p, n, NoFile)
  BY DEF exit_close, fileVars, WithFd
<1>5. /\ todo' \in Calls /\ \A r \in Procs : r # p => todo'[r] = todo[r]
      /\ Len(todo'[p]) = 2 => todo'[p][1].op = "fileclose" /\ todo'[p][2].op = "exit"
      /\ \A o \in Pending(todo'[p]) : OpOK(o) /\ (o.op = "exit" \/ (o.op = "fileclose" /\ o.x = k))
      /\ n # NOFILE - 1 => \E o \in Pending(todo'[p]) : o.op = "exit" /\ o.y = n + 1
  <2>1. todo' \in Calls /\ \A r \in Procs : r # p => todo'[r] = todo[r]
    BY ExitGoesOn
  <2>2. Len(todo'[p]) = 2 => todo'[p][1].op = "fileclose" /\ todo'[p][2].op = "exit"
    BY ExitGoesOn
  <2>3. \A o \in Pending(todo'[p]) : OpOK(o) /\ (o.op = "exit" \/ (o.op = "fileclose" /\ o.x = k))
    <3>1. k = ofile[p][Head(todo[p]).y]
      OBVIOUS
    <3> HIDE DEF k
    <3>2. \A o \in Pending(todo'[p]) : OpOK(o)
      BY <3>1, ExitGoesOn
    <3>3. \A o \in Pending(todo'[p]) : o.op = "exit" \/ (o.op = "fileclose" /\ o.x = k)
      BY <3>1, ExitGoesOn, SMTT(30), SMTT(60)
    <3> QED BY <3>2, <3>3
  <2>4. n # NOFILE - 1 => \E o \in Pending(todo'[p]) : o.op = "exit" /\ o.y = n + 1
    BY ExitGoesOn
  <2> QED BY <2>1, <2>2, <2>3, <2>4
<1>6. /\ \A f \in Files : /\ Tally(todo, UncountedOps(f)) \in Nat /\ Tally(todo, HeldOps(f)) \in Nat
                          /\ Tally(todo', UncountedOps(f)) = Tally(todo, UncountedOps(f))
                          /\ Tally(todo', HeldOps(f)) = Tally(todo, HeldOps(f)) + (IF k = f THEN 1 ELSE 0)
      /\ Tally(todo', InodeOps) = Tally(todo, InodeOps)
      /\ \A g, w : Tally(todo', CloseOps(g, w)) = Tally(todo, CloseOps(g, w))
  BY ExitGoesOn
<1>7. ofile \in Tables /\ NoFile \in Slots
  BY DEF Inv, TypeOK, Tables, Slots
<1>8. /\ ofile' \in Tables /\ ofile'[p][n] = NoFile
      /\ \A r \in Procs : \A e \in Fds : r # p \/ e # n => ofile'[r][e] = ofile[r][e]
  <2> HIDE DEF n
  <2> QED BY <1>3, <1>4, <1>7, FdSet, SMTT(30), SMTT(60)
<1>9. \A r \in Procs : r # p => ofile'[r] = ofile[r]
  <2> HIDE DEF n
  <2> QED BY <1>3, <1>4, <1>7, FdSet, SMTT(30)
<1> HIDE DEF h, n, k
<1>10. TypeOK' /\ panicked' = 0
  BY <1>4, <1>5, <1>8 DEF Inv, TypeOK, Calls, Tables, Slots
<1>11. TodoInv'
  BY <1>3, <1>4, <1>5, KeepsTodo
<1>12. ForkInv'
  <2> SUFFICES ASSUME NEW s \in Procs, NEW o \in Pending(todo'[s]), o.op = "fork"
               PROVE  /\ o.x \notin live' /\ todo'[o.x] = <<>>
                      /\ \A r \in Procs : \A u \in Pending(todo'[r]) : u.op = "fork" /\ u.x = o.x => r = s
                      /\ \A e \in Fds : ofile'[o.x][e] # NoFile => e < o.y
    BY DEF ForkInv
  <2>1. \A r \in Procs : \A u \in Pending(todo'[r]) : u.op = "fork" => r # p /\ u \in Pending(todo[r])
    BY <1>5
  <2>2. o \in Pending(todo[s])
    BY <2>1
  <2>3. /\ o.x \notin live /\ todo[o.x] = <<>>
        /\ \A r \in Procs : \A u \in Pending(todo[r]) : u.op = "fork" /\ u.x = o.x => r = s
        /\ \A e \in Fds : ofile[o.x][e] # NoFile => e < o.y
    BY <2>2 DEF Inv, ForkInv
  <2>4. o.x \in Procs
    BY <2>2 DEF Inv, TodoInv, OpOK
  <2>5. o.x # p
    BY <1>1, <2>3
  <2> QED BY <1>4, <1>5, <1>9, <2>1, <2>3, <2>4, <2>5
<1>13. DeadInv'
  <2> SUFFICES ASSUME NEW s \in Procs \ live, NEW e \in Fds, ofile'[s][e] # NoFile
               PROVE  \/ \E r \in Procs : \E o \in Pending(todo'[r]) : o.op = "fork" /\ o.x = s
                      \/ \E o \in Pending(todo'[s]) : o.op = "exit" /\ e >= o.y
    BY <1>4 DEF DeadInv
  <2>1. CASE s = p
    <3>1. e # n /\ ofile[p][e] # NoFile
      BY <1>8, <2>1
    <3>2. ~(\E r \in Procs : \E o \in Pending(todo[r]) : o.op = "fork" /\ o.x = p)
      BY <1>1 DEF Inv, ForkInv
    <3>3. e >= n
      BY <1>2, <2>1, <3>1, <3>2 DEF Inv, DeadInv, n
    <3>4. e \in 0 .. NOFILE - 1
      BY DEF Fds
    <3>5. n # NOFILE - 1 /\ e >= n + 1
      BY <1>3, <3>1, <3>3, <3>4, FileAssumption, SMTT(30), SMTT(60)
    <3> QED BY <1>5, <2>1, <3>5
  <2>2. CASE s # p
    <3>1. ofile[s][e] # NoFile
      BY <1>9, <2>2
    <3>2. \/ \E r \in Procs : \E o \in Pending(todo[r]) : o.op = "fork" /\ o.x = s
          \/ \E o \in Pending(todo[s]) : o.op = "exit" /\ e >= o.y
      BY <3>1 DEF Inv, DeadInv
    <3>3. \A r \in Procs : \A o \in Pending(todo[r]) : o.op = "fork" => r # p
      BY <1>1, <1>2 DEF h
    <3> QED BY <1>5, <2>2, <3>2, <3>3
  <2> QED BY <2>1, <2>2
<1>14. DupInv'
  BY <1>5, <1>9, KeepsDup
<1>15. FileInv'
  BY <1>4 DEF Inv, FileInv
<1>16. FreshInv'
  <2>1. \A o \in Pending(todo'[p]) : o.op \notin {"pipe1", "pipe2"} /\ \A f : Mentions(o, f) => f = k
    <3> SUFFICES ASSUME NEW o \in Pending(todo'[p])
                 PROVE  o.op \notin {"pipe1", "pipe2"} /\ \A f : Mentions(o, f) => f = k
      OBVIOUS
    <3>1. CASE o.op = "exit"
      BY <3>1 DEF Mentions, HeldOps, UncountedOps
    <3>2. CASE o.op = "fileclose" /\ o.x = k
      BY <3>2 DEF Mentions, HeldOps, UncountedOps
    <3> QED BY <1>5, <3>1, <3>2
  <2>2. \A f \in Files : ~Touches(p, f) =>
             /\ ref'[f] = ref[f] /\ type'[f] = type[f]
             /\ \A q \in Procs : \A e \in Fds : ofile'[q][e] # f
             /\ \A u \in Pending(todo'[p]) : ~Mentions(u, f)
    <3> SUFFICES ASSUME NEW f \in Files, ~Touches(p, f)
                 PROVE  f # k /\ (\A q \in Procs : \A e \in Fds : ofile'[q][e] # f)
      BY <1>4, <2>1
    <3>1. f # k
      BY <1>3 DEF Touches, k
    <3>2. f # NoFile
      BY FileIsNone
    <3> QED BY <1>8, <3>1, <3>2 DEF Touches
  <2> QED BY <1>5, <2>1, <2>2, KeepsFresh
<1>17. CountInv'
  <2>1. ASSUME NEW f \in Files
        PROVE  ref'[f] + Tally(todo', UncountedOps(f)) = Cardinality(FdsOf(ofile', f)) + Tally(todo', HeldOps(f))
    <3> DEFINE r == ref[f]
               u == Tally(todo, UncountedOps(f))
               d == Cardinality(FdsOf(ofile, f))
               m == Tally(todo, HeldOps(f))
               e == IF k = f THEN 1 ELSE 0
    <3>1. u \in Nat /\ m \in Nat /\ Tally(todo', HeldOps(f)) = m + e /\ Tally(todo', UncountedOps(f)) = u
      BY <1>6
    <3>2. d \in Nat /\ Cardinality(FdsOf(ofile', f)) = d - e + 0
      <4>1. NoFile # f
        BY FileIsNone
      <4>2. d \in Nat /\ Cardinality(FdsOf(WithFd(ofile, p, n, NoFile), f)) = d - (IF ofile[p][n] = f THEN 1 ELSE 0) + (IF NoFile = f THEN 1 ELSE 0)
        BY <1>3, <1>7, FdCount, SMTT(30), SMTT(60)
      <4> QED BY <1>4, <4>1, <4>2 DEF k
    <3>3. r + u = d + m /\ r \in Nat /\ e \in {0, 1} /\ ref'[f] = r
      BY <1>4 DEF Inv, CountInv, TypeOK
    <3>4. r + u = (d - e + 0) + (m + e)
      <4> HIDE DEF r, u, d, m, e
      <4> QED BY <3>1, <3>2, <3>3, SMTT(30), SMTT(60)
    <3> QED BY <3>1, <3>2, <3>3, <3>4
  <2> QED BY <1>4, <1>6, <2>1, KeepsRest
<1> QED BY <1>10, <1>11, <1>12, <1>13, <1>14, <1>15, <1>16, <1>17 DEF Inv
------------------------------------------------------------------------------
(***************************************************************************)
(* The theorems                                                            *)
(***************************************************************************)
\* The invariant is inductive.
LEMMA NextInv == ASSUME Inv, [Next]_vars PROVE Inv'
<1>1. CASE UNCHANGED vars
  <2>1. UNCHANGED <<ref, type, page, writable, ofile, live, open, iref, todo, panicked>>
    BY <1>1 DEF vars, fileVars
  <2>2. TypeOK' /\ panicked' = 0
    BY <2>1 DEF Inv, TypeOK
  <2>3. TodoInv'
    BY <2>1 DEF Inv, TodoInv
  <2>4. ForkInv'
    BY <2>1 DEF Inv, ForkInv
  <2>5. DeadInv'
    BY <2>1 DEF Inv, DeadInv
  <2>6. DupInv' /\ FileInv'
    BY <2>1 DEF Inv, DupInv, FileInv
  <2>7. FreshInv'
    <3> SUFFICES ASSUME NEW p \in Procs, NEW o \in Pending(todo'[p]), NEW f \in Files, o.op \in {"pipe1", "pipe2"}, Mentions(o, f)
                 PROVE  /\ ref'[f] = 1 /\ type'[f] = "none"
                        /\ \A q \in Procs : \A fd \in Fds : ofile'[q][fd] # f
                        /\ \A q \in Procs : \A u \in Pending(todo'[q]) : Mentions(u, f) => q = p
      BY DEF FreshInv
    <3>1. o \in Pending(todo[p])
      BY <2>1
    <3>2. /\ ref[f] = 1 /\ type[f] = "none"
          /\ \A q \in Procs : \A fd \in Fds : ofile[q][fd] # f
          /\ \A q \in Procs : \A u \in Pending(todo[q]) : Mentions(u, f) => q = p
      BY <3>1 DEF Inv, FreshInv
    <3> QED BY <2>1, <3>2
  <2>8. CountInv'
    BY <2>1 DEF Inv, CountInv
  <2> QED BY <2>2, <2>3, <2>4, <2>5, <2>6, <2>7, <2>8 DEF Inv
<1>2. ASSUME NEW p \in Procs, sys_open(p) \/ open_alloc(p) \/ sys_dup(p) \/ filedup(p) \/ sys_close(p) PROVE Inv'
  BY <1>2, OpenInv, OpenAllocInv, DupsInv, FiledupInv, CloseInv
<1>3. ASSUME NEW p \in Procs, fileclose(p) \/ iput(p) \/ pipeclose(p) \/ sys_pipe(p) \/ pipealloc(p) PROVE Inv'
  BY <1>3, FilecloseInv, IputInv, PipecloseInv, PipeInv, PipeallocInv
<1>4. ASSUME NEW p \in Procs, pipe_page(p) \/ fork(p) \/ fork_dup(p) \/ exit(p) \/ exit_close(p) PROVE Inv'
  BY <1>4, PipePageInv, ForkStartInv, ForkDupInv, ExitInv, ExitCloseInv
<1> QED BY <1>1, <1>2, <1>3, <1>4 DEF Next

\* Counting steps by their operations is counting what the properties count.
LEMMA StepSets ==
  ASSUME Inv
  PROVE  /\ \A f : Held(f) = StepsIn(todo, HeldOps(f)) /\ Uncounted(f) = StepsIn(todo, UncountedOps(f))
         /\ {x \in Steps : Step(x).op \in {"open", "iput"}} = StepsIn(todo, InodeOps)
         /\ \A g, w : {x \in Steps : Step(x) = do("pipeclose", g, w)} = StepsIn(todo, CloseOps(g, w))
<1>1. \A x \in Steps : Step(x) \in Op
  <2> SUFFICES ASSUME NEW x \in Steps PROVE Step(x) \in Op
    OBVIOUS
  <2>1. x[1] \in Procs /\ x[2] \in DOMAIN todo[x[1]]
    BY DEF Steps
  <2>2. todo[x[1]] \in Seq(Op)
    BY <2>1 DEF Inv, TypeOK
  <2>3. ASSUME NEW s \in Seq(Op), NEW i \in DOMAIN s PROVE s[i] \in Op
    BY <2>3, SMTT(30), SMTT(60)
  <2> QED BY <2>1, <2>2, <2>3 DEF Step
<1>2. ASSUME NEW Q PROVE StepsIn(todo, Q) = {x \in Steps : Step(x) \in Q}
  BY DEF StepsIn, Steps, Step
<1>3. ASSUME NEW f PROVE Held(f) = StepsIn(todo, HeldOps(f)) /\ Uncounted(f) = StepsIn(todo, UncountedOps(f))
  <2>1. \A x \in Steps : Step(x) \in HeldOps(f) <=> 
           (Step(x).op \in {"fileclose", "pipe1", "pipe2"} /\ Step(x).x = f) \/ (Step(x).op = "pipe2" /\ Step(x).y = f)
    BY <1>1 DEF HeldOps
  <2>2. \A x \in Steps : Step(x) \in UncountedOps(f) <=> Step(x).op = "filedup" /\ Step(x).x = f
    BY <1>1 DEF UncountedOps
  <2>3. /\ StepsIn(todo, HeldOps(f)) = {x \in Steps : Step(x) \in HeldOps(f)}
        /\ StepsIn(todo, UncountedOps(f)) = {x \in Steps : Step(x) \in UncountedOps(f)}
    BY <1>2
  <2>4. Held(f) = {x \in Steps : Step(x) \in HeldOps(f)}
    BY <2>1 DEF Held
  <2>5. Uncounted(f) = {x \in Steps : Step(x) \in UncountedOps(f)}
    BY <2>2 DEF Uncounted
  <2> QED BY <2>3, <2>4, <2>5
<1>4. {x \in Steps : Step(x).op \in {"open", "iput"}} = StepsIn(todo, InodeOps)
  <2>1. \A x \in Steps : Step(x) \in InodeOps <=> Step(x).op \in {"open", "iput"}
    BY <1>1 DEF InodeOps
  <2>2. StepsIn(todo, InodeOps) = {x \in Steps : Step(x) \in InodeOps}
    BY <1>2
  <2> QED BY <2>1, <2>2
<1>5. ASSUME NEW g, NEW w PROVE {x \in Steps : Step(x) = do("pipeclose", g, w)} = StepsIn(todo, CloseOps(g, w))
  <2>1. ASSUME NEW o \in Op PROVE o = do("pipeclose", g, w) <=> o.op = "pipeclose" /\ o.x = g /\ o.y = w
    BY SMTT(30), SMTT(60) DEF do, Op
  <2>2. \A x \in Steps : Step(x) \in CloseOps(g, w) <=> Step(x) = do("pipeclose", g, w)
    BY <1>1, <2>1 DEF CloseOps
  <2>3. StepsIn(todo, CloseOps(g, w)) = {x \in Steps : Step(x) \in CloseOps(g, w)}
    BY <1>2
  <2> QED BY <2>2, <2>3
<1> QED BY <1>3, <1>4, <1>5

\* What the invariant says in the terms of the properties.
LEMMA InvCounts == ASSUME Inv PROVE RefsCounted /\ PipeEnds
<1>1. ASSUME NEW f \in Files PROVE ref[f] + Cardinality(Uncounted(f)) = Cardinality(Descriptors(f)) + Cardinality(Held(f))
  <2>1. Descriptors(f) = FdsOf(ofile, f)
    BY DEF Descriptors, FdsOf
  <2>2. Held(f) = StepsIn(todo, HeldOps(f)) /\ Uncounted(f) = StepsIn(todo, UncountedOps(f))
    BY StepSets
  <2> QED BY <2>1, <2>2 DEF Inv, CountInv, Tally
<1>2. \A f \in Files : type[f] # "none" => ref[f] > 0
  <2>1. ASSUME NEW f \in Files, type[f] # "none" PROVE ref[f] > 0
    <3>1. ref[f] \in Nat /\ ref[f] # 0
      BY <2>1 DEF Inv, TypeOK, FileInv
    <3> QED BY <3>1, SMTT(30), SMTT(60)
  <2> QED BY <2>1
<1>3. {f \in Files : ref[f] > 0 /\ type[f] = "inode"} = InodeFiles(type)
  BY <1>2 DEF InodeFiles
<1>4. \A g, w : {f \in Files : ref[f] > 0 /\ type[f] = "pipe" /\ page[f] = g /\ writable[f] = w} = PipeFiles(type, page, writable, g, w)
  BY <1>2 DEF PipeFiles
<1>5. RefsCounted
  <2>1. {x \in Steps : Step(x).op \in {"open", "iput"}} = StepsIn(todo, InodeOps)
    BY StepSets
  <2> QED BY <1>1, <1>3, <2>1 DEF RefsCounted, Inv, CountInv, Tally
<1>6. PipeEnds
  <2> SUFFICES ASSUME NEW g \in Pages, NEW w \in {0, 1}
               PROVE  Cardinality({f \in Files : ref[f] > 0 /\ type[f] = "pipe" /\ page[f] = g /\ writable[f] = w})
                      + Cardinality({x \in Steps : Step(x) = do("pipeclose", g, w)})
                      = IF (IF w = 1 THEN "w" ELSE "r") \in open[g] THEN 1 ELSE 0
    BY DEF PipeEnds
  <2>1. {x \in Steps : Step(x) = do("pipeclose", g, w)} = StepsIn(todo, CloseOps(g, w))
    BY StepSets
  <2>2. Cardinality(PipeFiles(type, page, writable, g, w)) + Cardinality(StepsIn(todo, CloseOps(g, w))) = Opened(open, g, w)
    BY DEF Inv, CountInv, Tally
  <2> QED BY <1>4, <2>1, <2>2 DEF Opened, End
<1> QED BY <1>5, <1>6

\* ftable counts exactly the references to each open file, and the references
\* to the inode are those of open files and of calls in progress, for any
\* number of processes, files, descriptors and pages; filedup() and
\* fileclose() never meet their panics.
THEOREM ReferencesExact == Spec => []RefsCounted
<1>1. Init => Inv
  BY InitInv
<1>2. Inv /\ [Next]_vars => Inv'
  BY NextInv
<1>3. Inv => RefsCounted
  BY InvCounts
<1> QED BY <1>1, <1>2, <1>3, PTL DEF Spec

\* An end of a pipe is open as long as one file stands for it or its
\* pipeclose() is pending, so pipeclose() gives a page back once, and no open
\* file points to a page that was given back.
THEOREM PipesClosedOnce == Spec => []PipeEnds
<1>1. Init => Inv
  BY InitInv
<1>2. Inv /\ [Next]_vars => Inv'
  BY NextInv
<1>3. Inv => PipeEnds
  BY InvCounts
<1> QED BY <1>1, <1>2, <1>3, PTL DEF Spec
==============================================================================
