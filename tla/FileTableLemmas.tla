--------------------------- MODULE FileTableLemmas ---------------------------
(***************************************************************************)
(* The inductive invariant of FileTable, the lemmas about counting that    *)
(* its proof rests on, and the steps that begin a call or close a file.    *)
(*                                                                         *)
(* The counting rests on what a system call has left to do, todo[p]: its   *)
(* steps are counted by the sets of operations they belong to, and every   *)
(* action replaces the steps of one process and nobody else's.             *)
(***************************************************************************)
EXTENDS FileTable, FiniteSetTheorems, TLAPS

USE ZenonT(60)

\* What a process has left to do, as a set.
Pending(s) == {s[i] : i \in DOMAIN s}

\* The operations that hold a reference to f, that have yet to count one, and
\* that refer to f at all.
HeldOps(f) == {o \in Op : \/ o.op \in {"fileclose", "pipe1", "pipe2"} /\ o.x = f
                          \/ o.op = "pipe2" /\ o.y = f}
UncountedOps(f) == {o \in Op : o.op = "filedup" /\ o.x = f}
InodeOps == {o \in Op : o.op \in {"open", "iput"}}
CloseOps(g, w) == {o \in Op : o.op = "pipeclose" /\ o.x = g /\ o.y = w}
Mentions(o, f) == o \in HeldOps(f) \cup UncountedOps(f)

\* How many steps of the system calls t are among the operations Q.
StepsIn(t, Q) == {x \in Procs \X (1 .. 2) : x[2] \in DOMAIN t[x[1]] /\ t[x[1]][x[2]] \in Q}
Tally(t, Q) == Cardinality(StepsIn(t, Q))

OpOK(o) ==
    /\ o.op \in {"fileclose", "filedup", "pipe1", "pipe2"} => o.x \in Files
    /\ o.op = "pipe2" => o.y \in Files /\ o.x # o.y
    /\ o.op = "pipeclose" => o.x \in Pages /\ o.y \in {0, 1}
    /\ o.op = "fork" => o.x \in Procs
    /\ o.op \in {"fork", "exit"} => o.y \in Fds

\* The arguments are what the operations expect.  Only the closing of files
\* is followed by something, and a process that exits does nothing else.
TodoInv ==
    \A p \in Procs :
        /\ \A o \in Pending(todo[p]) : OpOK(o)
        /\ Len(todo[p]) = 2 => /\ todo[p][1].op \in {"fileclose", "iput", "pipeclose"}
                               /\ todo[p][2].op \in {"fileclose", "iput", "exit"}
        /\ p \in live => \A o \in Pending(todo[p]) : o.op # "exit"
        /\ p \notin live => \A o \in Pending(todo[p]) : o.op \in {"fileclose", "iput", "pipeclose", "exit"}

\* A child that fork() fills has one parent and does not run; it has the
\* descriptors copied so far.
ForkInv ==
    \A p \in Procs : \A o \in Pending(todo[p]) : o.op = "fork" =>
        /\ o.x \notin live /\ todo[o.x] = <<>>
        /\ \A q \in Procs : \A u \in Pending(todo[q]) : u.op = "fork" /\ u.x = o.x => q = p
        /\ \A fd \in Fds : ofile[o.x][fd] # NoFile => fd < o.y

\* A process that does not exist has descriptors only while fork() fills it or
\* exit() has not come to them.
DeadInv ==
    \A p \in Procs \ live : \A fd \in Fds : ofile[p][fd] # NoFile =>
        \/ \E q \in Procs : \E o \in Pending(todo[q]) : o.op = "fork" /\ o.x = p
        \/ \E o \in Pending(todo[p]) : o.op = "exit" /\ fd >= o.y

\* Between sys_dup()'s fdalloc() and filedup() the process has two descriptors
\* of the file.
DupInv ==
    \A p \in Procs : \A o \in Pending(todo[p]) : o.op = "filedup" =>
        \E fd, fe \in Fds : fd # fe /\ ofile[p][fd] = o.x /\ ofile[p][fe] = o.x

\* A free file has no type, a pipe's file has its page.
FileInv ==
    \A f \in Files : (ref[f] = 0 => type[f] = "none") /\ (type[f] = "pipe" => page[f] \in Pages)

\* The files that pipealloc() has just allocated are its own.
FreshInv ==
    \A p \in Procs : \A o \in Pending(todo[p]) : \A f \in Files :
        o.op \in {"pipe1", "pipe2"} /\ Mentions(o, f) =>
            /\ ref[f] = 1 /\ type[f] = "none"
            /\ \A q \in Procs : \A fd \in Fds : ofile[q][fd] # f
            /\ \A q \in Procs : \A u \in Pending(todo[q]) : Mentions(u, f) => q = p

\* The counts, with the steps counted by their operations.
FdsOf(o, f) == {x \in Procs \X Fds : o[x[1]][x[2]] = f}
InodeFiles(ty) == {f \in Files : ty[f] = "inode"}
PipeFiles(ty, pg, wr, g, w) == {f \in Files : ty[f] = "pipe" /\ pg[f] = g /\ wr[f] = w}
End(w) == IF w = 1 THEN "w" ELSE "r"
Opened(op, g, w) == IF End(w) \in op[g] THEN 1 ELSE 0
CountInv ==
    /\ \A f \in Files : ref[f] + Tally(todo, UncountedOps(f)) = Cardinality(FdsOf(ofile, f)) + Tally(todo, HeldOps(f))
    /\ iref = Cardinality(InodeFiles(type)) + Tally(todo, InodeOps)
    /\ \A g \in Pages : \A w \in {0, 1} :
          Cardinality(PipeFiles(type, page, writable, g, w)) + Tally(todo, CloseOps(g, w)) = Opened(open, g, w)

Inv == /\ TypeOK /\ panicked = 0
       /\ TodoInv /\ ForkInv /\ DeadInv /\ DupInv /\ FileInv /\ FreshInv /\ CountInv
------------------------------------------------------------------------------
(***************************************************************************)
(* Counting the steps of the system calls                                  *)
(***************************************************************************)
\* Sequences with the same members are equal.
LEMMA SameSeq ==
  ASSUME NEW S, NEW s \in Seq(S), NEW t \in Seq(S), Len(s) = Len(t), \A i \in 1 .. Len(s) : s[i] = t[i]
  PROVE  s = t
  BY SMTT(30)

\* What is pending in a short sequence.
LEMMA PendingOf ==
  ASSUME NEW a, NEW b
  PROVE  /\ Pending(<<>>) = {} /\ Pending(<<a>>) = {a} /\ Pending(<<a, b>>) = {a, b}
<1>1. Pending(<<>>) = {}
  BY SMTT(30) DEF Pending
<1>2. DOMAIN <<a>> = {1} /\ <<a>>[1] = a
  BY SMTT(30)
<1>3. DOMAIN <<a, b>> = {1, 2} /\ <<a, b>>[1] = a /\ <<a, b>>[2] = b
  BY SMTT(30)
<1>4. Pending(<<a>>) = {a}
  BY <1>2 DEF Pending
<1>5. Pending(<<a, b>>) = {a, b}
  BY <1>3 DEF Pending
<1> QED BY <1>1, <1>4, <1>5

\* A sequence of one or two operations.
LEMMA Shape ==
  ASSUME NEW S, NEW s \in Seq(S), Len(s) <= 2, s # <<>>
  PROVE  /\ Head(s) \in S /\ Tail(s) \in Seq(S) /\ Len(Tail(s)) <= 1 /\ Len(Tail(s)) \in Nat
         /\ \/ Len(s) = 1 /\ s = <<Head(s)>> /\ Tail(s) = <<>>
            \/ Len(s) = 2 /\ s = <<Head(s), s[2]>> /\ Tail(s) = <<s[2]>> /\ s[2] \in S /\ Head(s) = s[1]
<1>1. /\ Head(s) \in S /\ Tail(s) \in Seq(S) /\ Len(Tail(s)) = Len(s) - 1
      /\ \A i \in 1 .. Len(Tail(s)) : Tail(s)[i] = s[i + 1]
  BY SMTT(30)
<1>2. Len(s) \in Nat \ {0}
  BY SMTT(30)
<1>3. Len(s) = 1 \/ Len(s) = 2
  <2>1. \A n \in Nat \ {0} : n <= 2 => n = 1 \/ n = 2
    BY SMTT(30)
  <2> QED BY <1>2, <2>1
<1>4. Head(s) = s[1]
  BY SMTT(30)
<1>5. CASE Len(s) = 1
  <2>1. <<Head(s)>> \in Seq(S) /\ Len(<<Head(s)>>) = 1 /\ <<Head(s)>>[1] = Head(s)
    BY <1>1, SMTT(30)
  <2>2. \A i \in 1 .. Len(s) : i = 1
    BY <1>5, SMTT(30)
  <2>3. s = <<Head(s)>>
    BY <1>4, <1>5, <2>1, <2>2, SameSeq
  <2>4. Len(Tail(s)) = 0 /\ 0 <= 1 /\ 0 \in Nat /\ 0 \notin Nat \ {0}
    BY <1>1, <1>5, SMTT(30)
  <2>5. Tail(s) = <<>>
    <3>1. \A t \in Seq(S) : Len(t) = 0 => t = <<>>
      BY SMTT(30)
    <3> QED BY <1>1, <2>4, <3>1
  <2> QED BY <1>1, <1>5, <2>3, <2>4, <2>5
<1>6. CASE Len(s) = 2
  <2>1. s[2] \in S
    <3>1. 2 \in 1 .. Len(s)
      BY <1>6, SMTT(30)
    <3> QED BY <3>1, SMTT(30)
  <2>2. /\ <<Head(s), s[2]>> \in Seq(S) /\ Len(<<Head(s), s[2]>>) = 2
        /\ <<Head(s), s[2]>>[1] = Head(s) /\ <<Head(s), s[2]>>[2] = s[2]
    BY <1>1, <2>1, SMTT(30)
  <2>3. \A i \in 1 .. Len(s) : i = 1 \/ i = 2
    BY <1>6, SMTT(30)
  <2>4. s = <<Head(s), s[2]>>
    BY <1>4, <1>6, <2>2, <2>3, SameSeq
  <2>5. Len(Tail(s)) = 1 /\ 1 <= 1 /\ 1 \in Nat /\ 1 + 1 = 2 /\ \A i \in 1 .. Len(Tail(s)) : i = 1
    <3>1. 2 - 1 = 1 /\ 1 <= 1 /\ 1 \in Nat /\ 1 + 1 = 2 /\ \A i \in 1 .. 1 : i = 1
      BY SMTT(30)
    <3> QED BY <1>1, <1>6, <3>1
  <2>6. <<s[2]>> \in Seq(S) /\ Len(<<s[2]>>) = 1 /\ <<s[2]>>[1] = s[2]
    BY <2>1, SMTT(30)
  <2>7. \A i \in 1 .. Len(Tail(s)) : Tail(s)[i] = <<s[2]>>[i]
    BY <1>1, <2>5, <2>6
  <2>8. Tail(s) = <<s[2]>>
    BY <1>1, <2>5, <2>6, <2>7, SameSeq
  <2> QED BY <1>1, <1>4, <1>6, <2>1, <2>4, <2>5, <2>8
<1> QED BY <1>3, <1>5, <1>6

\* The members of Q in a short sequence.
One(o, Q) == IF o \in Q THEN 1 ELSE 0
At(s, Q) == {i \in DOMAIN s : s[i] \in Q}
\* A sequence of at most two steps has as many in Q as it has members in it.
LEMMA AtShort ==
  ASSUME NEW Q, NEW a, NEW b
  PROVE  /\ IsFiniteSet(At(<<>>, Q)) /\ Cardinality(At(<<>>, Q)) = 0
         /\ IsFiniteSet(At(<<a>>, Q)) /\ Cardinality(At(<<a>>, Q)) = One(a, Q)
         /\ IsFiniteSet(At(<<a, b>>, Q)) /\ Cardinality(At(<<a, b>>, Q)) = One(a, Q) + One(b, Q)
<1>1. At(<<>>, Q) = {}
  BY SMTT(30) DEF At
<1>2. DOMAIN <<a>> = {1} /\ <<a>>[1] = a
  BY SMTT(30)
<1>3. DOMAIN <<a, b>> = {1, 2} /\ <<a, b>>[1] = a /\ <<a, b>>[2] = b /\ 1 # 2
  BY SMTT(30)
<1>4. At(<<a>>, Q) = IF a \in Q THEN {1} ELSE {}
  BY <1>2 DEF At
<1>5. At(<<a, b>>, Q) = IF a \in Q THEN IF b \in Q THEN {1, 2} ELSE {1} ELSE IF b \in Q THEN {2} ELSE {}
  BY <1>3 DEF At
<1>6. /\ IsFiniteSet({}) /\ Cardinality({}) = 0
      /\ IsFiniteSet({1}) /\ Cardinality({1}) = 1 /\ IsFiniteSet({2}) /\ Cardinality({2}) = 1
  BY FS_EmptySet, FS_Singleton
<1>7. IsFiniteSet({1, 2}) /\ Cardinality({1, 2}) = 1 + 1
  <2>1. {1, 2} = {1} \cup {2} /\ 2 \notin {1}
    BY <1>3
  <2>2. IsFiniteSet({1} \cup {2}) /\ Cardinality({1} \cup {2}) = Cardinality({1}) + 1
    BY <1>6, <2>1, FS_AddElement
  <2> QED BY <1>6, <2>1, <2>2
<1>8. 0 = 0 + 0 /\ 1 = 1 + 0 /\ 1 = 0 + 1
  BY SMTT(30)
<1>9. IsFiniteSet(At(<<a, b>>, Q)) /\ Cardinality(At(<<a, b>>, Q)) = One(a, Q) + One(b, Q)
  <2>1. CASE a \in Q /\ b \in Q
    BY <1>5, <1>7, <2>1 DEF One
  <2>2. CASE a \in Q /\ b \notin Q
    BY <1>5, <1>6, <1>8, <2>2 DEF One
  <2>3. CASE a \notin Q /\ b \in Q
    BY <1>5, <1>6, <1>8, <2>3 DEF One
  <2>4. CASE a \notin Q /\ b \notin Q
    BY <1>5, <1>6, <1>8, <2>4 DEF One
  <2> QED BY <2>1, <2>2, <2>3, <2>4
<1> QED BY <1>1, <1>4, <1>6, <1>9 DEF One

\* The system calls of the processes: short sequences of operations.
Calls == {t \in [Procs -> Seq(Op)] : \A p \in Procs : Len(t[p]) <= 2}

\* The members of Q among the steps of one process.
LEMMA AtFinite ==
  ASSUME NEW Q, NEW s \in Seq(Op), Len(s) <= 2
  PROVE  IsFiniteSet(At(s, Q)) /\ Cardinality(At(s, Q)) \in Nat /\ At(s, Q) \subseteq 1 .. 2
<1>1. ASSUME s = <<>> PROVE IsFiniteSet(At(s, Q))
  BY <1>1, AtShort
<1>2. ASSUME s # <<>> PROVE IsFiniteSet(At(s, Q))
  <2>1. s = <<Head(s)>> \/ s = <<Head(s), s[2]>>
    BY <1>2, Shape
  <2> QED BY <2>1, AtShort
<1>3. DOMAIN s = 1 .. Len(s) /\ Len(s) \in Nat
  BY SMTT(30)
<1>4. 1 .. Len(s) \subseteq 1 .. 2
  BY <1>3, SMTT(30)
<1>5. At(s, Q) \subseteq 1 .. 2
  BY <1>3, <1>4 DEF At
<1> QED BY <1>1, <1>2, <1>5, FS_CardinalityType

\* One process replaces its steps: they are no longer counted, the new ones
\* are, and the steps of the others are counted as before.
LEMMA Replace ==
  ASSUME NEW Q, NEW t \in Calls, NEW p \in Procs, NEW s \in Seq(Op), Len(s) <= 2
  PROVE  /\ Tally(t, Q) \in Nat /\ Tally([t EXCEPT ![p] = s], Q) \in Nat
         /\ Tally([t EXCEPT ![p] = s], Q) = Tally(t, Q) - Cardinality(At(t[p], Q)) + Cardinality(At(s, Q))
<1> DEFINE u == [t EXCEPT ![p] = s]
           R == {x \in StepsIn(t, Q) : x[1] # p}
<1>1. /\ t \in [Procs -> Seq(Op)] /\ t[p] \in Seq(Op) /\ Len(t[p]) <= 2
      /\ u[p] = s /\ \A q \in Procs : q # p => u[q] = t[q]
  BY DEF Calls
<1>2. /\ IsFiniteSet(At(t[p], Q)) /\ Cardinality(At(t[p], Q)) \in Nat /\ At(t[p], Q) \subseteq 1 .. 2
      /\ IsFiniteSet(At(s, Q)) /\ Cardinality(At(s, Q)) \in Nat /\ At(s, Q) \subseteq 1 .. 2
  BY <1>1, AtFinite
<1>3. IsFiniteSet(Procs \X (1 .. 2))
  <2>1. 1 \in Int /\ 2 \in Int
    BY SMTT(30)
  <2>2. IsFiniteSet(1 .. 2)
    BY <2>1, FS_Interval
  <2> QED BY <2>2, FS_Product, FileAssumption
<1>4. IsFiniteSet(R)
  <2>1. R \in SUBSET (Procs \X (1 .. 2))
    BY DEF StepsIn
  <2> QED BY <1>3, <2>1, FS_Subset
<1>5. ASSUME NEW v \in [Procs -> Seq(Op)], At(v[p], Q) \subseteq 1 .. 2, IsFiniteSet(At(v[p], Q)),
             \A q \in Procs : q # p => v[q] = t[q]
      PROVE  Tally(v, Q) = Cardinality(R) + Cardinality(At(v[p], Q)) /\ Tally(v, Q) \in Nat
  <2> DEFINE P == {p} \X At(v[p], Q)
  <2>1. StepsIn(v, Q) = R \cup P
    <3>1. ASSUME NEW q \in Procs, NEW i \in 1 .. 2 PROVE <<q, i>> \in StepsIn(v, Q) <=> <<q, i>> \in R \cup P
      <4>1. <<q, i>>[1] = q /\ <<q, i>>[2] = i
        BY SMTT(30)
      <4>2. <<q, i>> \in StepsIn(v, Q) <=> i \in DOMAIN v[q] /\ v[q][i] \in Q
        BY <4>1 DEF StepsIn
      <4>3. <<q, i>> \in R <=> i \in DOMAIN t[q] /\ t[q][i] \in Q /\ q # p
        BY <4>1 DEF StepsIn
      <4>4. <<q, i>> \in P <=> q = p /\ i \in At(v[p], Q)
        BY SMTT(30)
      <4>5. CASE q = p
        BY <4>2, <4>3, <4>4, <4>5 DEF At
      <4>6. CASE q # p
        BY <1>5, <4>2, <4>3, <4>4, <4>6
      <4> QED BY <4>5, <4>6
    <3>2. StepsIn(v, Q) \subseteq Procs \X (1 .. 2) /\ R \subseteq Procs \X (1 .. 2)
      BY DEF StepsIn
    <3>3. P \subseteq Procs \X (1 .. 2)
      BY <1>5, SMTT(30)
    <3>4. \A x \in Procs \X (1 .. 2) : \E q \in Procs, i \in 1 .. 2 : x = <<q, i>>
      BY SMTT(30)
    <3> HIDE DEF R, P
    <3>5. ASSUME NEW x \in Procs \X (1 .. 2) PROVE x \in StepsIn(v, Q) <=> x \in R \cup P
      <4>1. PICK q \in Procs, i \in 1 .. 2 : x = <<q, i>>
        BY <3>4
      <4> QED BY <3>1, <4>1
    <3> QED BY <3>2, <3>3, <3>5
  <2>2. R \cap P = {}
    <3>1. \A x \in P : x[1] = p
      BY SMTT(30)
    <3> HIDE DEF P
    <3> QED BY <3>1
  <2>3. IsFiniteSet(P) /\ Cardinality(P) = 1 * Cardinality(At(v[p], Q)) /\ Cardinality(At(v[p], Q)) \in Nat
    <3>1. IsFiniteSet({p}) /\ Cardinality({p}) = 1
      BY FS_Singleton
    <3> QED BY <1>5, <3>1, FS_Product, FS_CardinalityType
  <2>4. Cardinality(R) \in Nat
    BY <1>4, FS_CardinalityType
  <2>5. Cardinality(R \cup P) = Cardinality(R) + Cardinality(P) - 0
    <3> HIDE DEF R, P
    <3>1. Cardinality(R \cup P) = Cardinality(R) + Cardinality(P) - Cardinality(R \cap P)
      BY <1>4, <2>3, FS_Union
    <3> QED BY <2>2, <3>1, FS_EmptySet
  <2>6. Tally(v, Q) = Cardinality(R) + Cardinality(P) - 0
    <3> HIDE DEF R, P
    <3> QED BY <2>1, <2>5 DEF Tally
  <2> DEFINE m == Cardinality(P)
             n == Cardinality(R)
             k == Cardinality(At(v[p], Q))
  <2>7. Tally(v, Q) = n + m - 0 /\ m = 1 * k /\ n \in Nat /\ k \in Nat
    BY <2>3, <2>4, <2>6
  <2> HIDE DEF m, n, k, R, P
  <2>8. Tally(v, Q) = n + k /\ Tally(v, Q) \in Nat
    BY <2>7, SMTT(30)
  <2> QED BY <2>8 DEF n, k
<1>6. Tally(t, Q) = Cardinality(R) + Cardinality(At(t[p], Q)) /\ Tally(t, Q) \in Nat
  BY <1>1, <1>2, <1>5
<1>7. u \in [Procs -> Seq(Op)]
  BY <1>1
<1>8. Tally(u, Q) = Cardinality(R) + Cardinality(At(s, Q)) /\ Tally(u, Q) \in Nat
  <2> HIDE DEF u, R
  <2> QED BY <1>1, <1>2, <1>5, <1>7
<1> DEFINE n == Cardinality(R)
           a == Cardinality(At(t[p], Q))
           b == Cardinality(At(s, Q))
<1>9. Tally(t, Q) = n + a /\ Tally(u, Q) = n + b /\ n \in Nat /\ a \in Nat /\ b \in Nat
  BY <1>2, <1>4, <1>6, <1>8, FS_CardinalityType
<1> HIDE DEF n, a, b, u, R
<1>10. Tally(u, Q) = Tally(t, Q) - a + b
  BY <1>9, SMTT(30)
<1> QED BY <1>6, <1>8, <1>10 DEF a, b, u

\* One operation more.
Plus(o, S) == {o} \cup S

\* A step is done and the next one of the same call comes.
Popped(t, p) == [t EXCEPT ![p] = Tail(t[p])]
\* What is left after the step, and what it counted for,
LEMMA Pops ==
  ASSUME NEW t \in Calls, NEW p \in Procs, t[p] # <<>>
  PROVE  /\ Head(t[p]) \in Op /\ Popped(t, p) \in Calls
         /\ Len(Popped(t, p)[p]) <= 1 /\ Len(Popped(t, p)[p]) # 2 /\ Popped(t, p)[p] = Tail(t[p])
         /\ \A q \in Procs : q # p => Popped(t, p)[q] = t[q]
         /\ Pending(t[p]) = Plus(Head(t[p]), Pending(Popped(t, p)[p]))
         /\ \A Q : /\ Tally(t, Q) \in Nat /\ Tally(Popped(t, p), Q) \in Nat
                   /\ Tally(t, Q) = Tally(Popped(t, p), Q) + One(Head(t[p]), Q)
<1> DEFINE u == Popped(t, p)
           h == Head(t[p])
<1>1. t[p] \in Seq(Op) /\ Len(t[p]) <= 2
  BY DEF Calls
<1>2. /\ h \in Op /\ Tail(t[p]) \in Seq(Op) /\ Len(Tail(t[p])) <= 1 /\ Len(Tail(t[p])) \in Nat
      /\ \/ t[p] = <<h>> /\ Tail(t[p]) = <<>>
         \/ t[p] = <<h, t[p][2]>> /\ Tail(t[p]) = <<t[p][2]>>
  BY <1>1, Shape
<1>3. \A n \in Nat : n <= 1 => n <= 2 /\ n # 2
  BY SMTT(30)
<1>4. u[p] = Tail(t[p]) /\ (\A q \in Procs : q # p => u[q] = t[q]) /\ u \in Calls
  BY <1>2, <1>3 DEF Calls, Popped
<1>5. Pending(t[p]) = {h} \cup Pending(Tail(t[p]))
  <2>1. CASE t[p] = <<h>> /\ Tail(t[p]) = <<>>
    <3>1. Pending(<<h>>) = {h} /\ Pending(<<>>) = {}
      BY PendingOf
    <3> QED BY <2>1, <3>1
  <2>2. CASE t[p] = <<h, t[p][2]>> /\ Tail(t[p]) = <<t[p][2]>>
    <3>1. Pending(<<h, t[p][2]>>) = {h, t[p][2]} /\ Pending(<<t[p][2]>>) = {t[p][2]}
      BY PendingOf
    <3> QED BY <2>2, <3>1
  <2> QED BY <1>2, <2>1, <2>2
<1>6. ASSUME NEW Q PROVE Tally(t, Q) \in Nat /\ Tally(u, Q) \in Nat /\ Tally(t, Q) = Tally(u, Q) + One(h, Q)
  <2> DEFINE a == Cardinality(At(t[p], Q))
             b == Cardinality(At(Tail(t[p]), Q))
             m == Tally(t, Q)
             n == Tally(u, Q)
             k == One(h, Q)
  <2>1. m \in Nat /\ n \in Nat /\ n = m - a + b
    BY <1>2, <1>3, Replace DEF Popped
  <2>2. a = k + b
    <3>1. CASE t[p] = <<h>> /\ Tail(t[p]) = <<>>
      <4>1. k = k + 0
        <5>1. k \in {0, 1}
          BY DEF One
        <5> HIDE DEF k
        <5> QED BY <5>1, SMTT(30)
      <4>2. Cardinality(At(<<h>>, Q)) = k /\ Cardinality(At(<<>>, Q)) = 0
        BY AtShort
      <4> QED BY <3>1, <4>1, <4>2
    <3>2. CASE t[p] = <<h, t[p][2]>> /\ Tail(t[p]) = <<t[p][2]>>
      <4>1. Cardinality(At(<<h, t[p][2]>>, Q)) = k + One(t[p][2], Q) /\ Cardinality(At(<<t[p][2]>>, Q)) = One(t[p][2], Q)
        BY AtShort
      <4> QED BY <3>2, <4>1
    <3> QED BY <1>2, <3>1, <3>2
  <2>3. k \in {0, 1} /\ b \in Nat
    BY <1>2, <1>3, AtFinite DEF One
  <2>4. m = n + k
    <3> HIDE DEF a, b, m, n, k, u
    <3> QED BY <2>1, <2>2, <2>3, SMTT(30)
  <2> QED BY <2>1, <2>4
<1> QED BY <1>2, <1>3, <1>4, <1>5, <1>6 DEF Plus

\* for a given set of operations.
LEMMA PopTally ==
  ASSUME NEW Q, NEW t \in Calls, NEW p \in Procs, t[p] # <<>>
  PROVE  /\ Tally(t, Q) \in Nat /\ Tally(Popped(t, p), Q) \in Nat
         /\ Tally(t, Q) = Tally(Popped(t, p), Q) + One(Head(t[p]), Q)
  BY Pops

\* A step is put before what the call has left to do.
Pushed(t, p, c) == [t EXCEPT ![p] = <<c>> \o t[p]]
\* What the longer call has pending and counts for,
LEMMA Pushes ==
  ASSUME NEW t \in Calls, NEW p \in Procs, Len(t[p]) <= 1, NEW c \in Op
  PROVE  /\ Pushed(t, p, c) \in Calls /\ Pushed(t, p, c)[p] = <<c>> \o t[p]
         /\ \A q \in Procs : q # p => Pushed(t, p, c)[q] = t[q]
         /\ Pending(Pushed(t, p, c)[p]) = Plus(c, Pending(t[p]))
         /\ Pushed(t, p, c)[p][1] = c
         /\ Len(Pushed(t, p, c)[p]) = 2 => Pushed(t, p, c)[p][2] \in Pending(t[p])
         /\ \A Q : /\ Tally(t, Q) \in Nat /\ Tally(Pushed(t, p, c), Q) \in Nat
                   /\ Tally(Pushed(t, p, c), Q) = Tally(t, Q) + One(c, Q)
<1> DEFINE u == Pushed(t, p, c)
<1> DEFINE s == <<c>> \o t[p]
<1>1. t \in [Procs -> Seq(Op)] /\ t[p] \in Seq(Op)
  BY DEF Calls
<1>2. <<c>> \in Seq(Op) /\ Len(<<c>>) = 1 /\ <<c>>[1] = c
  BY SMTT(30)
<1>3. Len(t[p]) \in Nat
  BY <1>1, SMTT(30)
<1>4. /\ s \in Seq(Op) /\ Len(s) = 1 + Len(t[p])
      /\ \A i \in 1 .. 1 + Len(t[p]) : s[i] = IF i <= 1 THEN <<c>>[i] ELSE t[p][i - 1]
  BY <1>1, <1>2, SMTT(30)
<1>5. Len(s) <= 2 /\ Len(s) # 0 /\ 1 \in 1 .. 1 + Len(t[p]) /\ 1 <= 1
  <2> HIDE DEF s, u
  <2> QED BY <1>3, <1>4, SMTT(30)
<1>6. s[1] = c /\ s # <<>>
  <2>1. Len(<<>>) = 0
    BY SMTT(30)
  <2> HIDE DEF s, u
  <2> QED BY <1>2, <1>4, <1>5, <2>1
<1>7. Head(s) = c
  <2>1. Head(s) = s[1]
    <3> HIDE DEF s, u
    <3> QED BY <1>4, <1>6, SMTT(30)
  <2> QED BY <1>6, <2>1
<1>8. Tail(s) = t[p]
  <2> HIDE DEF s, u
  <2>1. /\ Tail(s) \in Seq(Op) /\ Len(Tail(s)) = Len(s) - 1
        /\ \A i \in 1 .. Len(Tail(s)) : Tail(s)[i] = s[i + 1]
    BY <1>4, <1>6, SMTT(30)
  <2>2. Len(Tail(s)) = Len(t[p])
    BY <1>3, <1>4, <2>1, SMTT(30)
  <2>3. \A i \in 1 .. Len(t[p]) : i + 1 \in 1 .. 1 + Len(t[p]) /\ ~(i + 1 <= 1) /\ (i + 1) - 1 = i
    BY <1>3, SMTT(30)
  <2>4. ASSUME NEW i \in 1 .. Len(Tail(s)) PROVE Tail(s)[i] = t[p][i]
    <3>1. i \in 1 .. Len(t[p]) /\ Tail(s)[i] = s[i + 1]
      BY <2>1, <2>2
    <3>2. s[i + 1] = t[p][(i + 1) - 1] /\ (i + 1) - 1 = i
      BY <1>4, <2>3, <3>1
    <3> QED BY <3>1, <3>2
  <2> QED BY <1>1, <2>1, <2>2, <2>4, SameSeq
<1>9. u \in Calls /\ u[p] = s /\ \A q \in Procs : q # p => u[q] = t[q]
  <2>1. u = [t EXCEPT ![p] = s]
    BY DEF Pushed
  <2> HIDE DEF s, u
  <2> QED BY <1>1, <1>4, <1>5, <2>1 DEF Calls
<1>10. Popped(u, p) = t
  <2> HIDE DEF s, u
  <2>1. u \in [Procs -> Seq(Op)]
    BY <1>9 DEF Calls
  <2>2. Tail(u[p]) = t[p]
    BY <1>8, <1>9
  <2> QED BY <1>1, <1>9, <2>1, <2>2 DEF Popped
<1>11. /\ Pending(u[p]) = Plus(c, Pending(t[p]))
       /\ \A Q : Tally(u, Q) \in Nat /\ Tally(t, Q) \in Nat /\ Tally(u, Q) = Tally(t, Q) + One(c, Q)
  <2> HIDE DEF s, u
  <2>1. u[p] # <<>> /\ Head(u[p]) = c /\ u \in Calls
    BY <1>6, <1>7, <1>9
  <2>2. Pending(u[p]) = Plus(Head(u[p]), Pending(Popped(u, p)[p]))
    BY <2>1, Pops
  <2>3. \A Q : /\ Tally(u, Q) \in Nat /\ Tally(Popped(u, p), Q) \in Nat
               /\ Tally(u, Q) = Tally(Popped(u, p), Q) + One(Head(u[p]), Q)
    BY <2>1, Pops
  <2> QED BY <1>10, <2>1, <2>2, <2>3
<1>12. Len(s) = 2 => s[2] \in Pending(t[p])
  <2> HIDE DEF s
  <2> SUFFICES ASSUME Len(s) = 2 PROVE s[2] \in Pending(t[p])
    OBVIOUS
  <2>1. Len(t[p]) = 1
    <3>1. \A n \in Nat : 1 + n = 2 => n = 1
      BY SMTT(30)
    <3> QED BY <1>3, <1>4, <3>1
  <2>2. 2 \in 1 .. 1 + 1 /\ ~(2 <= 1) /\ 2 - 1 = 1 /\ 1 \in 1 .. 1
    BY SMTT(30)
  <2>3. s[2] = t[p][1]
    <3>1. 2 \in 1 .. 1 + Len(t[p])
      BY <2>1, <2>2
    <3>2. s[2] = IF 2 <= 1 THEN <<c>>[2] ELSE t[p][2 - 1]
      BY <1>4, <3>1
    <3> QED BY <2>2, <3>2
  <2>4. DOMAIN t[p] = 1 .. Len(t[p])
    BY <1>1, SMTT(30)
  <2> QED BY <2>1, <2>2, <2>3, <2>4 DEF Pending
<1>13. u[p] = <<c>> \o t[p]
  BY <1>9
<1>14. u[p][1] = c /\ (Len(u[p]) = 2 => u[p][2] \in Pending(t[p]))
  <2> HIDE DEF s, u
  <2> QED BY <1>6, <1>9, <1>12
<1> QED BY <1>9, <1>11, <1>13, <1>14

\* for a given set of operations.
LEMMA PushTally ==
  ASSUME NEW Q, NEW t \in Calls, NEW p \in Procs, Len(t[p]) <= 1, NEW c \in Op
  PROVE  /\ Tally(t, Q) \in Nat /\ Tally(Pushed(t, p, c), Q) \in Nat
         /\ Tally(Pushed(t, p, c), Q) = Tally(t, Q) + One(c, Q)
<1>1. \A R : /\ Tally(t, R) \in Nat /\ Tally(Pushed(t, p, c), R) \in Nat
             /\ Tally(Pushed(t, p, c), R) = Tally(t, R) + One(c, R)
  BY Pushes
<1> QED BY <1>1

\* A step is done and followed by another, before the rest of the call.
Swapped(t, p, c) == Pushed(Popped(t, p), p, c)
\* This is what fileclose() does when another step follows the close.
LEMMA SwapForm ==
  ASSUME NEW t \in Calls, NEW p \in Procs, t[p] # <<>>, NEW c
  PROVE  [t EXCEPT ![p] = <<c>> \o Tail(t[p])] = Swapped(t, p, c)
<1> DEFINE v == Popped(t, p)
           u == Swapped(t, p, c)
<1>1. v[p] = Tail(t[p])
  BY Pops
<1>2. u = [v EXCEPT ![p] = <<c>> \o Tail(t[p])]
  BY <1>1 DEF Swapped, Pushed
<1> HIDE DEF u
<1>3. u = [t EXCEPT ![p] = <<c>> \o Tail(t[p])]
  BY <1>2 DEF Popped, Calls
<1> QED BY <1>3 DEF u

\* The head is replaced and the rest of the call stays,
LEMMA Swaps ==
  ASSUME NEW t \in Calls, NEW p \in Procs, t[p] # <<>>, NEW c \in Op
  PROVE  /\ Head(t[p]) \in Op /\ Swapped(t, p, c) \in Calls
         /\ \A q \in Procs : q # p => Swapped(t, p, c)[q] = t[q]
         /\ Pending(t[p]) = Plus(Head(t[p]), Pending(Tail(t[p])))
         /\ Pending(Swapped(t, p, c)[p]) = Plus(c, Pending(Tail(t[p])))
         /\ Swapped(t, p, c)[p][1] = c
         /\ Len(Swapped(t, p, c)[p]) = 2 => Swapped(t, p, c)[p][2] \in Pending(Tail(t[p]))
<1> DEFINE v == Popped(t, p)
           u == Swapped(t, p, c)
           h == Head(t[p])
<1>1. /\ h \in Op /\ v \in Calls /\ Len(v[p]) <= 1 /\ v[p] = Tail(t[p]) /\ \A q \in Procs : q # p => v[q] = t[q]
      /\ Pending(t[p]) = Plus(h, Pending(v[p]))
  BY Pops
<1>2. u = Pushed(v, p, c)
  BY DEF Swapped
<1> HIDE DEF v, u, h
<1>3. Pushed(v, p, c) \in Calls /\ \A q \in Procs : q # p => Pushed(v, p, c)[q] = v[q]
  BY <1>1, Pushes
<1>4. Pending(Pushed(v, p, c)[p]) = Plus(c, Pending(v[p]))
  BY <1>1, Pushes
<1>5. Pushed(v, p, c)[p][1] = c
  BY <1>1, Pushes
<1>6. Len(Pushed(v, p, c)[p]) = 2 => Pushed(v, p, c)[p][2] \in Pending(v[p])
  BY <1>1, Pushes
<1>7. u \in Calls /\ \A q \in Procs : q # p => u[q] = t[q]
  BY <1>1, <1>2, <1>3
<1>8. /\ Pending(t[p]) = Plus(h, Pending(Tail(t[p]))) /\ Pending(u[p]) = Plus(c, Pending(Tail(t[p])))
      /\ u[p][1] = c /\ (Len(u[p]) = 2 => u[p][2] \in Pending(Tail(t[p])))
  BY <1>1, <1>2, <1>4, <1>5, <1>6
<1> QED BY <1>1, <1>7, <1>8 DEF u, h

\* so the count changes by the two operations alone.
LEMMA SwapTally ==
  ASSUME NEW Q, NEW t \in Calls, NEW p \in Procs, t[p] # <<>>, NEW c \in Op
  PROVE  /\ Tally(t, Q) \in Nat /\ Tally(Swapped(t, p, c), Q) \in Nat
         /\ Tally(Swapped(t, p, c), Q) + One(Head(t[p]), Q) = Tally(t, Q) + One(c, Q)
<1> DEFINE v == Popped(t, p)
<1>1. v \in Calls /\ Len(v[p]) <= 1
  BY Pops
<1>2. Tally(t, Q) \in Nat /\ Tally(v, Q) \in Nat /\ Tally(t, Q) = Tally(v, Q) + One(Head(t[p]), Q)
  BY PopTally
<1> HIDE DEF v
<1>3. Tally(Pushed(v, p, c), Q) \in Nat /\ Tally(Pushed(v, p, c), Q) = Tally(v, Q) + One(c, Q)
  BY <1>1, PushTally
<1>4. One(c, Q) \in Nat /\ One(Head(t[p]), Q) \in Nat
  <2>1. 0 \in Nat /\ 1 \in Nat
    BY SMTT(30)
  <2> QED BY <2>1 DEF One
<1>5. Tally(Pushed(v, p, c), Q) + One(Head(t[p]), Q) = Tally(t, Q) + One(c, Q)
  BY <1>2, <1>3, <1>4, SMTT(30), SMTT(60)
<1> QED BY <1>2, <1>3, <1>5 DEF Swapped, v

\* A system call that starts or ends, or is at its only step.
Set(t, p, s) == [t EXCEPT ![p] = s]
\* The others' calls stay,
LEMMA Sets ==
  ASSUME NEW t \in Calls, NEW p \in Procs, NEW s \in Seq(Op), Len(s) <= 2
  PROVE  Set(t, p, s) \in Calls /\ Set(t, p, s)[p] = s /\ \A q \in Procs : q # p => Set(t, p, s)[q] = t[q]
<1>1. t \in [Procs -> Seq(Op)] /\ \A q \in Procs : t[q] \in Seq(Op) /\ Len(t[q]) <= 2
  BY DEF Calls
<1>2. Set(t, p, s)[p] = s /\ (\A q \in Procs : q # p => Set(t, p, s)[q] = t[q]) /\ Set(t, p, s) \in [Procs -> Seq(Op)]
  BY <1>1 DEF Set
<1>3. \A q \in Procs : Len(Set(t, p, s)[q]) <= 2
  BY <1>1, <1>2
<1> QED BY <1>2, <1>3 DEF Calls

\* and the count changes by what the process had and has.
LEMMA SetTally ==
  ASSUME NEW Q, NEW t \in Calls, NEW p \in Procs, NEW s \in Seq(Op), Len(s) <= 2
  PROVE  /\ Tally(t, Q) \in Nat /\ Tally(Set(t, p, s), Q) \in Nat
         /\ Cardinality(At(t[p], Q)) \in Nat /\ Cardinality(At(s, Q)) \in Nat
         /\ Tally(Set(t, p, s), Q) + Cardinality(At(t[p], Q)) = Tally(t, Q) + Cardinality(At(s, Q))
<1>1. /\ Tally(t, Q) \in Nat /\ Tally(Set(t, p, s), Q) \in Nat
      /\ Tally(Set(t, p, s), Q) = Tally(t, Q) - Cardinality(At(t[p], Q)) + Cardinality(At(s, Q))
  BY Replace DEF Set
<1>2. t[p] \in Seq(Op) /\ Len(t[p]) <= 2
  BY DEF Calls
<1>3. Cardinality(At(t[p], Q)) \in Nat /\ Cardinality(At(s, Q)) \in Nat
  BY <1>2, AtFinite
<1> QED BY <1>1, <1>3, SMTT(30)

\* The sequences that a system call may have left to do.
LEMMA Shapes ==
  ASSUME NEW c \in Op, NEW d \in Op
  PROVE  /\ <<>> \in Seq(Op) /\ Len(<<>>) = 0 /\ Len(<<>>) <= 2 /\ Len(<<>>) # 2
         /\ <<c>> \in Seq(Op) /\ Len(<<c>>) = 1 /\ Len(<<c>>) <= 2 /\ Len(<<c>>) # 2
         /\ <<c, d>> \in Seq(Op) /\ Len(<<c, d>>) = 2 /\ Len(<<c, d>>) <= 2
         /\ <<c, d>>[1] = c /\ <<c, d>>[2] = d /\ <<c>> # <<>>
  BY SMTT(30)

\* Two steps in a row.
LEMMA PairOf ==
  ASSUME NEW c \in Op, NEW d \in Op
  PROVE  <<c>> \o <<d>> = <<c, d>>
<1> DEFINE s == <<c>> \o <<d>>
<1>1. <<c>> \in Seq(Op) /\ <<d>> \in Seq(Op) /\ Len(<<c>>) = 1 /\ Len(<<d>>) = 1 /\ <<c>>[1] = c /\ <<d>>[1] = d
  BY SMTT(30)
<1>2. /\ s \in Seq(Op) /\ Len(s) = Len(<<c>>) + Len(<<d>>)
      /\ \A i \in 1 .. Len(<<c>>) + Len(<<d>>) : s[i] = IF i <= Len(<<c>>) THEN <<c>>[i] ELSE <<d>>[i - Len(<<c>>)]
  BY <1>1, SMTT(30)
<1> HIDE DEF s
<1>3. 1 + 1 = 2 /\ 1 \in 1 .. 2 /\ 2 \in 1 .. 2 /\ 1 <= 1 /\ ~(2 <= 1) /\ 2 - 1 = 1 /\ \A i \in 1 .. 2 : i = 1 \/ i = 2
  BY SMTT(30)
<1>4. Len(s) = 2 /\ s[1] = c /\ s[2] = d
  <2>1. Len(s) = 2 /\ \A i \in 1 .. 2 : s[i] = IF i <= 1 THEN <<c>>[i] ELSE <<d>>[i - 1]
    BY <1>1, <1>2, <1>3
  <2>2. s[1] = <<c>>[1] /\ s[2] = <<d>>[2 - 1]
    BY <1>3, <2>1
  <2> QED BY <1>1, <1>3, <2>1, <2>2
<1>5. <<c, d>> \in Seq(Op) /\ Len(<<c, d>>) = 2 /\ <<c, d>>[1] = c /\ <<c, d>>[2] = d
  BY Shapes
<1>6. \A i \in 1 .. Len(s) : s[i] = <<c, d>>[i]
  BY <1>3, <1>4, <1>5
<1>7. s = <<c, d>>
  BY <1>2, <1>4, <1>5, <1>6, SameSeq
<1> QED BY <1>7 DEF s

\* The call starts with c.
LEMMA Start ==
  ASSUME NEW t \in Calls, NEW p \in Procs, t[p] = <<>>, NEW c \in Op
  PROVE  /\ Set(t, p, <<c>>) \in Calls /\ Len(Set(t, p, <<c>>)[p]) # 2 /\ Pending(Set(t, p, <<c>>)[p]) = {c}
         /\ \A q \in Procs : q # p => Set(t, p, <<c>>)[q] = t[q]
<1>1. <<c>> \in Seq(Op) /\ Len(<<c>>) <= 2 /\ Len(<<c>>) # 2
  BY Shapes
<1>2. /\ Set(t, p, <<c>>) \in Calls /\ Set(t, p, <<c>>)[p] = <<c>>
      /\ \A q \in Procs : q # p => Set(t, p, <<c>>)[q] = t[q]
  BY <1>1, Sets
<1>3. Pending(<<c>>) = {c}
  BY PendingOf
<1> QED BY <1>1, <1>2, <1>3

\* The count grows by c.
LEMMA StartTally ==
  ASSUME NEW Q, NEW t \in Calls, NEW p \in Procs, t[p] = <<>>, NEW c \in Op
  PROVE  /\ Tally(t, Q) \in Nat /\ Tally(Set(t, p, <<c>>), Q) \in Nat
         /\ Tally(Set(t, p, <<c>>), Q) = Tally(t, Q) + One(c, Q)
<1>1. <<c>> \in Seq(Op) /\ Len(<<c>>) <= 2 /\ Len(<<c>>) # 2
  BY Shapes
<1>2. /\ Tally(t, Q) \in Nat /\ Tally(Set(t, p, <<c>>), Q) \in Nat
      /\ Tally(Set(t, p, <<c>>), Q) + Cardinality(At(t[p], Q)) = Tally(t, Q) + Cardinality(At(<<c>>, Q))
  BY <1>1, SetTally
<1>3. Cardinality(At(t[p], Q)) = 0 /\ Cardinality(At(<<c>>, Q)) = One(c, Q)
  BY AtShort
<1> QED BY <1>2, <1>3, SMTT(30)

\* Its only step h ends it,
LEMMA Finish ==
  ASSUME NEW t \in Calls, NEW p \in Procs, NEW h \in Op, t[p] = <<h>>
  PROVE  /\ Set(t, p, <<>>) \in Calls /\ Len(Set(t, p, <<>>)[p]) # 2 /\ Pending(Set(t, p, <<>>)[p]) = {}
         /\ \A q \in Procs : q # p => Set(t, p, <<>>)[q] = t[q]
<1>1. <<>> \in Seq(Op) /\ Len(<<>>) <= 2 /\ Len(<<>>) # 2
  BY SMTT(30)
<1>2. /\ Set(t, p, <<>>) \in Calls /\ Set(t, p, <<>>)[p] = <<>>
      /\ \A q \in Procs : q # p => Set(t, p, <<>>)[q] = t[q]
  BY <1>1, Sets
<1>3. Len(Set(t, p, <<>>)[p]) # 2 /\ Pending(Set(t, p, <<>>)[p]) = {}
  <2>1. Pending(<<>>) = {}
    BY PendingOf
  <2> QED BY <1>1, <1>2, <2>1
<1> QED BY <1>2, <1>3

\* The count shrinks by h.
LEMMA FinishTally ==
  ASSUME NEW Q, NEW t \in Calls, NEW p \in Procs, NEW h \in Op, t[p] = <<h>>
  PROVE  /\ Tally(t, Q) \in Nat /\ Tally(Set(t, p, <<>>), Q) \in Nat
         /\ Tally(t, Q) = Tally(Set(t, p, <<>>), Q) + One(h, Q)
<1>1. <<>> \in Seq(Op) /\ Len(<<>>) <= 2 /\ Len(<<>>) # 2
  BY SMTT(30)
<1>2. /\ Tally(t, Q) \in Nat /\ Tally(Set(t, p, <<>>), Q) \in Nat
      /\ Tally(Set(t, p, <<>>), Q) + Cardinality(At(t[p], Q)) = Tally(t, Q) + Cardinality(At(<<>>, Q))
  BY <1>1, SetTally
<1>3. Cardinality(At(t[p], Q)) = One(h, Q) /\ Cardinality(At(<<>>, Q)) = 0
  BY AtShort
<1> QED BY <1>2, <1>3, SMTT(30)

\* is followed by c,
LEMMA Turn ==
  ASSUME NEW t \in Calls, NEW p \in Procs, NEW h \in Op, t[p] = <<h>>, NEW c \in Op
  PROVE  /\ Set(t, p, <<c>>) \in Calls /\ Len(Set(t, p, <<c>>)[p]) # 2 /\ Pending(Set(t, p, <<c>>)[p]) = {c}
         /\ \A q \in Procs : q # p => Set(t, p, <<c>>)[q] = t[q]
<1>1. <<c>> \in Seq(Op) /\ Len(<<c>>) <= 2 /\ Len(<<c>>) # 2
  BY Shapes
<1>2. /\ Set(t, p, <<c>>) \in Calls /\ Set(t, p, <<c>>)[p] = <<c>>
      /\ \A q \in Procs : q # p => Set(t, p, <<c>>)[q] = t[q]
  BY <1>1, Sets
<1>3. Pending(<<c>>) = {c}
  BY PendingOf
<1> QED BY <1>1, <1>2, <1>3

\* The count changes by h and c.
LEMMA TurnTally ==
  ASSUME NEW Q, NEW t \in Calls, NEW p \in Procs, NEW h \in Op, t[p] = <<h>>, NEW c \in Op
  PROVE  /\ Tally(t, Q) \in Nat /\ Tally(Set(t, p, <<c>>), Q) \in Nat
         /\ Tally(Set(t, p, <<c>>), Q) + One(h, Q) = Tally(t, Q) + One(c, Q)
<1>1. <<c>> \in Seq(Op) /\ Len(<<c>>) <= 2 /\ Len(<<c>>) # 2
  BY Shapes
<1>2. /\ Tally(t, Q) \in Nat /\ Tally(Set(t, p, <<c>>), Q) \in Nat
      /\ Tally(Set(t, p, <<c>>), Q) + Cardinality(At(t[p], Q)) = Tally(t, Q) + Cardinality(At(<<c>>, Q))
  BY <1>1, SetTally
<1>3. Cardinality(At(t[p], Q)) = One(h, Q) /\ Cardinality(At(<<c>>, Q)) = One(c, Q)
  BY AtShort
<1> QED BY <1>2, <1>3

\* or by c and d.
Two(t, p, c, d) == Set(t, p, <<c, d>>)
\* No other call changes;
LEMMA Split ==
  ASSUME NEW t \in Calls, NEW p \in Procs, NEW c \in Op, NEW d \in Op
  PROVE  Two(t, p, c, d) \in Calls /\ \A q \in Procs : q # p => Two(t, p, c, d)[q] = t[q]
<1>1. <<c, d>> \in Seq(Op) /\ Len(<<c, d>>) <= 2
  BY Shapes
<1> QED BY <1>1, Sets DEF Two

\* the process has c and then d to do,
LEMMA SplitOps ==
  ASSUME NEW t \in Calls, NEW p \in Procs, NEW c \in Op, NEW d \in Op
  PROVE  Two(t, p, c, d)[p] = <<c, d>>
<1>1. <<c, d>> \in Seq(Op) /\ Len(<<c, d>>) <= 2
  BY Shapes
<1> QED BY <1>1, Sets DEF Two

\* and the count changes by the step done and by c and d.
LEMMA SplitTally ==
  ASSUME NEW Q, NEW t \in Calls, NEW p \in Procs, t[p] = <<Head(t[p])>>, NEW c \in Op, NEW d \in Op
  PROVE  /\ Tally(t, Q) \in Nat /\ Tally(Two(t, p, c, d), Q) \in Nat
         /\ Tally(Two(t, p, c, d), Q) + One(Head(t[p]), Q) = Tally(t, Q) + (One(c, Q) + One(d, Q))
<1> DEFINE s == <<c, d>>
           h == Head(t[p])
<1>1. s \in Seq(Op) /\ Len(s) <= 2
  BY Shapes
<1>2. Cardinality(At(t[p], Q)) = One(h, Q) /\ Cardinality(At(s, Q)) = One(c, Q) + One(d, Q)
  <2>1. Cardinality(At(<<h>>, Q)) = One(h, Q)
    BY AtShort
  <2>2. Cardinality(At(s, Q)) = One(c, Q) + One(d, Q)
    BY AtShort
  <2> QED BY <2>1, <2>2
<1> HIDE DEF s
<1>3. /\ Tally(t, Q) \in Nat /\ Tally(Set(t, p, s), Q) \in Nat
      /\ Tally(Set(t, p, s), Q) + Cardinality(At(t[p], Q)) = Tally(t, Q) + Cardinality(At(s, Q))
  BY <1>1, SetTally
<1> QED BY <1>2, <1>3 DEF s, h, Two

------------------------------------------------------------------------------
(***************************************************************************)
(* What each operation counts for                                          *)
(***************************************************************************)
LEMMA DoFields ==
  ASSUME NEW n, NEW x, NEW y
  PROVE  do(n, x, y).op = n /\ do(n, x, y).x = x /\ do(n, x, y).y = y
  BY DEF do

\* The operations that the system calls are made of.
LEMMA DoOp ==
  /\ do("open", 0, 0) \in Op /\ do("iput", 0, 0) \in Op /\ do("pipe0", 0, 0) \in Op /\ do("exit", 0, 0) \in Op
  /\ \A f \in Files : closing(f) \in Op /\ do("filedup", f, 0) \in Op /\ do("pipe1", f, 0) \in Op
  /\ \A f, h \in Files : do("pipe2", f, h) \in Op
  /\ \A g \in Pages : \A w \in {0, 1} : do("pipeclose", g, w) \in Op
  /\ \A q \in Procs : \A fd \in Fds : do("fork", q, fd) \in Op
  /\ \A fd \in Fds : do("exit", 0, fd) \in Op
<1>1. 0 \in Fds
  BY FileAssumption, SMTT(30) DEF Fds
<1> QED BY <1>1 DEF do, closing, Op

\* A file is held once by the operation that will close it, or by pipealloc().
LEMMA Weights ==
  ASSUME NEW o \in Op, NEW f, NEW g, NEW w
  PROVE  /\ o.op \in {"pipe0", "fork", "exit", "open", "iput", "filedup", "pipeclose"} => One(o, HeldOps(f)) = 0
         /\ o.op \in {"fileclose", "pipe1"} => One(o, HeldOps(f)) = IF o.x = f THEN 1 ELSE 0
         /\ o.op = "pipe2" => One(o, HeldOps(f)) = IF o.x = f \/ o.y = f THEN 1 ELSE 0
         /\ o.op # "filedup" => One(o, UncountedOps(f)) = 0
         /\ o.op = "filedup" => One(o, UncountedOps(f)) = IF o.x = f THEN 1 ELSE 0
         /\ o.op \in {"open", "iput"} => One(o, InodeOps) = 1
         /\ o.op \notin {"open", "iput"} => One(o, InodeOps) = 0
         /\ o.op # "pipeclose" => One(o, CloseOps(g, w)) = 0
         /\ o.op = "pipeclose" => One(o, CloseOps(g, w)) = IF o.x = g /\ o.y = w THEN 1 ELSE 0
  BY DEF One, HeldOps, UncountedOps, InodeOps, CloseOps

\* fdalloc() and the closing of a descriptor change one descriptor.
Slots == Files \cup {NoFile}
Tables == [Procs -> [Fds -> Slots]]
WithFd(o, p, fd, v) == [o EXCEPT ![p] = [o[p] EXCEPT ![fd] = v]]
\* The other descriptors stay,
LEMMA FdSet ==
  ASSUME NEW o \in Tables, NEW p \in Procs, NEW fd \in Fds, NEW v \in Slots
  PROVE  /\ WithFd(o, p, fd, v) \in Tables /\ WithFd(o, p, fd, v)[p][fd] = v
         /\ \A q \in Procs : \A e \in Fds : q # p \/ e # fd => WithFd(o, p, fd, v)[q][e] = o[q][e]
         /\ \A q \in Procs : q # p => WithFd(o, p, fd, v)[q] = o[q]
<1> DEFINE u == WithFd(o, p, fd, v)
<1>1. o[p] \in [Fds -> Slots] /\ u = [o EXCEPT ![p] = [o[p] EXCEPT ![fd] = v]] /\ o \in [Procs -> [Fds -> Slots]]
  BY DEF Tables, WithFd
<1> HIDE DEF u
<1>2. u[p] = [o[p] EXCEPT ![fd] = v] /\ \A q \in Procs : q # p => u[q] = o[q]
  BY <1>1
<1>3. u[p] \in [Fds -> Slots] /\ u[p][fd] = v /\ \A i \in Fds : i # fd => u[p][i] = o[p][i]
  BY <1>1, <1>2
<1>4. u \in Tables
  BY <1>1, <1>3 DEF Tables
<1> QED BY <1>2, <1>3, <1>4 DEF u

\* and a file has one descriptor less, or one more, or both.
LEMMA FdCount ==
  ASSUME NEW f, NEW o \in Tables, NEW p \in Procs, NEW fd \in Fds, NEW v \in Slots
  PROVE  /\ Cardinality(FdsOf(o, f)) \in Nat /\ Cardinality(FdsOf(WithFd(o, p, fd, v), f)) \in Nat
         /\ Cardinality(FdsOf(WithFd(o, p, fd, v), f))
             = Cardinality(FdsOf(o, f)) - (IF o[p][fd] = f THEN 1 ELSE 0) + (IF v = f THEN 1 ELSE 0)
<1> DEFINE u == WithFd(o, p, fd, v)
           S == FdsOf(o, f)
           x == <<p, fd>>
           d == IF o[p][fd] = f THEN 1 ELSE 0
           e == IF v = f THEN 1 ELSE 0
<1>1. u[p][fd] = v /\ \A q \in Procs : \A i \in Fds : q # p \/ i # fd => u[q][i] = o[q][i]
  BY FdSet, SMTT(30)
<1>2. IsFiniteSet(Procs \X Fds)
  <2>1. 0 \in Int /\ NOFILE - 1 \in Int
    BY FileAssumption, SMTT(30)
  <2>2. IsFiniteSet(Fds)
    BY <2>1, FS_Interval DEF Fds
  <2> QED BY <2>2, FS_Product, FileAssumption
<1>3. IsFiniteSet(S) /\ Cardinality(S) \in Nat
  <2>1. S \in SUBSET (Procs \X Fds)
    BY DEF FdsOf
  <2> QED BY <1>2, <2>1, FS_Subset, FS_CardinalityType
<1>4. x \in S <=> o[p][fd] = f
  <2>1. x[1] = p /\ x[2] = fd /\ x \in Procs \X Fds
    BY SMTT(30)
  <2> QED BY <2>1 DEF FdsOf
<1>5. FdsOf(u, f) = IF v = f THEN S \cup {x} ELSE S \ {x}
  <2>1. ASSUME NEW q \in Procs, NEW i \in Fds
        PROVE  /\ <<q, i>> \in FdsOf(u, f) <=> u[q][i] = f
               /\ <<q, i>> \in S <=> o[q][i] = f
               /\ <<q, i>> = x <=> q = p /\ i = fd
    <3>1. <<q, i>>[1] = q /\ <<q, i>>[2] = i /\ <<q, i>> \in Procs \X Fds /\ (<<q, i>> = x <=> q = p /\ i = fd)
      BY SMTT(30)
    <3> HIDE DEF u
    <3> QED BY <3>1 DEF FdsOf
  <2>2. FdsOf(u, f) \subseteq Procs \X Fds /\ S \subseteq Procs \X Fds
    BY DEF FdsOf
  <2>3. x \in Procs \X Fds /\ \A y \in Procs \X Fds : \E q \in Procs, i \in Fds : y = <<q, i>>
    BY SMTT(30)
  <2>4. ASSUME NEW y \in Procs \X Fds
        PROVE  y \in FdsOf(u, f) <=> y \in (IF v = f THEN S \cup {x} ELSE S \ {x})
    <3>1. PICK q \in Procs, i \in Fds : y = <<q, i>>
      BY <2>3
    <3> HIDE DEF u, S, x
    <3>2. CASE q = p /\ i = fd
      BY <1>1, <2>1, <3>1, <3>2
    <3>3. CASE ~(q = p /\ i = fd)
      BY <1>1, <2>1, <3>1, <3>3
    <3> QED BY <3>2, <3>3
  <2> HIDE DEF u, S, x
  <2> QED BY <2>2, <2>3, <2>4
<1>6. /\ Cardinality(S \cup {x}) = IF x \in S THEN Cardinality(S) ELSE Cardinality(S) + 1
      /\ Cardinality(S \ {x}) = IF x \in S THEN Cardinality(S) - 1 ELSE Cardinality(S)
      /\ IsFiniteSet(S \cup {x}) /\ IsFiniteSet(S \ {x})
  BY <1>3, FS_AddElement, FS_RemoveElement
<1>7. Cardinality(FdsOf(u, f)) \in Nat
  BY <1>5, <1>6, FS_CardinalityType
<1>8. Cardinality(FdsOf(u, f)) = Cardinality(S) - d + e
  <2> DEFINE m == Cardinality(S)
             n == Cardinality(FdsOf(u, f))
  <2>1. /\ m \in Nat /\ (v = f => n = IF o[p][fd] = f THEN m ELSE m + 1)
        /\ (v # f => n = IF o[p][fd] = f THEN m - 1 ELSE m)
    <3> HIDE DEF x, S, u
    <3> QED BY <1>3, <1>4, <1>5, <1>6
  <2> HIDE DEF m, n
  <2> QED BY <2>1, SMTT(30) DEF m, n
<1> QED BY <1>3, <1>7, <1>8

------------------------------------------------------------------------------
(***************************************************************************)
(* What the invariant says about the reference counts                      *)
(***************************************************************************)
\* filealloc() and fdalloc() take the first free entry.
LEMMA LeastFree ==
  /\ \A S \in SUBSET Files : S # {} => Min(S) \in S
  /\ \A S \in SUBSET Fds : S # {} => Min(S) \in S
<1>1. Files \subseteq Nat /\ Fds \subseteq Nat
  BY FileAssumption, SMTT(30) DEF Files, Fds
<1>2. ASSUME NEW S, S \subseteq Nat, S # {} PROVE Min(S) \in S
  <2>1. \E x \in S : \A y \in S : x <= y
    <3>1. PICK x \in S : \A y \in S : ~(<<y, x>> \in OpToRel(<, Nat))
      BY <1>2, NatLessThanWellFounded, WFMin
    <3>2. \A y \in S : y < x => <<y, x>> \in OpToRel(<, Nat)
      BY <1>2, SMTT(30) DEF OpToRel
    <3>3. \A y \in S : ~(y < x)
      BY <3>1, <3>2
    <3> QED BY <1>2, <3>3, SMTT(30), SMTT(60)
  <2> QED BY <2>1 DEF Min
<1> QED BY <1>1, <1>2

\* No file has the number that stands for none.
LEMMA FileIsNone == NoFile \notin Files
  BY SMTT(30) DEF NoFile, Files

\* The pending steps that are counted.
LEMMA TallyFinite ==
  ASSUME NEW t \in Calls, NEW Q
  PROVE  /\ IsFiniteSet(StepsIn(t, Q)) /\ Tally(t, Q) \in Nat
         /\ \A p \in Procs : \A o \in Pending(t[p]) : o \in Q => Tally(t, Q) >= 1
         /\ \A x \in StepsIn(t, Q) : /\ x[1] \in Procs /\ x = <<x[1], x[2]>> /\ x[2] \in DOMAIN t[x[1]]
                                     /\ t[x[1]][x[2]] \in Pending(t[x[1]]) \cap Q
<1>1. IsFiniteSet(StepsIn(t, Q))
  <2>1. 1 \in Int /\ 2 \in Int
    BY SMTT(30)
  <2>2. IsFiniteSet(1 .. 2)
    BY <2>1, FS_Interval
  <2>3. IsFiniteSet(Procs \X (1 .. 2))
    BY <2>2, FS_Product, FileAssumption
  <2>4. StepsIn(t, Q) \in SUBSET (Procs \X (1 .. 2))
    BY DEF StepsIn
  <2> QED BY <2>3, <2>4, FS_Subset
<1>2. Tally(t, Q) \in Nat
  BY <1>1, FS_CardinalityType DEF Tally
<1>3. ASSUME NEW p \in Procs, NEW o \in Pending(t[p]), o \in Q PROVE Tally(t, Q) >= 1
  <2>1. PICK i \in DOMAIN t[p] : o = t[p][i]
    BY DEF Pending
  <2>2. i \in 1 .. 2
    <3>1. DOMAIN t[p] = 1 .. Len(t[p]) /\ Len(t[p]) \in Nat /\ Len(t[p]) <= 2
      <4>1. t[p] \in Seq(Op) /\ Len(t[p]) <= 2
        BY DEF Calls
      <4> QED BY <4>1, SMTT(30), SMTT(60)
    <3> QED BY <3>1, SMTT(30), SMTT(60)
  <2>3. <<p, i>>[1] = p /\ <<p, i>>[2] = i /\ <<p, i>> \in Procs \X (1 .. 2)
    BY <2>2, SMTT(30)
  <2>4. <<p, i>> \in StepsIn(t, Q)
    BY <1>3, <2>1, <2>3 DEF StepsIn
  <2>5. Tally(t, Q) # 0
    BY <1>1, <2>4, FS_EmptySet DEF Tally
  <2> QED BY <1>2, <2>5, SMTT(30), SMTT(60)
<1>4. ASSUME NEW x \in StepsIn(t, Q)
      PROVE  /\ x[1] \in Procs /\ x = <<x[1], x[2]>> /\ x[2] \in DOMAIN t[x[1]]
             /\ t[x[1]][x[2]] \in Pending(t[x[1]]) \cap Q
  <2>1. x \in Procs \X (1 .. 2) /\ x[2] \in DOMAIN t[x[1]] /\ t[x[1]][x[2]] \in Q
    BY DEF StepsIn
  <2>2. x[1] \in Procs /\ x = <<x[1], x[2]>>
    BY <2>1, SMTT(30)
  <2> QED BY <2>1, <2>2 DEF Pending
<1> QED BY <1>1, <1>2, <1>3, <1>4

\* The descriptors of a file.
LEMMA FdsFinite ==
  ASSUME TypeOK, NEW f \in Files
  PROVE  /\ IsFiniteSet(Descriptors(f)) /\ Cardinality(Descriptors(f)) \in Nat /\ Descriptors(f) = FdsOf(ofile, f)
         /\ \A p \in Procs : \A fd \in Fds : ofile[p][fd] = f =>
                <<p, fd>> \in Descriptors(f) /\ Cardinality(Descriptors(f)) >= 1
<1>1. IsFiniteSet(Procs \X Fds)
  <2>1. 0 \in Int /\ NOFILE - 1 \in Int
    BY FileAssumption, SMTT(30)
  <2>2. IsFiniteSet(Fds)
    BY <2>1, FS_Interval DEF Fds
  <2> QED BY <2>2, FS_Product, FileAssumption
<1>2. IsFiniteSet(Descriptors(f)) /\ Cardinality(Descriptors(f)) \in Nat
  <2>1. Descriptors(f) \in SUBSET (Procs \X Fds)
    BY DEF Descriptors
  <2> QED BY <1>1, <2>1, FS_Subset, FS_CardinalityType
<1>3. ASSUME NEW p \in Procs, NEW fd \in Fds, ofile[p][fd] = f
      PROVE  <<p, fd>> \in Descriptors(f) /\ Cardinality(Descriptors(f)) >= 1
  <2>1. <<p, fd>>[1] = p /\ <<p, fd>>[2] = fd /\ <<p, fd>> \in Procs \X Fds
    BY SMTT(30)
  <2>2. <<p, fd>> \in Descriptors(f)
    BY <1>3, <2>1 DEF Descriptors
  <2>3. Cardinality(Descriptors(f)) # 0
    BY <1>2, <2>2, FS_EmptySet
  <2> QED BY <1>2, <2>2, <2>3, SMTT(30), SMTT(60)
<1>4. Descriptors(f) = FdsOf(ofile, f)
  BY DEF Descriptors, FdsOf
<1> QED BY <1>2, <1>3, <1>4

\* sys_dup() has the descriptor before the reference: a process about to count
\* one has two descriptors, so the file has more descriptors than that.
LEMMA DupsHaveFds ==
  ASSUME Inv, NEW f \in Files, Tally(todo, UncountedOps(f)) >= 1
  PROVE  Tally(todo, UncountedOps(f)) + 1 <= Cardinality(Descriptors(f))
<1> DEFINE U == StepsIn(todo, UncountedOps(f))
           D == Descriptors(f)
           fdOf(p) == CHOOSE fd \in Fds : ofile[p][fd] = f
           g == [x \in U |-> <<x[1], fdOf(x[1])>>]
<1>1. todo \in Calls /\ todo \in [Procs -> Seq(Op)]
  BY DEF Inv, TypeOK, Calls
<1>2. IsFiniteSet(U) /\ Tally(todo, UncountedOps(f)) \in Nat /\ Tally(todo, UncountedOps(f)) = Cardinality(U)
  BY <1>1, TallyFinite DEF Tally
<1>3. ASSUME NEW x \in U
      PROVE  /\ x[1] \in Procs /\ x = <<x[1], 1>>
             /\ \E fd, fe \in Fds : fd # fe /\ ofile[x[1]][fd] = f /\ ofile[x[1]][fe] = f
  <2>1. /\ x[1] \in Procs /\ x = <<x[1], x[2]>> /\ x[2] \in DOMAIN todo[x[1]]
        /\ todo[x[1]][x[2]] \in Pending(todo[x[1]]) \cap UncountedOps(f)
    BY <1>1, TallyFinite
  <2>2. todo[x[1]][x[2]].op = "filedup" /\ todo[x[1]][x[2]].x = f
    BY <2>1 DEF UncountedOps
  <2>3. \E fd, fe \in Fds : fd # fe /\ ofile[x[1]][fd] = f /\ ofile[x[1]][fe] = f
    BY <2>1, <2>2 DEF Inv, DupInv
  <2>4. x[2] = 1
    <3>1. todo[x[1]] \in Seq(Op) /\ Len(todo[x[1]]) <= 2
      BY <1>1, <2>1 DEF Calls
    <3>2. DOMAIN todo[x[1]] = 1 .. Len(todo[x[1]]) /\ Len(todo[x[1]]) \in Nat
      BY <3>1, SMTT(30), SMTT(60)
    <3>3. Len(todo[x[1]]) # 2
      <4>1. SUFFICES ASSUME Len(todo[x[1]]) = 2 PROVE FALSE
        OBVIOUS
      <4>2. todo[x[1]][1].op # "filedup" /\ todo[x[1]][2].op # "filedup"
        BY <2>1, <4>1 DEF Inv, TodoInv
      <4>3. \A i \in 1 .. 2 : i = 1 \/ i = 2
        BY SMTT(30)
      <4> QED BY <2>1, <2>2, <3>2, <4>1, <4>2, <4>3
    <3>4. \A n \in Nat : n <= 2 /\ n # 2 => \A i \in 1 .. n : i = 1
      BY SMTT(30)
    <3> QED BY <2>1, <3>1, <3>2, <3>3, <3>4
  <2> QED BY <2>1, <2>3, <2>4
<1>4. PICK y : y \in U
  <2>1. Cardinality(U) # 0
    <3> HIDE DEF U
    <3> QED BY <1>2, SMTT(30)
  <2> QED BY <2>1, FS_EmptySet
<1>5. PICK fe \in Fds : ofile[y[1]][fe] = f /\ fe # fdOf(y[1])
  BY <1>3, <1>4
<1>6. IsFiniteSet(D) /\ Cardinality(D) \in Nat /\ <<y[1], fe>> \in D
  BY <1>3, <1>4, <1>5, FdsFinite DEF Inv
<1>7. IsFiniteSet(D \ {<<y[1], fe>>}) /\ Cardinality(D \ {<<y[1], fe>>}) = Cardinality(D) - 1
  <2> HIDE DEF D
  <2> QED BY <1>6, FS_RemoveElement
<1>8. g \in Injection(U, D \ {<<y[1], fe>>})
  <2>1. ASSUME NEW x \in U PROVE g[x] \in D \ {<<y[1], fe>>}
    <3>1. g[x] = <<x[1], fdOf(x[1])>>
      OBVIOUS
    <3>2. fdOf(x[1]) \in Fds /\ ofile[x[1]][fdOf(x[1])] = f /\ x[1] \in Procs
      BY <1>3
    <3>3. <<x[1], fdOf(x[1])>> \in D
      BY <3>2, FdsFinite DEF Inv
    <3>4. <<x[1], fdOf(x[1])>> # <<y[1], fe>>
      <4> DEFINE a == x[1]
                 b == fdOf(x[1])
      <4>1. a = y[1] => b # fe
        BY <1>5
      <4> HIDE DEF a, b
      <4>2. <<a, b>> # <<y[1], fe>>
        BY <4>1, SMTT(30), SMTT(60)
      <4> QED BY <4>2 DEF a, b
    <3> QED BY <3>1, <3>3, <3>4
  <2>2. ASSUME NEW x \in U, NEW z \in U, g[x] = g[z] PROVE x = z
    <3>1. <<x[1], fdOf(x[1])>> = <<z[1], fdOf(z[1])>>
      BY <2>2
    <3>2. x[1] = z[1]
      <4> HIDE DEF fdOf
      <4> QED BY <3>1, SMTT(30), SMTT(60)
    <3> QED BY <1>3, <3>2
  <2>3. g \in [U -> D \ {<<y[1], fe>>}]
    <3> HIDE DEF D, U
    <3> QED BY <2>1
  <2> HIDE DEF g, U, D
  <2> QED BY <2>2, <2>3 DEF Injection, IsInjective
<1>9. Cardinality(U) <= Cardinality(D \ {<<y[1], fe>>})
  <2> HIDE DEF g, U, D
  <2> QED BY <1>7, <1>8, FS_Injection
<1> DEFINE m == Cardinality(U)
           n == Cardinality(D)
<1>10. m <= n - 1 /\ m \in Nat /\ n \in Nat
  BY <1>2, <1>6, <1>7, <1>9
<1> HIDE DEF m, n, U, D
<1>11. m + 1 <= n
  BY <1>10, SMTT(30)
<1> QED BY <1>2, <1>11 DEF m, n, D
\* A file that something refers to has a reference, and a free one has nothing
\* that refers to it.
LEMMA RefPositive ==
  ASSUME Inv, NEW f \in Files
  PROVE  /\ ref[f] \in Nat
         /\ \A p \in Procs : \A fd \in Fds : ofile[p][fd] = f => ref[f] >= 1 /\ ref[f] # 0 /\ ~(ref[f] < 1)
         /\ \A p \in Procs : \A o \in Pending(todo[p]) : Mentions(o, f) => ref[f] >= 1 /\ ref[f] # 0 /\ ~(ref[f] < 1)
<1> DEFINE r == ref[f]
           u == Tally(todo, UncountedOps(f))
           d == Cardinality(FdsOf(ofile, f))
           h == Tally(todo, HeldOps(f))
<1>1. todo \in Calls /\ TypeOK
  BY DEF Inv, TypeOK, Calls
<1>2. r \in Nat /\ u \in Nat /\ d \in Nat /\ h \in Nat
  BY <1>1, TallyFinite, FdsFinite DEF TypeOK
<1>3. r + u = d + h
  BY DEF Inv, CountInv
<1>4. u >= 1 => u + 1 <= d
  BY <1>1, DupsHaveFds, FdsFinite
<1>5. ASSUME d >= 1 \/ u >= 1 \/ h >= 1 PROVE r >= 1 /\ r # 0 /\ ~(r < 1)
  <2> HIDE DEF r, u, d, h
  <2> QED BY <1>2, <1>3, <1>4, <1>5, SMTT(30), SMTT(60)
<1>6. ASSUME NEW p \in Procs, NEW fd \in Fds, ofile[p][fd] = f PROVE d >= 1
  BY <1>1, <1>6, FdsFinite
<1>7. ASSUME NEW p \in Procs, NEW o \in Pending(todo[p]), Mentions(o, f) PROVE u >= 1 \/ h >= 1
  BY <1>1, <1>7, TallyFinite DEF Mentions
<1> QED BY <1>2, <1>5, <1>6, <1>7

\* The step that a process is about to take.
LEMMA Heads ==
  ASSUME Inv, NEW p \in Procs, todo[p] # <<>>
  PROVE  /\ todo \in Calls /\ Head(todo[p]) \in Op /\ Head(todo[p]) \in Pending(todo[p]) /\ OpOK(Head(todo[p]))
         /\ Head(todo[p]).op \notin {"fileclose", "iput", "pipeclose"} =>
                todo[p] = <<Head(todo[p])>> /\ Tail(todo[p]) = <<>> /\ Pending(todo[p]) = {Head(todo[p])}
         /\ Pending(Tail(todo[p])) \subseteq Pending(todo[p])
         /\ \A o \in Pending(Tail(todo[p])) : o.op \in {"fileclose", "iput", "exit"}
<1> DEFINE h == Head(todo[p])
<1>1. todo \in Calls /\ todo[p] \in Seq(Op) /\ Len(todo[p]) <= 2
  BY DEF Inv, TypeOK, Calls
<1>2. h \in Op /\ Pending(todo[p]) = Plus(h, Pending(Popped(todo, p)[p])) /\ Popped(todo, p)[p] = Tail(todo[p])
  BY <1>1, Pops
<1>3. h \in Pending(todo[p]) /\ Pending(Tail(todo[p])) \subseteq Pending(todo[p])
  BY <1>2 DEF Plus
<1>4. \/ Len(todo[p]) = 1 /\ todo[p] = <<h>> /\ Tail(todo[p]) = <<>>
      \/ Len(todo[p]) = 2 /\ Tail(todo[p]) = <<todo[p][2]>> /\ h = todo[p][1]
  BY <1>1, Shape
<1>5. h.op \notin {"fileclose", "iput", "pipeclose"} => todo[p] = <<h>> /\ Tail(todo[p]) = <<>>
  BY <1>4 DEF Inv, TodoInv
<1>6. \A o \in Pending(Tail(todo[p])) : o.op \in {"fileclose", "iput", "exit"}
  <2>1. CASE Tail(todo[p]) = <<>>
    BY <2>1, PendingOf
  <2>2. CASE Len(todo[p]) = 2 /\ Tail(todo[p]) = <<todo[p][2]>>
    <3>1. todo[p][2].op \in {"fileclose", "iput", "exit"}
      BY <2>2 DEF Inv, TodoInv
    <3>2. Pending(<<todo[p][2]>>) = {todo[p][2]}
      BY PendingOf
    <3>3. Pending(Tail(todo[p])) = {todo[p][2]}
      BY <2>2, <3>2
    <3> QED BY <3>1, <3>3
  <2> QED BY <1>4, <2>1, <2>2
<1>7. OpOK(h)
  BY <1>3 DEF Inv, TodoInv
<1>8. h.op \notin {"fileclose", "iput", "pipeclose"} => Pending(todo[p]) = {h}
  BY <1>5, PendingOf
<1> QED BY <1>1, <1>2, <1>3, <1>5, <1>6, <1>7, <1>8

\* There are finitely many files.
LEMMA FilesFinite == ASSUME NEW S \in SUBSET Files PROVE IsFiniteSet(S) /\ Cardinality(S) \in Nat
<1>1. 1 \in Int /\ NFILE \in Int
  BY FileAssumption, SMTT(30), SMTT(60)
<1>2. IsFiniteSet(Files)
  BY <1>1, FS_Interval DEF Files
<1> QED BY <1>2, FS_Subset, FS_CardinalityType

\* Sets of files that differ in one file.
LEMMA OneFile ==
  ASSUME NEW S, NEW T, S \subseteq Files, T \subseteq Files, NEW f \in Files, \A h \in Files : h # f => (h \in S <=> h \in T)
  PROVE  /\ Cardinality(S) \in Nat /\ Cardinality(T) \in Nat
         /\ Cardinality(T) = Cardinality(S) - One(f, S) + One(f, T)
<1> DEFINE R == S \ {f}
<1>1. S \in SUBSET Files /\ T \in SUBSET Files /\ R \in SUBSET Files
  OBVIOUS
<1>2. IsFiniteSet(S) /\ IsFiniteSet(T) /\ IsFiniteSet(R)
  BY <1>1, FilesFinite
<1>3. Cardinality(S) \in Nat /\ Cardinality(T) \in Nat /\ Cardinality(R) \in Nat
  BY <1>1, FilesFinite
<1>4. f \notin R /\ (f \in S => S = R \cup {f}) /\ (f \notin S => S = R) /\ (f \in T => T = R \cup {f}) /\ (f \notin T => T = R)
  OBVIOUS
<1> HIDE DEF R
<1>5. Cardinality(R \cup {f}) = Cardinality(R) + 1
  BY <1>2, <1>4, FS_AddElement
<1>6. /\ One(f, S) \in {0, 1} /\ One(f, T) \in {0, 1}
      /\ One(f, S) = 1 => Cardinality(S) = Cardinality(R) + 1
      /\ One(f, S) = 0 => Cardinality(S) = Cardinality(R)
      /\ One(f, T) = 1 => Cardinality(T) = Cardinality(R) + 1
      /\ One(f, T) = 0 => Cardinality(T) = Cardinality(R)
  <2>1. 0 # 1
    BY SMTT(30), SMTT(60)
  <2> QED BY <1>4, <1>5, <2>1 DEF One
<1>7. Cardinality(T) = Cardinality(S) - One(f, S) + One(f, T)
  BY <1>3, <1>6, SMTT(30), SMTT(60)
<1> QED BY <1>3, <1>7
------------------------------------------------------------------------------
(***************************************************************************)
(* What a step of one process leaves alone                                 *)
(***************************************************************************)
\* A step that neither starts nor ends a fork() or exit(), and touches the
\* descriptors of its own process only.
LEMMA KeepsFork ==
  ASSUME Inv, NEW p \in Procs, live' = live, todo[p] # <<>> \/ p \in live,
         \A q \in Procs : q # p => todo'[q] = todo[q] /\ ofile'[q] = ofile[q],
         \A o \in Pending(todo'[p]) : o.op \in {"fork", "exit"} => o \in Pending(todo[p]),
         \A o \in Pending(todo[p]) : o.op \in {"fork", "exit"} => o \in Pending(todo'[p]),
         p \notin live => \A fd \in Fds : ofile'[p][fd] # NoFile => ofile[p][fd] # NoFile
  PROVE  ForkInv' /\ DeadInv'
<1>1. \A q \in Procs : \A o \in Pending(todo'[q]) : o.op = "fork" => o \in Pending(todo[q])
  OBVIOUS
<1>2. \A q \in Procs : \A o \in Pending(todo[q]) : o.op \in {"fork", "exit"} => o \in Pending(todo'[q])
  OBVIOUS
<1>3. \A q \in Procs : \A o \in Pending(todo[q]) : o.op = "fork" => o.x # p /\ o.x \in Procs
  <2> SUFFICES ASSUME NEW q \in Procs, NEW o \in Pending(todo[q]), o.op = "fork" PROVE o.x # p /\ o.x \in Procs
    OBVIOUS
  <2>1. o.x \in Procs
    BY DEF Inv, TodoInv, OpOK
  <2>2. o.x \notin live /\ todo[o.x] = <<>>
    BY DEF Inv, ForkInv
  <2> QED BY <2>1, <2>2
<1>4. ForkInv'
  <2> SUFFICES ASSUME NEW q \in Procs, NEW o \in Pending(todo'[q]), o.op = "fork"
               PROVE  /\ o.x \notin live' /\ todo'[o.x] = <<>>
                      /\ \A r \in Procs : \A u \in Pending(todo'[r]) : u.op = "fork" /\ u.x = o.x => r = q
                      /\ \A fd \in Fds : ofile'[o.x][fd] # NoFile => fd < o.y
    BY DEF ForkInv
  <2>1. o \in Pending(todo[q]) /\ o.x # p /\ o.x \in Procs
    BY <1>1, <1>3
  <2>2. /\ o.x \notin live /\ todo[o.x] = <<>>
        /\ \A r \in Procs : \A u \in Pending(todo[r]) : u.op = "fork" /\ u.x = o.x => r = q
        /\ \A fd \in Fds : ofile[o.x][fd] # NoFile => fd < o.y
    BY <2>1 DEF Inv, ForkInv
  <2>3. todo'[o.x] = todo[o.x] /\ ofile'[o.x] = ofile[o.x]
    BY <2>1
  <2> QED BY <1>1, <2>2, <2>3
<1>5. DeadInv'
  <2> SUFFICES ASSUME NEW q \in Procs \ live, NEW fd \in Fds, ofile'[q][fd] # NoFile
               PROVE  \/ \E r \in Procs : \E o \in Pending(todo'[r]) : o.op = "fork" /\ o.x = q
                      \/ \E o \in Pending(todo'[q]) : o.op = "exit" /\ fd >= o.y
    BY DEF DeadInv
  <2>1. ofile[q][fd] # NoFile
    OBVIOUS
  <2>2. \/ \E r \in Procs : \E o \in Pending(todo[r]) : o.op = "fork" /\ o.x = q
        \/ \E o \in Pending(todo[q]) : o.op = "exit" /\ fd >= o.y
    BY <2>1 DEF Inv, DeadInv
  <2> QED BY <1>2, <2>2
<1> QED BY <1>4, <1>5

\* A step after which what its own process has left to do is sound.
LEMMA KeepsTodo ==
  ASSUME Inv, NEW p \in Procs, \A q \in Procs : q # p => todo'[q] = todo[q] /\ (q \in live' <=> q \in live),
         \A o \in Pending(todo'[p]) : OpOK(o),
         Len(todo'[p]) = 2 => todo'[p][1].op \in {"fileclose", "iput", "pipeclose"} /\ todo'[p][2].op \in {"fileclose", "iput", "exit"},
         p \in live' => \A o \in Pending(todo'[p]) : o.op # "exit",
         p \notin live' => \A o \in Pending(todo'[p]) : o.op \in {"fileclose", "iput", "pipeclose", "exit"}
  PROVE  TodoInv'
<1> SUFFICES ASSUME NEW q \in Procs
             PROVE  /\ \A o \in Pending(todo'[q]) : OpOK(o)
                    /\ Len(todo'[q]) = 2 => /\ todo'[q][1].op \in {"fileclose", "iput", "pipeclose"}
                                            /\ todo'[q][2].op \in {"fileclose", "iput", "exit"}
                    /\ q \in live' => \A o \in Pending(todo'[q]) : o.op # "exit"
                    /\ q \notin live' => \A o \in Pending(todo'[q]) : o.op \in {"fileclose", "iput", "pipeclose", "exit"}
  BY DEF TodoInv
<1>1. CASE q = p
  BY <1>1
<1>2. CASE q # p
  <2>1. todo'[q] = todo[q] /\ (q \in live' <=> q \in live)
    BY <1>2
  <2> QED BY <2>1 DEF Inv, TodoInv
<1> QED BY <1>1, <1>2

\* A step after which its process has no filedup() to do.
LEMMA KeepsDup ==
  ASSUME Inv, NEW p \in Procs, \A q \in Procs : q # p => todo'[q] = todo[q] /\ ofile'[q] = ofile[q],
         \A o \in Pending(todo'[p]) : o.op # "filedup"
  PROVE  DupInv'
<1> SUFFICES ASSUME NEW q \in Procs, NEW o \in Pending(todo'[q]), o.op = "filedup"
             PROVE  \E fd, fe \in Fds : fd # fe /\ ofile'[q][fd] = o.x /\ ofile'[q][fe] = o.x
  BY DEF DupInv
<1>1. q # p /\ ofile'[q] = ofile[q] /\ o \in Pending(todo[q])
  OBVIOUS
<1>2. \E fd, fe \in Fds : fd # fe /\ ofile[q][fd] = o.x /\ ofile[q][fe] = o.x
  BY <1>1 DEF Inv, DupInv
<1> QED BY <1>1, <1>2

\* A step touches only files that its process refers to, that have a
\* descriptor, or that are free: not the new files of another's pipealloc().
Touches(p, f) ==
    \/ \E u \in Pending(todo[p]) : Mentions(u, f)
    \/ \E q \in Procs : \E fd \in Fds : ofile[q][fd] = f
    \/ ref[f] = 0
\* What is left of FreshInv for an action of p to show.
LEMMA KeepsFresh ==
  ASSUME Inv, NEW p \in Procs, \A q \in Procs : q # p => todo'[q] = todo[q],
         \A f \in Files : ~Touches(p, f) =>
             /\ ref'[f] = ref[f] /\ type'[f] = type[f]
             /\ \A q \in Procs : \A fd \in Fds : ofile'[q][fd] # f
             /\ \A u \in Pending(todo'[p]) : ~Mentions(u, f),
         \A o \in Pending(todo'[p]) : \A f \in Files : o.op \in {"pipe1", "pipe2"} /\ Mentions(o, f) =>
             /\ ref'[f] = 1 /\ type'[f] = "none"
             /\ \A q \in Procs : \A fd \in Fds : ofile'[q][fd] # f
             /\ \A q \in Procs : q # p => \A u \in Pending(todo[q]) : ~Mentions(u, f)
  PROVE  FreshInv'
<1> SUFFICES ASSUME NEW q \in Procs, NEW o \in Pending(todo'[q]), NEW f \in Files,
                    o.op \in {"pipe1", "pipe2"}, Mentions(o, f)
             PROVE  /\ ref'[f] = 1 /\ type'[f] = "none"
                    /\ \A r \in Procs : \A fd \in Fds : ofile'[r][fd] # f
                    /\ \A r \in Procs : \A u \in Pending(todo'[r]) : Mentions(u, f) => r = q
  BY DEF FreshInv
<1>1. CASE q = p
  BY <1>1
<1>2. CASE q # p
  <2>1. o \in Pending(todo[q])
    BY <1>2
  <2>2. /\ ref[f] = 1 /\ type[f] = "none"
        /\ \A r \in Procs : \A fd \in Fds : ofile[r][fd] # f
        /\ \A r \in Procs : \A u \in Pending(todo[r]) : Mentions(u, f) => r = q
    BY <2>1 DEF Inv, FreshInv
  <2>3. ~Touches(p, f)
    <3>1. 0 # 1
      BY SMTT(30)
    <3> QED BY <1>2, <2>2, <3>1 DEF Touches
  <2> QED BY <1>2, <2>2, <2>3
<1> QED BY <1>1, <1>2

\* A step that changes neither the kinds of files nor the ends of pipes.
LEMMA KeepsRest ==
  ASSUME Inv, type' = type, page' = page, writable' = writable, open' = open, iref' = iref,
         Tally(todo', InodeOps) = Tally(todo, InodeOps),
         \A g \in Pages : \A w \in {0, 1} : Tally(todo', CloseOps(g, w)) = Tally(todo, CloseOps(g, w)),
         \A f \in Files :
            ref'[f] + Tally(todo', UncountedOps(f)) = Cardinality(FdsOf(ofile', f)) + Tally(todo', HeldOps(f))
  PROVE  CountInv'
<1>1. iref' = Cardinality(InodeFiles(type')) + Tally(todo', InodeOps)
  BY DEF Inv, CountInv
<1>2. ASSUME NEW g \in Pages, NEW w \in {0, 1}
      PROVE  Cardinality(PipeFiles(type', page', writable', g, w)) + Tally(todo', CloseOps(g, w)) = Opened(open', g, w)
  BY DEF Inv, CountInv
<1> QED BY <1>1, <1>2 DEF CountInv
------------------------------------------------------------------------------
(***************************************************************************)
(* The invariant holds initially, and the steps that begin a call or close *)
(* a file keep it                                                          *)
(***************************************************************************)
\* Nothing is open when the first process starts.
LEMMA InitInv == Init => Inv
<1> SUFFICES ASSUME Init PROVE Inv
  OBVIOUS
<1>1. \A p \in Procs : todo[p] = <<>>
  BY DEF Init
<1>2. \A p \in Procs : DOMAIN todo[p] = {}
  BY <1>1, SMTT(30), SMTT(60)
<1>3. \A p \in Procs : Pending(todo[p]) = {}
  BY <1>2 DEF Pending
<1>4. <<>> \in Seq(Op) /\ Len(<<>>) <= 2 /\ Len(<<>>) # 2 /\ 0 \in Nat /\ 0 + 0 = 0
  BY SMTT(30)
<1>5. TypeOK
  BY <1>1, <1>4, FileAssumption DEF Init, TypeOK
<1>6. TodoInv
  BY <1>1, <1>3, <1>4 DEF TodoInv
<1>7. ForkInv /\ DupInv /\ FreshInv
  BY <1>3 DEF ForkInv, DupInv, FreshInv
<1>8. DeadInv
  BY DEF DeadInv, Init
<1>9. FileInv
  BY DEF FileInv, Init
<1>10. CountInv
  <2>1. ASSUME NEW Q PROVE Tally(todo, Q) = 0
    <3>1. \A x \in Procs \X (1 .. 2) : x[1] \in Procs
      BY SMTT(30)
    <3>2. StepsIn(todo, Q) = {}
      BY <1>2, <3>1 DEF StepsIn
    <3> QED BY <3>2, FS_EmptySet DEF Tally
  <2>2. ASSUME NEW f \in Files PROVE Cardinality(FdsOf(ofile, f)) = 0
    <3>1. \A x \in Procs \X Fds : x[1] \in Procs /\ x[2] \in Fds
      BY SMTT(30)
    <3>2. f # NoFile
      BY FileIsNone
    <3>3. FdsOf(ofile, f) = {}
      BY <3>1, <3>2 DEF FdsOf, Init
    <3> QED BY <3>3, FS_EmptySet
  <2>3. Cardinality(InodeFiles(type)) = 0
    <3>1. InodeFiles(type) = {}
      BY DEF InodeFiles, Init
    <3> QED BY <3>1, FS_EmptySet
  <2>4. ASSUME NEW g, NEW w PROVE Cardinality(PipeFiles(type, page, writable, g, w)) = 0
    <3>1. PipeFiles(type, page, writable, g, w) = {}
      BY DEF PipeFiles, Init
    <3> QED BY <3>1, FS_EmptySet
  <2>5. \A g \in Pages : \A w \in {0, 1} : Opened(open, g, w) = 0
    BY DEF Opened, Init
  <2>6. iref = 0 /\ \A f \in Files : ref[f] = 0
    BY DEF Init
  <2> QED BY <1>4, <2>1, <2>2, <2>3, <2>4, <2>5, <2>6 DEF CountInv
<1>11. panicked = 0
  BY DEF Init
<1> QED BY <1>5, <1>6, <1>7, <1>8, <1>9, <1>10, <1>11 DEF Inv

\* open() has a reference to the inode and will take it over or drop it.
LEMMA OpenInv == ASSUME Inv, NEW p \in Procs, sys_open(p) PROVE Inv'
<1> DEFINE c == do("open", 0, 0)
<1>1. todo \in Calls /\ todo[p] = <<>> /\ p \in live /\ c \in Op /\ c.op = "open"
  <2>1. todo \in Calls /\ todo[p] = <<>> /\ p \in live
    BY DEF Inv, TypeOK, Calls, sys_open, Idle
  <2>2. c \in Op
    BY DoOp
  <2>3. c.op = "open"
    BY DEF do
  <2> QED BY <2>1, <2>2, <2>3
<1>2. todo' = Set(todo, p, <<c>>)
  BY DEF sys_open, Then, Set
<1>3. /\ todo' \in Calls /\ Len(todo'[p]) # 2 /\ Pending(todo'[p]) = {c}
      /\ \A q \in Procs : q # p => todo'[q] = todo[q]
  BY <1>1, <1>2, Start
<1>4. ASSUME NEW Q PROVE Tally(todo, Q) \in Nat /\ Tally(todo', Q) \in Nat /\ Tally(todo', Q) = Tally(todo, Q) + One(c, Q)
  <2>1. /\ Tally(todo, Q) \in Nat /\ Tally(Set(todo, p, <<c>>), Q) \in Nat
        /\ Tally(Set(todo, p, <<c>>), Q) = Tally(todo, Q) + One(c, Q)
    BY <1>1, StartTally
  <2> QED BY <1>2, <2>1
<1>5. /\ iref' = iref + 1 /\ ref' = ref /\ type' = type /\ page' = page /\ writable' = writable
      /\ ofile' = ofile /\ live' = live /\ open' = open /\ panicked' = panicked
  BY DEF sys_open, fileVars
<1>6. TypeOK' /\ panicked' = 0
  <2>1. iref' \in Nat
    <3>1. iref \in Nat
      BY DEF Inv, TypeOK
    <3> QED BY <1>5, <3>1, SMTT(30), SMTT(60)
  <2> QED BY <1>3, <1>5, <2>1 DEF Inv, TypeOK, Calls
<1>7. TodoInv'
  BY <1>1, <1>3, <1>5 DEF Inv, TodoInv, OpOK
<1>8. ForkInv' /\ DeadInv'
  <2>1. Pending(todo[p]) = {}
    BY <1>1, PendingOf
  <2> QED BY <1>1, <1>3, <1>5, <2>1, KeepsFork
<1>9. DupInv'
  BY <1>1, <1>3, <1>5, KeepsDup
<1>10. FileInv'
  BY <1>5 DEF Inv, FileInv
<1>11. FreshInv'
  <2>1. \A f : ~Mentions(c, f)
    BY <1>1 DEF Mentions, HeldOps, UncountedOps
  <2>2. \A f \in Files : ~Touches(p, f) =>
             /\ ref'[f] = ref[f] /\ type'[f] = type[f]
             /\ \A q \in Procs : \A fd \in Fds : ofile'[q][fd] # f
             /\ \A u \in Pending(todo'[p]) : ~Mentions(u, f)
    BY <1>3, <1>5, <2>1 DEF Touches
  <2> QED BY <1>1, <1>3, <2>1, <2>2, KeepsFresh
<1>12. CountInv'
  <2>1. ASSUME NEW f \in Files
        PROVE  ref'[f] + Tally(todo', UncountedOps(f)) = Cardinality(FdsOf(ofile', f)) + Tally(todo', HeldOps(f))
    <3>1. One(c, UncountedOps(f)) = 0 /\ One(c, HeldOps(f)) = 0
      BY <1>1, Weights
    <3>2. Tally(todo', UncountedOps(f)) = Tally(todo, UncountedOps(f)) /\ Tally(todo', HeldOps(f)) = Tally(todo, HeldOps(f))
      <4> HIDE DEF c
      <4> QED BY <1>4, <3>1, SMTT(30), SMTT(60)
    <3> QED BY <1>5, <3>2 DEF Inv, CountInv
  <2>2. iref' = Cardinality(InodeFiles(type')) + Tally(todo', InodeOps)
    <3> DEFINE n == Cardinality(InodeFiles(type))
    <3>1. One(c, InodeOps) = 1 /\ iref = n + Tally(todo, InodeOps) /\ n \in Nat
      <4>1. InodeFiles(type) \in SUBSET Files
        BY DEF InodeFiles
      <4> QED BY <1>1, <4>1, Weights, FilesFinite DEF Inv, CountInv
    <3>2. iref' = n + Tally(todo', InodeOps)
      <4> HIDE DEF c, n
      <4> QED BY <1>4, <1>5, <3>1, SMTT(30), SMTT(60)
    <3> QED BY <1>5, <3>2
  <2>3. ASSUME NEW g \in Pages, NEW w \in {0, 1}
        PROVE  Cardinality(PipeFiles(type', page', writable', g, w)) + Tally(todo', CloseOps(g, w)) = Opened(open', g, w)
    <3>1. One(c, CloseOps(g, w)) = 0
      BY <1>1, Weights
    <3>2. Tally(todo', CloseOps(g, w)) = Tally(todo, CloseOps(g, w))
      <4> HIDE DEF c
      <4> QED BY <1>4, <3>1, SMTT(30)
    <3> QED BY <1>5, <3>2 DEF Inv, CountInv
  <2> QED BY <2>1, <2>2, <2>3 DEF CountInv
<1> QED BY <1>6, <1>7, <1>8, <1>9, <1>10, <1>11, <1>12 DEF Inv

\* pipe() starts with nothing.
LEMMA PipeInv == ASSUME Inv, NEW p \in Procs, sys_pipe(p) PROVE Inv'
<1> DEFINE c == do("pipe0", 0, 0)
<1>1. todo \in Calls /\ todo[p] = <<>> /\ p \in live /\ c \in Op /\ c.op = "pipe0"
  <2>1. todo \in Calls /\ todo[p] = <<>> /\ p \in live
    BY DEF Inv, TypeOK, Calls, sys_pipe, Idle
  <2>2. c \in Op
    BY DoOp
  <2>3. c.op = "pipe0"
    BY DEF do
  <2> QED BY <2>1, <2>2, <2>3
<1>2. todo' = Set(todo, p, <<c>>)
  BY DEF sys_pipe, Then, Set
<1>3. /\ todo' \in Calls /\ Len(todo'[p]) # 2 /\ Pending(todo'[p]) = {c}
      /\ \A q \in Procs : q # p => todo'[q] = todo[q]
  BY <1>1, <1>2, Start
<1>4. ASSUME NEW Q, One(c, Q) = 0 PROVE Tally(todo', Q) = Tally(todo, Q)
  <2>1. Tally(todo, Q) \in Nat /\ Tally(Set(todo, p, <<c>>), Q) = Tally(todo, Q) + One(c, Q)
    BY <1>1, StartTally
  <2> HIDE DEF c
  <2> QED BY <1>2, <1>4, <2>1, SMTT(30), SMTT(60)
<1>5. UNCHANGED <<ref, type, page, writable, ofile, live, open, iref, panicked>>
  BY DEF sys_pipe, fileVars
<1>6. TypeOK' /\ panicked' = 0
  BY <1>3, <1>5 DEF Inv, TypeOK, Calls
<1>7. TodoInv'
  BY <1>1, <1>3, <1>5 DEF Inv, TodoInv, OpOK
<1>8. ForkInv' /\ DeadInv'
  <2>1. Pending(todo[p]) = {}
    BY <1>1, PendingOf
  <2> QED BY <1>1, <1>3, <1>5, <2>1, KeepsFork
<1>9. DupInv'
  BY <1>1, <1>3, <1>5, KeepsDup
<1>10. FileInv'
  BY <1>5 DEF Inv, FileInv
<1>11. FreshInv'
  <2>1. \A f : ~Mentions(c, f)
    BY <1>1 DEF Mentions, HeldOps, UncountedOps
  <2>2. \A f \in Files : ~Touches(p, f) =>
             /\ ref'[f] = ref[f] /\ type'[f] = type[f]
             /\ \A q \in Procs : \A fd \in Fds : ofile'[q][fd] # f
             /\ \A u \in Pending(todo'[p]) : ~Mentions(u, f)
    BY <1>3, <1>5, <2>1 DEF Touches
  <2> QED BY <1>1, <1>3, <2>1, <2>2, KeepsFresh
<1>12. CountInv'
  <2>1. \A Q : One(c, Q) = 0 => Tally(todo', Q) = Tally(todo, Q)
    BY <1>4
  <2>2. ASSUME NEW f \in Files
        PROVE  ref'[f] + Tally(todo', UncountedOps(f)) = Cardinality(FdsOf(ofile', f)) + Tally(todo', HeldOps(f))
    <3>1. One(c, UncountedOps(f)) = 0 /\ One(c, HeldOps(f)) = 0
      BY <1>1, Weights
    <3> QED BY <1>5, <2>1, <3>1 DEF Inv, CountInv
  <2>3. Tally(todo', InodeOps) = Tally(todo, InodeOps)
    <3>1. One(c, InodeOps) = 0
      BY <1>1, Weights
    <3> QED BY <2>1, <3>1
  <2>4. ASSUME NEW g \in Pages, NEW w \in {0, 1} PROVE Tally(todo', CloseOps(g, w)) = Tally(todo, CloseOps(g, w))
    <3>1. One(c, CloseOps(g, w)) = 0
      BY <1>1, Weights
    <3> QED BY <2>1, <3>1
  <2> QED BY <1>5, <2>2, <2>3, <2>4, KeepsRest
<1> QED BY <1>6, <1>7, <1>8, <1>9, <1>10, <1>11, <1>12 DEF Inv

\* The descriptor that dup() has added is counted by the filedup() to come.
LEMMA DupsInv == ASSUME Inv, NEW p \in Procs, sys_dup(p) PROVE Inv'
<1>1. PICK fd \in Fds \ FreeFds(p) :
          /\ ofile' = [ofile EXCEPT ![p][Min(FreeFds(p))] = ofile[p][fd]]
          /\ Then(p, <<do("filedup", ofile[p][fd], 0)>>)
  BY DEF sys_dup
<1> DEFINE k == ofile[p][fd]
           n == Min(FreeFds(p))
           c == do("filedup", k, 0)
<1>2. /\ todo \in Calls /\ todo[p] = <<>> /\ p \in live /\ k \in Files /\ n \in Fds /\ ofile[p][n] = NoFile /\ n # fd
      /\ ofile \in Tables /\ k \in Slots /\ k # NoFile
  <2>1. todo \in Calls /\ todo[p] = <<>> /\ p \in live /\ ofile \in Tables
    BY DEF Inv, TypeOK, Calls, sys_dup, Idle, Tables, Slots
  <2>2. k \in Files /\ k # NoFile /\ k \in Slots
    BY <2>1, FileIsNone DEF FreeFds, Tables, Slots
  <2>3. n \in FreeFds(p)
    <3>1. FreeFds(p) \in SUBSET Fds /\ FreeFds(p) # {}
      BY DEF FreeFds, sys_dup
    <3> QED BY <3>1, LeastFree
  <2> QED BY <2>1, <2>2, <2>3 DEF FreeFds
<1> HIDE DEF k, n
<1>3. c \in Op /\ c.op = "filedup" /\ c.x = k
  <2>1. c \in Op
    BY <1>2, DoOp
  <2>2. c.op = "filedup" /\ c.x = k
    BY DEF do
  <2> QED BY <2>1, <2>2
<1>4. todo' = Set(todo, p, <<c>>) /\ ofile' = WithFd(ofile, p, n, k)
  BY <1>1 DEF Then, Set, WithFd, k, n
<1> HIDE DEF c
<1>5. /\ todo' \in Calls /\ Len(todo'[p]) # 2 /\ Pending(todo'[p]) = {c}
      /\ \A q \in Procs : q # p => todo'[q] = todo[q]
  BY <1>2, <1>3, <1>4, Start
<1>6. ASSUME NEW Q PROVE Tally(todo, Q) \in Nat /\ Tally(todo', Q) = Tally(todo, Q) + One(c, Q)
  <2>1. Tally(todo, Q) \in Nat /\ Tally(Set(todo, p, <<c>>), Q) = Tally(todo, Q) + One(c, Q)
    BY <1>2, <1>3, StartTally
  <2> QED BY <1>4, <2>1
<1>7. UNCHANGED <<ref, type, page, writable, live, open, iref, panicked>>
  BY DEF sys_dup, fileVars
<1>8. /\ ofile' \in Tables /\ ofile'[p][n] = k
      /\ \A q \in Procs : \A e \in Fds : q # p \/ e # n => ofile'[q][e] = ofile[q][e]
  BY <1>2, <1>4, FdSet, SMTT(30)
<1>9. \A q \in Procs : q # p => ofile'[q] = ofile[q]
  BY <1>2, <1>4, FdSet, SMTT(30), SMTT(60)
<1>10. TypeOK' /\ panicked' = 0
  BY <1>5, <1>7, <1>8 DEF Inv, TypeOK, Calls, Tables, Slots
<1>11. TodoInv'
  BY <1>2, <1>3, <1>5, <1>7 DEF Inv, TodoInv, OpOK
<1>12. ForkInv' /\ DeadInv'
  <2>1. Pending(todo[p]) = {}
    BY <1>2, PendingOf
  <2> QED BY <1>2, <1>3, <1>5, <1>7, <1>9, <2>1, KeepsFork
<1>13. DupInv'
  <2> SUFFICES ASSUME NEW q \in Procs, NEW o \in Pending(todo'[q]), o.op = "filedup"
               PROVE  \E fe, ff \in Fds : fe # ff /\ ofile'[q][fe] = o.x /\ ofile'[q][ff] = o.x
    BY DEF DupInv
  <2>1. CASE q = p
    <3>1. o.x = k
      BY <1>3, <1>5, <2>1
    <3>2. ofile'[p][fd] = k
      BY <1>2, <1>8 DEF k
    <3> QED BY <1>2, <1>8, <2>1, <3>1, <3>2
  <2>2. CASE q # p
    <3>1. \E fe, ff \in Fds : fe # ff /\ ofile[q][fe] = o.x /\ ofile[q][ff] = o.x
      BY <1>5, <2>2 DEF Inv, DupInv
    <3> QED BY <1>9, <2>2, <3>1
  <2> QED BY <2>1, <2>2
<1>14. FileInv'
  BY <1>7 DEF Inv, FileInv
<1>15. FreshInv'
  <2>1. \A f : Mentions(c, f) => f = k
    BY <1>3 DEF Mentions, HeldOps, UncountedOps
  <2>2. \A f \in Files : ~Touches(p, f) =>
             /\ ref'[f] = ref[f] /\ type'[f] = type[f]
             /\ \A q \in Procs : \A e \in Fds : ofile'[q][e] # f
             /\ \A u \in Pending(todo'[p]) : ~Mentions(u, f)
    <3> SUFFICES ASSUME NEW f \in Files, ~Touches(p, f)
                 PROVE  f # k /\ (\A q \in Procs : \A e \in Fds : ofile'[q][e] # f)
      BY <1>5, <1>7, <2>1
    <3>1. f # k
      BY DEF Touches, k
    <3> QED BY <1>8, <3>1 DEF Touches
  <2> QED BY <1>3, <1>5, <2>2, KeepsFresh
<1>16. CountInv'
  <2>1. ASSUME NEW Q, One(c, Q) = 0 PROVE Tally(todo', Q) = Tally(todo, Q)
    BY <1>6, <2>1, SMTT(30), SMTT(60)
  <2>2. ASSUME NEW f \in Files
        PROVE  ref'[f] + Tally(todo', UncountedOps(f)) = Cardinality(FdsOf(ofile', f)) + Tally(todo', HeldOps(f))
    <3> DEFINE r == ref[f]
               u == Tally(todo, UncountedOps(f))
               d == Cardinality(FdsOf(ofile, f))
               h == Tally(todo, HeldOps(f))
               e == IF k = f THEN 1 ELSE 0
    <3>1. One(c, UncountedOps(f)) = e /\ One(c, HeldOps(f)) = 0
      BY <1>3, Weights
    <3>2. Tally(todo', HeldOps(f)) = h /\ Tally(todo', UncountedOps(f)) = u + e /\ u \in Nat /\ h \in Nat
      BY <1>6, <2>1, <3>1
    <3>3. d \in Nat /\ Cardinality(FdsOf(ofile', f)) = d - 0 + e
      <4>1. NoFile # f
        BY FileIsNone
      <4>2. d \in Nat /\ Cardinality(FdsOf(WithFd(ofile, p, n, k), f)) = d - (IF ofile[p][n] = f THEN 1 ELSE 0) + e
        BY <1>2, FdCount, SMTT(30), SMTT(60)
      <4> QED BY <1>2, <1>4, <4>1, <4>2
    <3>4. r + u = d + h /\ r \in Nat /\ e \in {0, 1} /\ ref'[f] = r
      BY <1>7 DEF Inv, CountInv, TypeOK
    <3> HIDE DEF r, u, d, h, e
    <3> QED BY <3>2, <3>3, <3>4, SMTT(30), SMTT(60)
  <2>3. Tally(todo', InodeOps) = Tally(todo, InodeOps)
    <3>1. One(c, InodeOps) = 0
      BY <1>3, Weights
    <3> QED BY <2>1, <3>1
  <2>4. ASSUME NEW g \in Pages, NEW w \in {0, 1} PROVE Tally(todo', CloseOps(g, w)) = Tally(todo, CloseOps(g, w))
    <3>1. One(c, CloseOps(g, w)) = 0
      BY <1>3, Weights
    <3> QED BY <2>1, <3>1
  <2> QED BY <1>7, <2>2, <2>3, <2>4, KeepsRest
<1> QED BY <1>10, <1>11, <1>12, <1>13, <1>14, <1>15, <1>16 DEF Inv

\* The reference of a descriptor that close() has cleared is the call's own.
LEMMA CloseInv == ASSUME Inv, NEW p \in Procs, sys_close(p) PROVE Inv'
<1>1. PICK fd \in Fds \ FreeFds(p) :
          /\ ofile' = [ofile EXCEPT ![p][fd] = NoFile]
          /\ Then(p, <<closing(ofile[p][fd])>>)
  BY DEF sys_close
<1> DEFINE k == ofile[p][fd]
           c == closing(k)
<1>2. /\ todo \in Calls /\ todo[p] = <<>> /\ p \in live /\ k \in Files
      /\ ofile \in Tables /\ NoFile \in Slots
  <2>1. todo \in Calls /\ todo[p] = <<>> /\ p \in live /\ ofile \in Tables
    BY DEF Inv, TypeOK, Calls, sys_close, Idle, Tables, Slots
  <2>2. k \in Files /\ NoFile \in Slots
    BY <2>1, FileIsNone DEF FreeFds, Tables, Slots
  <2> QED BY <2>1, <2>2
<1> HIDE DEF k
<1>3. c \in Op /\ c.op = "fileclose" /\ c.x = k
  <2>1. c \in Op
    BY <1>2, DoOp
  <2>2. c.op = "fileclose" /\ c.x = k
    BY DEF closing, do
  <2> QED BY <2>1, <2>2
<1>4. todo' = Set(todo, p, <<c>>) /\ ofile' = WithFd(ofile, p, fd, NoFile)
  BY <1>1 DEF Then, Set, WithFd, k
<1> HIDE DEF c
<1>5. /\ todo' \in Calls /\ Len(todo'[p]) # 2 /\ Pending(todo'[p]) = {c}
      /\ \A q \in Procs : q # p => todo'[q] = todo[q]
  BY <1>2, <1>3, <1>4, Start
<1>6. ASSUME NEW Q PROVE Tally(todo, Q) \in Nat /\ Tally(todo', Q) = Tally(todo, Q) + One(c, Q)
  <2>1. Tally(todo, Q) \in Nat /\ Tally(Set(todo, p, <<c>>), Q) = Tally(todo, Q) + One(c, Q)
    BY <1>2, <1>3, StartTally
  <2> QED BY <1>4, <2>1
<1>7. UNCHANGED <<ref, type, page, writable, live, open, iref, panicked>>
  BY DEF sys_close, fileVars
<1>8. /\ ofile' \in Tables /\ ofile'[p][fd] = NoFile
      /\ \A q \in Procs : \A e \in Fds : q # p \/ e # fd => ofile'[q][e] = ofile[q][e]
  BY <1>2, <1>4, FdSet, SMTT(30)
<1>9. \A q \in Procs : q # p => ofile'[q] = ofile[q]
  BY <1>2, <1>4, FdSet, SMTT(30)
<1>10. TypeOK' /\ panicked' = 0
  BY <1>5, <1>7, <1>8 DEF Inv, TypeOK, Calls, Tables, Slots
<1>11. TodoInv'
  BY <1>2, <1>3, <1>5, <1>7 DEF Inv, TodoInv, OpOK
<1>12. ForkInv' /\ DeadInv'
  <2>1. Pending(todo[p]) = {}
    BY <1>2, PendingOf
  <2> QED BY <1>2, <1>3, <1>5, <1>7, <1>9, <2>1, KeepsFork
<1>13. DupInv'
  BY <1>3, <1>5, <1>9, KeepsDup
<1>14. FileInv'
  BY <1>7 DEF Inv, FileInv
<1>15. FreshInv'
  <2>1. \A f : Mentions(c, f) => f = k
    BY <1>3 DEF Mentions, HeldOps, UncountedOps
  <2>2. \A f \in Files : ~Touches(p, f) =>
             /\ ref'[f] = ref[f] /\ type'[f] = type[f]
             /\ \A q \in Procs : \A e \in Fds : ofile'[q][e] # f
             /\ \A u \in Pending(todo'[p]) : ~Mentions(u, f)
    <3> SUFFICES ASSUME NEW f \in Files, ~Touches(p, f)
                 PROVE  f # k /\ (\A q \in Procs : \A e \in Fds : ofile'[q][e] # f)
      BY <1>5, <1>7, <2>1
    <3>1. f # k
      BY DEF Touches, k
    <3>2. f # NoFile
      BY FileIsNone
    <3> QED BY <1>8, <3>1, <3>2 DEF Touches
  <2> QED BY <1>3, <1>5, <2>2, KeepsFresh
<1>16. CountInv'
  <2>1. ASSUME NEW Q, One(c, Q) = 0 PROVE Tally(todo', Q) = Tally(todo, Q)
    BY <1>6, <2>1, SMTT(30)
  <2>2. ASSUME NEW f \in Files
        PROVE  ref'[f] + Tally(todo', UncountedOps(f)) = Cardinality(FdsOf(ofile', f)) + Tally(todo', HeldOps(f))
    <3> DEFINE r == ref[f]
               u == Tally(todo, UncountedOps(f))
               d == Cardinality(FdsOf(ofile, f))
               h == Tally(todo, HeldOps(f))
               e == IF k = f THEN 1 ELSE 0
    <3>1. One(c, UncountedOps(f)) = 0 /\ One(c, HeldOps(f)) = e
      BY <1>3, Weights
    <3>2. Tally(todo', HeldOps(f)) = h + e /\ Tally(todo', UncountedOps(f)) = u /\ u \in Nat /\ h \in Nat
      BY <1>6, <2>1, <3>1
    <3>3. d \in Nat /\ Cardinality(FdsOf(ofile', f)) = d - e + 0
      <4>1. NoFile # f
        BY FileIsNone
      <4>2. d \in Nat /\ Cardinality(FdsOf(WithFd(ofile, p, fd, NoFile), f)) = d - (IF ofile[p][fd] = f THEN 1 ELSE 0) + (IF NoFile = f THEN 1 ELSE 0)
        BY <1>2, FdCount, SMTT(30), SMTT(60)
      <4> QED BY <1>2, <1>4, <4>1, <4>2 DEF k
    <3>4. r + u = d + h /\ r \in Nat /\ e \in {0, 1} /\ ref'[f] = r
      BY <1>7 DEF Inv, CountInv, TypeOK
    <3> HIDE DEF r, u, d, h, e
    <3> QED BY <3>2, <3>3, <3>4, SMTT(30), SMTT(60)
  <2>3. Tally(todo', InodeOps) = Tally(todo, InodeOps)
    <3>1. One(c, InodeOps) = 0
      BY <1>3, Weights
    <3> QED BY <2>1, <3>1
  <2>4. ASSUME NEW g \in Pages, NEW w \in {0, 1} PROVE Tally(todo', CloseOps(g, w)) = Tally(todo, CloseOps(g, w))
    <3>1. One(c, CloseOps(g, w)) = 0
      BY <1>3, Weights
    <3> QED BY <2>1, <3>1
  <2> QED BY <1>7, <2>2, <2>3, <2>4, KeepsRest
<1> QED BY <1>10, <1>11, <1>12, <1>13, <1>14, <1>15, <1>16 DEF Inv

\* fork() chooses a process that does not exist and has nothing left to do.
LEMMA ForkStartInv == ASSUME Inv, NEW p \in Procs, fork(p) PROVE Inv'
<1>1. PICK q \in Procs \ live : /\ todo[q] = <<>>
                                /\ \A r \in Procs : Busy(r, "fork") => Head(todo[r]).x # q
                                /\ Then(p, <<do("fork", q, 0)>>)
  BY DEF fork
<1> DEFINE c == do("fork", q, 0)
<1>2. todo \in Calls /\ todo[p] = <<>> /\ p \in live /\ q # p /\ 0 \in Fds
  <2>1. todo \in Calls /\ todo[p] = <<>> /\ p \in live
    BY DEF Inv, TypeOK, Calls, fork, Idle
  <2>2. 0 \in Fds
    BY FileAssumption, SMTT(30), SMTT(60) DEF Fds
  <2> QED BY <1>1, <2>1, <2>2
<1>3. c \in Op /\ c.op = "fork" /\ c.x = q /\ c.y = 0
  <2>1. c \in Op
    BY <1>2, DoOp
  <2>2. c.op = "fork" /\ c.x = q /\ c.y = 0
    BY DEF do
  <2> QED BY <2>1, <2>2
<1>4. todo' = Set(todo, p, <<c>>)
  BY <1>1 DEF Then, Set
<1> HIDE DEF c
<1>5. /\ todo' \in Calls /\ Len(todo'[p]) # 2 /\ Pending(todo'[p]) = {c}
      /\ \A r \in Procs : r # p => todo'[r] = todo[r]
  BY <1>2, <1>3, <1>4, Start
<1>6. ASSUME NEW Q, One(c, Q) = 0 PROVE Tally(todo', Q) = Tally(todo, Q)
  <2>1. Tally(todo, Q) \in Nat /\ Tally(Set(todo, p, <<c>>), Q) = Tally(todo, Q) + One(c, Q)
    BY <1>2, <1>3, StartTally
  <2> QED BY <1>4, <1>6, <2>1, SMTT(30)
<1>7. UNCHANGED <<ref, type, page, writable, ofile, live, open, iref, panicked>>
  BY DEF fork, fileVars
<1>8. TypeOK' /\ panicked' = 0
  BY <1>5, <1>7 DEF Inv, TypeOK, Calls
<1>9. TodoInv'
  <2>1. OpOK(c)
    BY <1>1, <1>2, <1>3 DEF OpOK
  <2> QED BY <1>2, <1>3, <1>5, <1>7, <2>1, KeepsTodo
<1>10. \A r \in Procs : \A o \in Pending(todo[r]) : o.op = "fork" => o.x # q
  <2> SUFFICES ASSUME NEW r \in Procs, NEW o \in Pending(todo[r]), o.op = "fork" PROVE o.x # q
    OBVIOUS
  <2>1. todo[r] # <<>>
    BY PendingOf
  <2>2. Pending(todo[r]) = {Head(todo[r])}
    <3>1. /\ \A u \in Pending(Tail(todo[r])) : u.op \in {"fileclose", "iput", "exit"}
          /\ Pending(todo[r]) = Plus(Head(todo[r]), Pending(Popped(todo, r)[r])) /\ Popped(todo, r)[r] = Tail(todo[r])
      BY <1>2, <2>1, Heads, Pops
    <3>2. o = Head(todo[r])
      BY <3>1 DEF Plus
    <3>3. Head(todo[r]).op \notin {"fileclose", "iput", "pipeclose"}
      BY <3>2
    <3> QED BY <2>1, <3>3, Heads
  <2>3. o = Head(todo[r])
    BY <2>2
  <2> QED BY <1>1, <2>1, <2>3 DEF Busy
<1>11. ForkInv'
  <2> SUFFICES ASSUME NEW s \in Procs, NEW o \in Pending(todo'[s]), o.op = "fork"
               PROVE  /\ o.x \notin live' /\ todo'[o.x] = <<>>
                      /\ \A r \in Procs : \A u \in Pending(todo'[r]) : u.op = "fork" /\ u.x = o.x => r = s
                      /\ \A fd \in Fds : ofile'[o.x][fd] # NoFile => fd < o.y
    BY DEF ForkInv
  <2>1. CASE s = p
    <3>1. o = c
      BY <1>5, <2>1
    <3>2. \A fd \in Fds : ofile[q][fd] = NoFile
      <4>1. Pending(todo[q]) = {}
        BY <1>1, PendingOf
      <4> QED BY <1>1, <1>10, <4>1 DEF Inv, DeadInv
    <3>3. \A r \in Procs : \A u \in Pending(todo'[r]) : u.op = "fork" /\ u.x = q => r = p
      BY <1>5, <1>10
    <3> QED BY <1>1, <1>2, <1>3, <1>5, <1>7, <2>1, <3>1, <3>2, <3>3
  <2>2. CASE s # p
    <3>1. /\ o \in Pending(todo[s]) /\ o.x # q /\ o.x \notin live /\ todo[o.x] = <<>> /\ o.x # p /\ o.x \in Procs
      <4>1. o \in Pending(todo[s])
        BY <1>5, <2>2
      <4>2. o.x \notin live /\ todo[o.x] = <<>>
        BY <4>1 DEF Inv, ForkInv
      <4>3. o.x \in Procs
        BY <4>1 DEF Inv, TodoInv, OpOK
      <4> QED BY <1>2, <1>10, <4>1, <4>2, <4>3
    <3>2. \A r \in Procs : \A u \in Pending(todo'[r]) : u.op = "fork" /\ u.x = o.x => r = s
      <4> SUFFICES ASSUME NEW r \in Procs, NEW u \in Pending(todo'[r]), u.op = "fork", u.x = o.x PROVE r = s
        OBVIOUS
      <4>1. r # p
        BY <1>3, <1>5, <3>1
      <4>2. u \in Pending(todo[r])
        BY <1>5, <4>1
      <4> QED BY <3>1, <4>2 DEF Inv, ForkInv
    <3>3. \A fd \in Fds : ofile[o.x][fd] # NoFile => fd < o.y
      BY <3>1 DEF Inv, ForkInv
    <3> QED BY <1>5, <1>7, <3>1, <3>2, <3>3
  <2> QED BY <2>1, <2>2
<1>12. DeadInv'
  <2> SUFFICES ASSUME NEW s \in Procs \ live, NEW fd \in Fds, ofile[s][fd] # NoFile
               PROVE  \/ \E r \in Procs : \E o \in Pending(todo'[r]) : o.op = "fork" /\ o.x = s
                      \/ \E o \in Pending(todo'[s]) : o.op = "exit" /\ fd >= o.y
    BY <1>7 DEF DeadInv
  <2>1. \/ \E r \in Procs : \E o \in Pending(todo[r]) : o.op = "fork" /\ o.x = s
        \/ \E o \in Pending(todo[s]) : o.op = "exit" /\ fd >= o.y
    BY DEF Inv, DeadInv
  <2>2. \A r \in Procs : \A o \in Pending(todo[r]) : o \in Pending(todo'[r])
    <3>1. Pending(todo[p]) = {}
      BY <1>2, PendingOf
    <3> QED BY <1>5, <3>1
  <2> QED BY <2>1, <2>2
<1>13. DupInv'
  BY <1>3, <1>5, <1>7, KeepsDup
<1>14. FileInv'
  BY <1>7 DEF Inv, FileInv
<1>15. FreshInv'
  <2>1. \A f : ~Mentions(c, f)
    BY <1>3 DEF Mentions, HeldOps, UncountedOps
  <2>2. \A f \in Files : ~Touches(p, f) =>
             /\ ref'[f] = ref[f] /\ type'[f] = type[f]
             /\ \A r \in Procs : \A fd \in Fds : ofile'[r][fd] # f
             /\ \A u \in Pending(todo'[p]) : ~Mentions(u, f)
    BY <1>5, <1>7, <2>1 DEF Touches
  <2> QED BY <1>3, <1>5, <2>1, <2>2, KeepsFresh
<1>16. CountInv'
  <2>1. ASSUME NEW f \in Files
        PROVE  ref'[f] + Tally(todo', UncountedOps(f)) = Cardinality(FdsOf(ofile', f)) + Tally(todo', HeldOps(f))
    <3>1. One(c, UncountedOps(f)) = 0 /\ One(c, HeldOps(f)) = 0
      BY <1>3, Weights
    <3>2. Tally(todo', UncountedOps(f)) = Tally(todo, UncountedOps(f)) /\ Tally(todo', HeldOps(f)) = Tally(todo, HeldOps(f))
      BY <1>6, <3>1
    <3> QED BY <1>7, <3>2 DEF Inv, CountInv
  <2>2. Tally(todo', InodeOps) = Tally(todo, InodeOps)
    <3>1. One(c, InodeOps) = 0
      BY <1>3, Weights
    <3> QED BY <1>6, <3>1
  <2>3. ASSUME NEW g \in Pages, NEW w \in {0, 1} PROVE Tally(todo', CloseOps(g, w)) = Tally(todo, CloseOps(g, w))
    <3>1. One(c, CloseOps(g, w)) = 0
      BY <1>3 DEF One, CloseOps
    <3> QED BY <1>6, <3>1
  <2> QED BY <1>7, <2>1, <2>2, <2>3, KeepsRest
<1> QED BY <1>8, <1>9, <1>11, <1>12, <1>13, <1>14, <1>15, <1>16 DEF Inv

\* exit() has all descriptors of its process to close.
LEMMA ExitInv == ASSUME Inv, NEW p \in Procs, exit(p) PROVE Inv'
<1> DEFINE c == do("exit", 0, 0)
<1>1. todo \in Calls /\ todo[p] = <<>> /\ p \in live /\ 0 \in Fds
  <2>1. todo \in Calls /\ todo[p] = <<>> /\ p \in live
    BY DEF Inv, TypeOK, Calls, exit, Idle
  <2>2. 0 \in Fds
    BY FileAssumption, SMTT(30), SMTT(60) DEF Fds
  <2> QED BY <2>1, <2>2
<1>2. c \in Op /\ c.op = "exit" /\ c.y = 0
  <2>1. c \in Op
    BY DoOp
  <2>2. c.op = "exit" /\ c.y = 0
    BY DEF do
  <2> QED BY <2>1, <2>2
<1>3. todo' = Set(todo, p, <<c>>) /\ live' = live \ {p}
  BY DEF exit, Then, Set
<1> HIDE DEF c
<1>4. /\ todo' \in Calls /\ Len(todo'[p]) # 2 /\ Pending(todo'[p]) = {c}
      /\ \A r \in Procs : r # p => todo'[r] = todo[r]
  BY <1>1, <1>2, <1>3, Start
<1>5. ASSUME NEW Q, One(c, Q) = 0 PROVE Tally(todo', Q) = Tally(todo, Q)
  <2>1. Tally(todo, Q) \in Nat /\ Tally(Set(todo, p, <<c>>), Q) = Tally(todo, Q) + One(c, Q)
    BY <1>1, <1>2, StartTally
  <2> QED BY <1>3, <1>5, <2>1, SMTT(30)
<1>6. UNCHANGED <<ref, type, page, writable, ofile, open, iref, panicked>>
  BY DEF exit, fileVars
<1>7. TypeOK' /\ panicked' = 0
  BY <1>3, <1>4, <1>6 DEF Inv, TypeOK, Calls
<1>8. TodoInv'
  <2>1. OpOK(c)
    BY <1>1, <1>2 DEF OpOK
  <2> QED BY <1>2, <1>3, <1>4, <2>1, KeepsTodo
<1>9. ForkInv'
  <2> SUFFICES ASSUME NEW s \in Procs, NEW o \in Pending(todo'[s]), o.op = "fork"
               PROVE  /\ o.x \notin live' /\ todo'[o.x] = <<>>
                      /\ \A r \in Procs : \A u \in Pending(todo'[r]) : u.op = "fork" /\ u.x = o.x => r = s
                      /\ \A fd \in Fds : ofile'[o.x][fd] # NoFile => fd < o.y
    BY DEF ForkInv
  <2>1. \A r \in Procs : \A u \in Pending(todo'[r]) : u.op = "fork" => r # p /\ u \in Pending(todo[r])
    BY <1>2, <1>4
  <2>2. o \in Pending(todo[s])
    BY <2>1
  <2>3. /\ o.x \notin live /\ todo[o.x] = <<>>
        /\ \A r \in Procs : \A u \in Pending(todo[r]) : u.op = "fork" /\ u.x = o.x => r = s
        /\ \A fd \in Fds : ofile[o.x][fd] # NoFile => fd < o.y
    BY <2>2 DEF Inv, ForkInv
  <2>4. o.x \in Procs
    BY <2>2 DEF Inv, TodoInv, OpOK
  <2>5. o.x # p /\ todo'[o.x] = <<>> /\ o.x \notin live'
    BY <1>1, <1>3, <1>4, <2>3, <2>4
  <2> QED BY <1>6, <2>1, <2>3, <2>5
<1>10. DeadInv'
  <2> SUFFICES ASSUME NEW s \in Procs \ live', NEW fd \in Fds, ofile[s][fd] # NoFile
               PROVE  \/ \E r \in Procs : \E o \in Pending(todo'[r]) : o.op = "fork" /\ o.x = s
                      \/ \E o \in Pending(todo'[s]) : o.op = "exit" /\ fd >= o.y
    BY <1>6 DEF DeadInv
  <2>1. CASE s = p
    <3>1. fd >= 0
      BY FileAssumption, SMTT(30), SMTT(60) DEF Fds
    <3> QED BY <1>2, <1>4, <2>1, <3>1
  <2>2. CASE s # p
    <3>1. \/ \E r \in Procs : \E o \in Pending(todo[r]) : o.op = "fork" /\ o.x = s
          \/ \E o \in Pending(todo[s]) : o.op = "exit" /\ fd >= o.y
      BY <1>3, <2>2 DEF Inv, DeadInv
    <3>2. \A r \in Procs : \A o \in Pending(todo[r]) : o \in Pending(todo'[r])
      <4>1. Pending(todo[p]) = {}
        BY <1>1, PendingOf
      <4> QED BY <1>4, <4>1
    <3> QED BY <3>1, <3>2
  <2> QED BY <2>1, <2>2
<1>11. DupInv'
  BY <1>2, <1>4, <1>6, KeepsDup
<1>12. FileInv'
  BY <1>6 DEF Inv, FileInv
<1>13. FreshInv'
  <2>1. \A f : ~Mentions(c, f)
    BY <1>2 DEF Mentions, HeldOps, UncountedOps
  <2>2. \A f \in Files : ~Touches(p, f) =>
             /\ ref'[f] = ref[f] /\ type'[f] = type[f]
             /\ \A r \in Procs : \A fd \in Fds : ofile'[r][fd] # f
             /\ \A u \in Pending(todo'[p]) : ~Mentions(u, f)
    BY <1>4, <1>6, <2>1 DEF Touches
  <2> QED BY <1>2, <1>4, <2>1, <2>2, KeepsFresh
<1>14. CountInv'
  <2>1. ASSUME NEW f \in Files
        PROVE  ref'[f] + Tally(todo', UncountedOps(f)) = Cardinality(FdsOf(ofile', f)) + Tally(todo', HeldOps(f))
    <3>1. One(c, UncountedOps(f)) = 0 /\ One(c, HeldOps(f)) = 0
      BY <1>2, Weights
    <3>2. Tally(todo', UncountedOps(f)) = Tally(todo, UncountedOps(f)) /\ Tally(todo', HeldOps(f)) = Tally(todo, HeldOps(f))
      BY <1>5, <3>1
    <3> QED BY <1>6, <3>2 DEF Inv, CountInv
  <2>2. Tally(todo', InodeOps) = Tally(todo, InodeOps)
    <3>1. One(c, InodeOps) = 0
      BY <1>2, Weights
    <3> QED BY <1>5, <3>1
  <2>3. ASSUME NEW g \in Pages, NEW w \in {0, 1} PROVE Tally(todo', CloseOps(g, w)) = Tally(todo, CloseOps(g, w))
    <3>1. One(c, CloseOps(g, w)) = 0
      BY <1>2 DEF One, CloseOps
    <3> QED BY <1>5, <3>1
  <2> QED BY <1>6, <2>1, <2>2, <2>3, KeepsRest
<1> QED BY <1>7, <1>8, <1>9, <1>10, <1>11, <1>12, <1>13, <1>14 DEF Inv

\* filedup() counts the descriptor that dup() has added.
LEMMA FiledupInv == ASSUME Inv, NEW p \in Procs, filedup(p) PROVE Inv'
<1> DEFINE h == Head(todo[p])
           k == Head(todo[p]).x
<1>1. todo[p] # <<>> /\ h.op = "filedup"
  BY DEF filedup, Busy
<1>2. /\ todo \in Calls /\ h \in Op /\ h \in Pending(todo[p]) /\ OpOK(h)
      /\ todo[p] = <<h>> /\ Tail(todo[p]) = <<>> /\ Pending(todo[p]) = {h}
  BY <1>1, Heads
<1>3. k \in Files /\ h.x = k
  BY <1>1, <1>2 DEF OpOK
<1>4. todo' = Set(todo, p, <<>>)
  <2>1. <<>> \o <<>> = <<>>
    BY SMTT(30), SMTT(60)
  <2> QED BY <1>2, <2>1 DEF filedup, Continue, Then, Set
<1>5. /\ todo' \in Calls /\ Len(todo'[p]) # 2 /\ Pending(todo'[p]) = {}
      /\ \A q \in Procs : q # p => todo'[q] = todo[q]
  BY <1>2, <1>4, Finish
<1>6. ASSUME NEW Q PROVE Tally(todo, Q) \in Nat /\ Tally(todo', Q) \in Nat /\ Tally(todo, Q) = Tally(todo', Q) + One(h, Q)
  <2>1. /\ Tally(todo, Q) \in Nat /\ Tally(Set(todo, p, <<>>), Q) \in Nat
        /\ Tally(todo, Q) = Tally(Set(todo, p, <<>>), Q) + One(h, Q)
    BY <1>2, FinishTally
  <2> QED BY <1>4, <2>1
<1>7. UNCHANGED <<type, page, writable, ofile, live, open, iref>> /\ ref' = [ref EXCEPT ![k] = ref[k] + 1]
  BY DEF filedup, fileVars
<1>8. ~(ref[k] < 1) /\ Mentions(h, k)
  <2>1. Mentions(h, k)
    BY <1>1, <1>2, <1>3 DEF Mentions, UncountedOps
  <2> QED BY <1>2, <1>3, <2>1, RefPositive
<1>9. panicked' = 0
  BY <1>8 DEF filedup
<1> HIDE DEF h, k
<1>10. ref \in [Files -> Nat] /\ ref' \in [Files -> Nat] /\ ref'[k] = ref[k] + 1 /\ \A f \in Files : f # k => ref'[f] = ref[f]
  <2>1. ref \in [Files -> Nat] /\ ref[k] \in Nat
    BY <1>3 DEF Inv, TypeOK
  <2>2. ref[k] + 1 \in Nat
    BY <2>1, SMTT(30), SMTT(60)
  <2> QED BY <1>3, <1>7, <2>1, <2>2
<1>11. TypeOK'
  BY <1>5, <1>7, <1>9, <1>10 DEF Inv, TypeOK, Calls
<1>12. TodoInv'
  BY <1>5, <1>7, KeepsTodo
<1>13. ForkInv' /\ DeadInv'
  BY <1>1, <1>2, <1>5, <1>7, KeepsFork
<1>14. DupInv'
  BY <1>5, <1>7, KeepsDup
<1>15. FileInv'
  <2>1. ref'[k] # 0
    <3>1. ref[k] \in Nat
      BY <1>3, <1>10
    <3> QED BY <1>10, <3>1, SMTT(30), SMTT(60)
  <2> QED BY <1>7, <1>10, <2>1 DEF Inv, FileInv
<1>16. FreshInv'
  <2>1. \A f \in Files : ~Touches(p, f) =>
             /\ ref'[f] = ref[f] /\ type'[f] = type[f]
             /\ \A r \in Procs : \A fd \in Fds : ofile'[r][fd] # f
             /\ \A u \in Pending(todo'[p]) : ~Mentions(u, f)
    <3> SUFFICES ASSUME NEW f \in Files, ~Touches(p, f)
                 PROVE  f # k /\ (\A q \in Procs : \A e \in Fds : ofile[q][e] # f)
      BY <1>5, <1>7, <1>10
    <3> QED BY <1>2, <1>8 DEF Touches
  <2> QED BY <1>5, <2>1, KeepsFresh
<1>17. CountInv'
  <2>1. ASSUME NEW Q, One(h, Q) = 0 PROVE Tally(todo', Q) = Tally(todo, Q)
    BY <1>6, <2>1, SMTT(30)
  <2>2. ASSUME NEW f \in Files
        PROVE  ref'[f] + Tally(todo', UncountedOps(f)) = Cardinality(FdsOf(ofile', f)) + Tally(todo', HeldOps(f))
    <3> DEFINE r == ref[f]
               u == Tally(todo', UncountedOps(f))
               n == Cardinality(FdsOf(ofile, f)) + Tally(todo, HeldOps(f))
               e == IF k = f THEN 1 ELSE 0
    <3>1. One(h, UncountedOps(f)) = e /\ One(h, HeldOps(f)) = 0
      BY <1>1, <1>2, <1>3, Weights DEF h
    <3>2. Tally(todo', HeldOps(f)) = Tally(todo, HeldOps(f)) /\ Tally(todo, UncountedOps(f)) = u + e /\ u \in Nat
      BY <1>6, <2>1, <3>1
    <3>3. r + (u + e) = n /\ r \in Nat /\ ref'[f] = r + e
      <4>1. r \in Nat /\ (k = f => ref'[f] = r + 1) /\ (k # f => ref'[f] = r)
        BY <1>10
      <4>2. ref'[f] = r + e
        <5> HIDE DEF r
        <5> QED BY <4>1, SMTT(30), SMTT(60)
      <4> QED BY <3>2, <4>1, <4>2 DEF Inv, CountInv
    <3>4. e \in Nat
      BY SMTT(30), SMTT(60)
    <3>5. ref'[f] + u = n
      <4> HIDE DEF r, u, n, e
      <4> QED BY <3>2, <3>3, <3>4, SMTT(30), SMTT(60)
    <3> QED BY <1>7, <3>2, <3>5
  <2>3. Tally(todo', InodeOps) = Tally(todo, InodeOps)
    <3>1. One(h, InodeOps) = 0
      BY <1>1, <1>2, Weights DEF h
    <3> QED BY <2>1, <3>1
  <2>4. ASSUME NEW g \in Pages, NEW w \in {0, 1} PROVE Tally(todo', CloseOps(g, w)) = Tally(todo, CloseOps(g, w))
    <3>1. One(h, CloseOps(g, w)) = 0
      BY <1>1 DEF One, CloseOps, h
    <3> QED BY <2>1, <3>1
  <2> QED BY <1>7, <2>2, <2>3, <2>4, KeepsRest
<1> QED BY <1>9, <1>11, <1>12, <1>13, <1>14, <1>15, <1>16, <1>17 DEF Inv

\* The closing of a file is done, and the call goes on;
LEMMA Popping ==
  ASSUME Inv, NEW p \in Procs, todo[p] # <<>>, Head(todo[p]).op \in {"fileclose", "iput", "pipeclose"},
         todo' = Popped(todo, p), UNCHANGED <<ofile, live>>
  PROVE  /\ todo' \in Calls /\ TodoInv' /\ ForkInv' /\ DeadInv' /\ DupInv'
         /\ \A q \in Procs : q # p => todo'[q] = todo[q]
         /\ \A o \in Pending(todo'[p]) : o \in Pending(todo[p]) /\ o.op \in {"fileclose", "iput", "exit"}
<1> DEFINE h == Head(todo[p])
<1>1. todo \in Calls
  BY Heads
<1>2. /\ todo' \in Calls /\ Len(todo'[p]) # 2 /\ todo'[p] = Tail(todo[p]) /\ \A q \in Procs : q # p => todo'[q] = todo[q]
  BY <1>1, Pops
<1>3. Pending(todo[p]) = Plus(h, Pending(todo'[p]))
  BY <1>1, Pops
<1>4. \A o \in Pending(todo'[p]) : o \in Pending(todo[p]) /\ o.op \in {"fileclose", "iput", "exit"}
  BY <1>2, Heads
<1>5. \A o \in Pending(todo[p]) : o.op \in {"fork", "exit"} => o \in Pending(todo'[p])
  BY <1>3 DEF Plus
<1>6. TodoInv'
  <2>1. \A o \in Pending(todo'[p]) : OpOK(o)
    BY <1>4 DEF Inv, TodoInv
  <2>2. p \in live => \A o \in Pending(todo'[p]) : o.op # "exit"
    BY <1>4 DEF Inv, TodoInv
  <2>3. \A o \in Pending(todo'[p]) : o.op \in {"fileclose", "iput", "pipeclose", "exit"}
    BY <1>4
  <2> QED BY <1>2, <2>1, <2>2, <2>3, KeepsTodo
<1>7. ForkInv' /\ DeadInv'
  BY <1>2, <1>4, <1>5, KeepsFork
<1>8. DupInv'
  BY <1>2, <1>4, KeepsDup
<1> QED BY <1>2, <1>4, <1>6, <1>7, <1>8

\* or it was the last reference, and c closes what the file stood for.
LEMMA Swapping ==
  ASSUME Inv, NEW p \in Procs, todo[p] # <<>>, Head(todo[p]).op \in {"fileclose", "iput", "pipeclose"}, NEW c \in Op,
         OpOK(c), c.op \in {"iput", "pipeclose"}, todo' = Swapped(todo, p, c), UNCHANGED <<ofile, live>>
  PROVE  /\ todo' \in Calls /\ TodoInv' /\ ForkInv' /\ DeadInv' /\ DupInv'
         /\ \A q \in Procs : q # p => todo'[q] = todo[q]
         /\ \A o \in Pending(todo'[p]) : o = c \/ (o \in Pending(todo[p]) /\ o.op \in {"fileclose", "iput", "exit"})
<1> DEFINE h == Head(todo[p])
<1>1. todo \in Calls
  BY Heads
<1>2. /\ todo' \in Calls /\ todo'[p][1] = c /\ \A q \in Procs : q # p => todo'[q] = todo[q]
  <2>1. Swapped(todo, p, c) \in Calls /\ \A q \in Procs : q # p => Swapped(todo, p, c)[q] = todo[q]
    BY <1>1, Swaps
  <2>2. Swapped(todo, p, c)[p][1] = c
    BY <1>1, Swaps
  <2> QED BY <2>1, <2>2
<1>3. /\ Pending(todo[p]) = Plus(h, Pending(Tail(todo[p]))) /\ Pending(todo'[p]) = Plus(c, Pending(Tail(todo[p])))
      /\ Len(todo'[p]) = 2 => todo'[p][2] \in Pending(Tail(todo[p]))
  <2>1. Pending(todo[p]) = Plus(h, Pending(Tail(todo[p])))
    BY <1>1, Swaps
  <2>2. Pending(Swapped(todo, p, c)[p]) = Plus(c, Pending(Tail(todo[p])))
    BY <1>1, Swaps
  <2>3. Len(Swapped(todo, p, c)[p]) = 2 => Swapped(todo, p, c)[p][2] \in Pending(Tail(todo[p]))
    BY <1>1, Swaps
  <2> QED BY <2>1, <2>2, <2>3
<1>4. \A o \in Pending(Tail(todo[p])) : o \in Pending(todo[p]) /\ o.op \in {"fileclose", "iput", "exit"}
  BY Heads
<1>5. \A o \in Pending(todo'[p]) : o = c \/ (o \in Pending(todo[p]) /\ o.op \in {"fileclose", "iput", "exit"})
  BY <1>3, <1>4 DEF Plus
<1>6. \A o \in Pending(todo[p]) : o.op \in {"fork", "exit"} => o \in Pending(todo'[p])
  BY <1>3 DEF Plus
<1>7. TodoInv'
  <2>1. \A o \in Pending(todo'[p]) : OpOK(o)
    BY <1>5 DEF Inv, TodoInv
  <2>2. p \in live => \A o \in Pending(todo'[p]) : o.op # "exit"
    BY <1>5 DEF Inv, TodoInv
  <2>3. \A o \in Pending(todo'[p]) : o.op \in {"fileclose", "iput", "pipeclose", "exit"}
    BY <1>5
  <2>4. Len(todo'[p]) = 2 => todo'[p][1].op \in {"fileclose", "iput", "pipeclose"} /\ todo'[p][2].op \in {"fileclose", "iput", "exit"}
    BY <1>2, <1>3, <1>4
  <2> QED BY <1>2, <2>1, <2>2, <2>3, <2>4, KeepsTodo
<1>8. ForkInv' /\ DeadInv'
  BY <1>2, <1>5, <1>6, KeepsFork
<1>9. DupInv'
  BY <1>2, <1>5, KeepsDup
<1> QED BY <1>2, <1>5, <1>7, <1>8, <1>9

\* Such a step leaves the new files of pipealloc() alone.
LEMMA ClosingFresh ==
  ASSUME Inv, NEW p \in Procs, \A q \in Procs : q # p => todo'[q] = todo[q], ofile' = ofile,
         \A o \in Pending(todo'[p]) : \/ o.op \in {"iput", "pipeclose"}
                                      \/ o \in Pending(todo[p]) /\ o.op \in {"fileclose", "iput", "exit"},
         \A f \in Files : ~Touches(p, f) => ref'[f] = ref[f] /\ type'[f] = type[f]
  PROVE  FreshInv'
<1>1. ASSUME NEW f \in Files, ~Touches(p, f), NEW u \in Pending(todo'[p]) PROVE ~Mentions(u, f)
  <2>1. CASE u.op \in {"iput", "pipeclose"}
    BY <2>1 DEF Mentions, HeldOps, UncountedOps
  <2>2. CASE u \in Pending(todo[p])
    BY <1>1, <2>2 DEF Touches
  <2> QED BY <2>1, <2>2
<1>2. \A f \in Files : ~Touches(p, f) =>
             /\ ref'[f] = ref[f] /\ type'[f] = type[f]
             /\ \A r \in Procs : \A fd \in Fds : ofile'[r][fd] # f
             /\ \A u \in Pending(todo'[p]) : ~Mentions(u, f)
  BY <1>1 DEF Touches
<1>3. \A o \in Pending(todo'[p]) : o.op \notin {"pipe1", "pipe2"}
  OBVIOUS
<1> QED BY <1>2, <1>3, KeepsFresh

\* The reference to the inode that is dropped is counted.
LEMMA IputInv == ASSUME Inv, NEW p \in Procs, iput(p) PROVE Inv'
<1> DEFINE h == Head(todo[p])
<1>1. todo[p] # <<>> /\ h.op = "iput"
  BY DEF iput, Busy
<1>2. todo \in Calls /\ h \in Op
  BY <1>1, Heads
<1>3. todo' = Popped(todo, p)
  <2>1. Tail(todo[p]) \in Seq(Op)
    BY <1>1, <1>2, Shape DEF Calls
  <2>2. \A s \in Seq(Op) : <<>> \o s = s
    BY SMTT(30)
  <2> QED BY <2>1, <2>2 DEF iput, Continue, Then, Popped
<1>4. UNCHANGED <<ref, type, page, writable, ofile, live, open, panicked>> /\ iref' = iref - 1
  BY DEF iput, fileVars
<1>5. /\ todo' \in Calls /\ TodoInv' /\ ForkInv' /\ DeadInv' /\ DupInv'
      /\ \A q \in Procs : q # p => todo'[q] = todo[q]
      /\ \A o \in Pending(todo'[p]) : o \in Pending(todo[p]) /\ o.op \in {"fileclose", "iput", "exit"}
  BY <1>1, <1>3, <1>4, Popping
<1>6. ASSUME NEW Q PROVE Tally(todo, Q) \in Nat /\ Tally(todo', Q) \in Nat /\ Tally(todo, Q) = Tally(todo', Q) + One(h, Q)
  BY <1>1, <1>2, <1>3, PopTally
<1> HIDE DEF h
<1>7. ASSUME NEW Q, One(h, Q) = 0 PROVE Tally(todo', Q) = Tally(todo, Q)
  BY <1>6, <1>7, SMTT(30)
<1> DEFINE n == Cardinality(InodeFiles(type))
           m == Tally(todo', InodeOps)
<1>8. n \in Nat /\ m \in Nat /\ iref = n + (m + 1)
  <2>1. InodeFiles(type) \in SUBSET Files
    BY DEF InodeFiles
  <2>2. One(h, InodeOps) = 1
    BY <1>1, <1>2, Weights DEF h
  <2> QED BY <1>6, <2>1, <2>2, FilesFinite DEF Inv, CountInv
<1>9. iref' = n + m /\ iref' \in Nat
  <2> HIDE DEF n, m
  <2> QED BY <1>4, <1>8, SMTT(30), SMTT(60)
<1>10. TypeOK' /\ panicked' = 0
  BY <1>4, <1>5, <1>9 DEF Inv, TypeOK, Calls
<1>11. FileInv'
  BY <1>4 DEF Inv, FileInv
<1>12. FreshInv'
  BY <1>4, <1>5, ClosingFresh
<1>13. CountInv'
  <2>1. ASSUME NEW f \in Files
        PROVE  ref'[f] + Tally(todo', UncountedOps(f)) = Cardinality(FdsOf(ofile', f)) + Tally(todo', HeldOps(f))
    <3>1. One(h, UncountedOps(f)) = 0 /\ One(h, HeldOps(f)) = 0
      BY <1>1, <1>2, Weights DEF h
    <3>2. Tally(todo', UncountedOps(f)) = Tally(todo, UncountedOps(f)) /\ Tally(todo', HeldOps(f)) = Tally(todo, HeldOps(f))
      BY <1>7, <3>1
    <3> QED BY <1>4, <3>2 DEF Inv, CountInv
  <2>2. iref' = Cardinality(InodeFiles(type')) + Tally(todo', InodeOps)
    BY <1>4, <1>9
  <2>3. ASSUME NEW g \in Pages, NEW w \in {0, 1}
        PROVE  Cardinality(PipeFiles(type', page', writable', g, w)) + Tally(todo', CloseOps(g, w)) = Opened(open', g, w)
    <3>1. One(h, CloseOps(g, w)) = 0
      BY <1>1 DEF One, CloseOps, h
    <3>2. Tally(todo', CloseOps(g, w)) = Tally(todo, CloseOps(g, w))
      BY <1>7, <3>1
    <3> QED BY <1>4, <3>2 DEF Inv, CountInv
  <2> QED BY <2>1, <2>2, <2>3 DEF CountInv
<1> QED BY <1>5, <1>10, <1>11, <1>12, <1>13 DEF Inv

\* An end of a pipe whose close is under way is open, and nothing else stands
\* for it.
LEMMA PipecloseInv == ASSUME Inv, NEW p \in Procs, pipeclose(p) PROVE Inv'
<1> DEFINE h == Head(todo[p])
           k == Head(todo[p]).x
           v == Head(todo[p]).y
<1>1. todo[p] # <<>> /\ h.op = "pipeclose"
  BY DEF pipeclose, Busy
<1>2. todo \in Calls /\ h \in Op /\ OpOK(h)
  BY <1>1, Heads
<1>3. k \in Pages /\ v \in {0, 1} /\ h.x = k /\ h.y = v
  BY <1>1, <1>2 DEF OpOK
<1>4. todo' = Popped(todo, p)
  <2>1. Tail(todo[p]) \in Seq(Op)
    BY <1>1, <1>2, Shape DEF Calls
  <2>2. \A s \in Seq(Op) : <<>> \o s = s
    BY SMTT(30)
  <2> QED BY <2>1, <2>2 DEF pipeclose, Continue, Then, Popped
<1>5. /\ UNCHANGED <<ref, type, page, writable, ofile, live, iref>> /\ open' = [open EXCEPT ![k] = open[k] \ {End(v)}]
      /\ panicked' = IF End(v) \in open[k] THEN panicked ELSE 1
  BY DEF pipeclose, fileVars, End
<1>6. /\ todo' \in Calls /\ TodoInv' /\ ForkInv' /\ DeadInv' /\ DupInv'
      /\ \A q \in Procs : q # p => todo'[q] = todo[q]
      /\ \A o \in Pending(todo'[p]) : o \in Pending(todo[p]) /\ o.op \in {"fileclose", "iput", "exit"}
  BY <1>1, <1>4, <1>5, Popping
<1>7. ASSUME NEW Q PROVE Tally(todo, Q) \in Nat /\ Tally(todo', Q) \in Nat /\ Tally(todo, Q) = Tally(todo', Q) + One(h, Q)
  BY <1>1, <1>2, <1>4, PopTally
<1> HIDE DEF h, k, v
<1>8. ASSUME NEW Q, One(h, Q) = 0 PROVE Tally(todo', Q) = Tally(todo, Q)
  BY <1>7, <1>8, SMTT(30)
<1>9. ASSUME NEW g \in Pages, NEW w \in {0, 1}
      PROVE  /\ Cardinality(PipeFiles(type, page, writable, g, w)) \in Nat /\ Opened(open, g, w) \in {0, 1}
             /\ Cardinality(PipeFiles(type, page, writable, g, w)) + Tally(todo, CloseOps(g, w)) = Opened(open, g, w)
  <2>1. PipeFiles(type, page, writable, g, w) \in SUBSET Files
    BY DEF PipeFiles
  <2>2. Opened(open, g, w) \in {0, 1}
    BY DEF Opened
  <2> QED BY <2>1, <2>2, FilesFinite DEF Inv, CountInv
<1> DEFINE n == Cardinality(PipeFiles(type, page, writable, k, v))
           m == Tally(todo', CloseOps(k, v))
<1>10. n = 0 /\ m = 0 /\ Opened(open, k, v) = 1
  <2>1. One(h, CloseOps(k, v)) = 1
    BY <1>1, <1>2, <1>3 DEF One, CloseOps, h
  <2>2. n \in Nat /\ m \in Nat /\ Opened(open, k, v) \in {0, 1} /\ n + (m + 1) = Opened(open, k, v)
    <3>1. m \in Nat /\ Tally(todo, CloseOps(k, v)) = m + 1
      BY <1>7, <2>1
    <3>2. n \in Nat /\ Opened(open, k, v) \in {0, 1} /\ n + Tally(todo, CloseOps(k, v)) = Opened(open, k, v)
      BY <1>3, <1>9
    <3> QED BY <3>1, <3>2
  <2> HIDE DEF n, m
  <2> QED BY <2>2, SMTT(30), SMTT(60)
<1>11. End(v) \in open[k] /\ panicked' = 0
  <2>1. 0 # 1
    BY SMTT(30), SMTT(60)
  <2> QED BY <1>5, <1>10, <2>1 DEF Opened, Inv
<1>12. open \in [Pages -> SUBSET Ends] /\ open' \in [Pages -> SUBSET Ends]
  <2>1. open \in [Pages -> SUBSET Ends]
    BY DEF Inv, TypeOK
  <2>2. open[k] \ {End(v)} \in SUBSET Ends
    BY <1>3, <2>1
  <2> QED BY <1>3, <1>5, <2>1, <2>2
<1>13. TypeOK'
  BY <1>5, <1>6, <1>11, <1>12 DEF Inv, TypeOK, Calls
<1>14. FileInv'
  BY <1>5 DEF Inv, FileInv
<1>15. FreshInv'
  BY <1>5, <1>6, ClosingFresh
<1>16. CountInv'
  <2>1. ASSUME NEW f \in Files
        PROVE  ref'[f] + Tally(todo', UncountedOps(f)) = Cardinality(FdsOf(ofile', f)) + Tally(todo', HeldOps(f))
    <3>1. One(h, UncountedOps(f)) = 0 /\ One(h, HeldOps(f)) = 0
      BY <1>1, <1>2, Weights DEF h
    <3>2. Tally(todo', UncountedOps(f)) = Tally(todo, UncountedOps(f)) /\ Tally(todo', HeldOps(f)) = Tally(todo, HeldOps(f))
      BY <1>8, <3>1
    <3> QED BY <1>5, <3>2 DEF Inv, CountInv
  <2>2. iref' = Cardinality(InodeFiles(type')) + Tally(todo', InodeOps)
    <3>1. One(h, InodeOps) = 0
      BY <1>1, <1>2, Weights DEF h
    <3>2. Tally(todo', InodeOps) = Tally(todo, InodeOps)
      BY <1>8, <3>1
    <3> QED BY <1>5, <3>2 DEF Inv, CountInv
  <2>3. ASSUME NEW g \in Pages, NEW w \in {0, 1}
        PROVE  Cardinality(PipeFiles(type', page', writable', g, w)) + Tally(todo', CloseOps(g, w)) = Opened(open', g, w)
    <3>1. CASE g = k /\ w = v
      <4>1. Opened(open', g, w) = 0
        BY <1>3, <1>5, <1>12, <3>1 DEF Opened
      <4>2. 0 + 0 = 0
        BY SMTT(30), SMTT(60)
      <4> QED BY <1>5, <1>10, <3>1, <4>1, <4>2
    <3>2. CASE ~(g = k /\ w = v)
      <4>1. One(h, CloseOps(g, w)) = 0
        BY <1>3, <3>2 DEF One, CloseOps
      <4>2. Tally(todo', CloseOps(g, w)) = Tally(todo, CloseOps(g, w))
        BY <1>8, <4>1
      <4>3. Opened(open', g, w) = Opened(open, g, w)
        <5>1. CASE g # k
          BY <1>3, <1>5, <1>12, <5>1 DEF Opened
        <5>2. CASE g = k /\ w # v
          <6>1. End(w) # End(v)
            <7>1. 0 # 1
              BY SMTT(30), SMTT(60)
            <7> QED BY <1>3, <5>2, <7>1 DEF End
          <6>2. open'[k] = open[k] \ {End(v)}
            BY <1>3, <1>5, <1>12
          <6> QED BY <5>2, <6>1, <6>2 DEF Opened
        <5> QED BY <3>2, <5>1, <5>2
      <4> QED BY <1>5, <1>9, <4>2, <4>3
    <3> QED BY <3>1, <3>2
  <2> QED BY <2>1, <2>2, <2>3 DEF CountInv
<1> QED BY <1>6, <1>11, <1>13, <1>14, <1>15, <1>16 DEF Inv

\* A set of files that has lost one at most.
LEMMA LessOne ==
  ASSUME NEW S, NEW T, S \subseteq Files, T \subseteq Files, NEW k \in Files, k \notin T,
         \A f \in Files : f # k => (f \in S <=> f \in T)
  PROVE  Cardinality(S) \in Nat /\ Cardinality(T) \in Nat /\ Cardinality(S) = Cardinality(T) + (IF k \in S THEN 1 ELSE 0)
<1>1. /\ Cardinality(S) \in Nat /\ Cardinality(T) \in Nat
      /\ Cardinality(T) = Cardinality(S) - One(k, S) + One(k, T)
  BY OneFile
<1>2. One(k, T) = 0 /\ One(k, S) = IF k \in S THEN 1 ELSE 0
  BY DEF One
<1> QED BY <1>1, <1>2, SMTT(30), SMTT(60)

\* A file that loses its type no longer counts as an inode's file,
LEMMA Untyped ==
  ASSUME TypeOK, NEW k \in Files
  PROVE  /\ Closed(k) \in [Files -> {"none", "pipe", "inode"}] /\ Closed(k)[k] = "none" /\ \A f \in Files : f # k => Closed(k)[f] = type[f]
         /\ Cardinality(InodeFiles(type)) \in Nat /\ Cardinality(InodeFiles(Closed(k))) \in Nat
         /\ Cardinality(InodeFiles(type)) = Cardinality(InodeFiles(Closed(k))) + (IF type[k] = "inode" THEN 1 ELSE 0)
<1> DEFINE ty == Closed(k)
<1>1. ty \in [Files -> {"none", "pipe", "inode"}] /\ ty[k] = "none" /\ \A f \in Files : f # k => ty[f] = type[f]
  BY DEF TypeOK, Closed
<1> HIDE DEF ty
<1>2. /\ Cardinality(InodeFiles(type)) \in Nat /\ Cardinality(InodeFiles(ty)) \in Nat
      /\ Cardinality(InodeFiles(type)) = Cardinality(InodeFiles(ty)) + (IF type[k] = "inode" THEN 1 ELSE 0)
  <2>1. /\ InodeFiles(type) \subseteq Files /\ InodeFiles(ty) \subseteq Files /\ k \notin InodeFiles(ty)
        /\ \A f \in Files : f # k => (f \in InodeFiles(type) <=> f \in InodeFiles(ty))
        /\ (k \in InodeFiles(type)) <=> (type[k] = "inode")
    BY <1>1 DEF InodeFiles
  <2> QED BY <2>1, LessOne
<1> QED BY <1>1, <1>2 DEF ty

\* nor as a file of the end of a pipe that it stood for.
LEMMA UntypedPipe ==
  ASSUME TypeOK, NEW k \in Files, NEW g, NEW w
  PROVE  /\ Cardinality(PipeFiles(type, page, writable, g, w)) \in Nat /\ Cardinality(PipeFiles(Closed(k), page, writable, g, w)) \in Nat
         /\ Cardinality(PipeFiles(type, page, writable, g, w))
            = Cardinality(PipeFiles(Closed(k), page, writable, g, w)) + (IF type[k] = "pipe" /\ page[k] = g /\ writable[k] = w THEN 1 ELSE 0)
<1> DEFINE ty == Closed(k)
           S == PipeFiles(type, page, writable, g, w)
           T == PipeFiles(ty, page, writable, g, w)
<1>1. ty[k] = "none" /\ \A f \in Files : f # k => ty[f] = type[f]
  BY Untyped
<1> HIDE DEF ty
<1>2. /\ S \subseteq Files /\ T \subseteq Files /\ k \notin T /\ \A f \in Files : f # k => (f \in S <=> f \in T)
      /\ (k \in S) <=> (type[k] = "pipe" /\ page[k] = g /\ writable[k] = w)
  BY <1>1 DEF PipeFiles
<1> HIDE DEF S, T
<1>3. Cardinality(S) \in Nat /\ Cardinality(T) \in Nat /\ Cardinality(S) = Cardinality(T) + (IF k \in S THEN 1 ELSE 0)
  BY <1>2, LessOne
<1> QED BY <1>2, <1>3 DEF S, T, ty

\* The counts after a last close: what the file stood for is now counted by
\* the step that will drop it.
LEMMA LastCloseCounts ==
  ASSUME Inv, NEW k \in Files, ref[k] = 1, ref' = [ref EXCEPT ![k] = 0], type' = Closed(k),
         UNCHANGED <<page, writable, ofile, open, iref>>, todo \in Calls, todo' \in Calls,
         \A f \in Files : /\ Tally(todo', UncountedOps(f)) = Tally(todo, UncountedOps(f))
                          /\ Tally(todo, HeldOps(f)) = Tally(todo', HeldOps(f)) + (IF k = f THEN 1 ELSE 0),
         Tally(todo', InodeOps) = Tally(todo, InodeOps) + (IF type[k] = "inode" THEN 1 ELSE 0),
         \A g \in Pages : \A w \in {0, 1} :
            Tally(todo', CloseOps(g, w))
            = Tally(todo, CloseOps(g, w)) + (IF type[k] = "pipe" /\ page[k] = g /\ writable[k] = w THEN 1 ELSE 0)
  PROVE  CountInv'
<1>1. ASSUME NEW Q PROVE Tally(todo, Q) \in Nat /\ Tally(todo', Q) \in Nat
  BY TallyFinite
<1>2. ASSUME NEW f \in Files
      PROVE  ref'[f] + Tally(todo', UncountedOps(f)) = Cardinality(FdsOf(ofile', f)) + Tally(todo', HeldOps(f))
  <2> DEFINE r == ref[f]
             s == ref'[f]
             u == Tally(todo, UncountedOps(f))
             d == Cardinality(FdsOf(ofile, f))
             h == Tally(todo', HeldOps(f))
             e == IF k = f THEN 1 ELSE 0
  <2>1. u \in Nat /\ h \in Nat /\ d \in Nat /\ r \in Nat
    BY <1>1, FdsFinite DEF Inv, TypeOK
  <2>2. r + u = d + (h + e)
    BY DEF Inv, CountInv
  <2>3. (k = f => r = 1 /\ s = 0) /\ (k # f => s = r)
    BY DEF Inv, TypeOK
  <2>4. s + u = d + h
    <3>1. (k = f => e = 1) /\ (k # f => e = 0)
      OBVIOUS
    <3> HIDE DEF r, s, u, d, h, e
    <3> QED BY <2>1, <2>2, <2>3, <3>1, SMTT(30), SMTT(60)
  <2> QED BY <2>4
<1>3. iref' = Cardinality(InodeFiles(type')) + Tally(todo', InodeOps)
  <2> DEFINE a == IF type[k] = "inode" THEN 1 ELSE 0
             n == Cardinality(InodeFiles(type'))
             m == Tally(todo, InodeOps)
  <2>1. n \in Nat /\ Cardinality(InodeFiles(type)) = n + a
    BY Untyped DEF Inv
  <2>2. iref = (n + a) + m /\ m \in Nat /\ a \in {0, 1} /\ Tally(todo', InodeOps) = m + a
    BY <1>1, <2>1 DEF Inv, CountInv
  <2>3. iref = n + (m + a)
    <3> HIDE DEF a, n, m
    <3> QED BY <2>1, <2>2, SMTT(30), SMTT(60)
  <2> QED BY <2>2, <2>3
<1>4. ASSUME NEW g \in Pages, NEW w \in {0, 1}
      PROVE  Cardinality(PipeFiles(type', page', writable', g, w)) + Tally(todo', CloseOps(g, w)) = Opened(open', g, w)
  <2> DEFINE a == IF type[k] = "pipe" /\ page[k] = g /\ writable[k] = w THEN 1 ELSE 0
             n == Cardinality(PipeFiles(Closed(k), page, writable, g, w))
             m == Tally(todo, CloseOps(g, w))
  <2>1. n \in Nat /\ Cardinality(PipeFiles(type, page, writable, g, w)) = n + a
    BY UntypedPipe DEF Inv
  <2>2. (n + a) + m = Opened(open, g, w) /\ m \in Nat /\ a \in {0, 1} /\ Tally(todo', CloseOps(g, w)) = m + a
    BY <1>1, <2>1 DEF Inv, CountInv
  <2>3. n + (m + a) = Opened(open, g, w)
    <3> HIDE DEF a, n, m
    <3> QED BY <2>1, <2>2, SMTT(30)
  <2> QED BY <2>2, <2>3
<1> QED BY <1>2, <1>3, <1>4 DEF CountInv

\* fileclose() drops the reference that it holds, and the last one frees the
\* file; its panic is not met.
LEMMA FilecloseInv == ASSUME Inv, NEW p \in Procs, fileclose(p) PROVE Inv'
<1> DEFINE h == Head(todo[p])
           k == Head(todo[p]).x
<1>1. todo[p] # <<>> /\ h.op = "fileclose"
  BY DEF fileclose, Busy
<1>2. todo \in Calls /\ h \in Op /\ OpOK(h) /\ h \in Pending(todo[p])
  BY <1>1, Heads
<1>3. k \in Files /\ h.x = k
  BY <1>1, <1>2 DEF OpOK
<1>4. Tail(todo[p]) \in Seq(Op) /\ <<>> \o Tail(todo[p]) = Tail(todo[p])
  <2>1. Tail(todo[p]) \in Seq(Op)
    BY <1>1, <1>2, Shape DEF Calls
  <2>2. \A s \in Seq(Op) : <<>> \o s = s
    BY SMTT(30)
  <2> QED BY <2>1, <2>2
<1>5. UNCHANGED <<page, writable, ofile, live, open, iref>> /\ panicked' = IF ref[k] < 1 THEN 1 ELSE 0
  BY DEF fileclose
<1>6. ~(ref[k] < 1) /\ ref[k] # 0 /\ Mentions(h, k) /\ Touches(p, k) /\ ref[k] \in Nat
  <2>1. Mentions(h, k)
    BY <1>1, <1>2, <1>3 DEF Mentions, HeldOps
  <2>2. Touches(p, k)
    BY <1>2, <2>1 DEF Touches
  <2> QED BY <1>2, <1>3, <2>1, <2>2, RefPositive
<1>7. panicked' = 0
  BY <1>5, <1>6
<1>8. ASSUME NEW f PROVE One(h, UncountedOps(f)) = 0 /\ One(h, HeldOps(f)) = IF k = f THEN 1 ELSE 0
  BY <1>1, <1>2, <1>3, Weights
<1>9. One(h, InodeOps) = 0 /\ \A g, w : One(h, CloseOps(g, w)) = 0
  BY <1>1 DEF One, InodeOps, CloseOps
<1>10. ref \in [Files -> Nat]
  BY DEF Inv, TypeOK
<1>11. ASSUME todo' = Popped(todo, p)
       PROVE  /\ todo' \in Calls /\ TodoInv' /\ ForkInv' /\ DeadInv' /\ DupInv'
              /\ \A q \in Procs : q # p => todo'[q] = todo[q]
              /\ \A o \in Pending(todo'[p]) : o \in Pending(todo[p]) /\ o.op \in {"fileclose", "iput", "exit"}
  BY <1>1, <1>5, <1>11, Popping
<1>12. ASSUME todo' = Popped(todo, p), NEW Q
       PROVE  Tally(todo, Q) \in Nat /\ Tally(todo', Q) \in Nat /\ Tally(todo, Q) = Tally(todo', Q) + One(h, Q)
  BY <1>1, <1>2, <1>12, PopTally
<1>13. ASSUME todo' = Popped(todo, p), NEW Q, One(h, Q) = 0 PROVE Tally(todo', Q) = Tally(todo, Q)
  <2>1. Tally(todo, Q) \in Nat /\ Tally(todo', Q) \in Nat /\ Tally(todo, Q) = Tally(todo', Q) + 0
    BY <1>12, <1>13
  <2> QED BY <2>1, SMTT(30), SMTT(60)
<1>14. CASE ~LastRef(k)
  <2>1. ref' = [ref EXCEPT ![k] = ref[k] - 1] /\ type' = type /\ todo' = Popped(todo, p)
    BY <1>4, <1>14 DEF fileclose, Continue, Then, Popped
  <2>2. ref[k] # 1
    BY <1>14 DEF LastRef
  <2> HIDE DEF h, k
  <2>3. ref[k] - 1 \in Nat /\ ref[k] - 1 # 0
    BY <1>6, <2>2, SMTT(30), SMTT(60)
  <2>4. ref' \in [Files -> Nat] /\ ref'[k] = ref[k] - 1 /\ \A f \in Files : f # k => ref'[f] = ref[f]
    BY <1>3, <1>10, <2>1, <2>3
  <2>5. TypeOK'
    BY <1>5, <1>7, <1>11, <2>1, <2>4 DEF Inv, TypeOK, Calls
  <2>6. FileInv'
    BY <1>5, <2>1, <2>3, <2>4 DEF Inv, FileInv
  <2>7. FreshInv'
    BY <1>5, <1>6, <1>11, <2>1, <2>4, ClosingFresh
  <2>8. CountInv'
    <3>1. ASSUME NEW f \in Files
          PROVE  ref'[f] + Tally(todo', UncountedOps(f)) = Cardinality(FdsOf(ofile', f)) + Tally(todo', HeldOps(f))
      <4> DEFINE r == ref[f]
                 s == ref'[f]
                 u == Tally(todo, UncountedOps(f))
                 d == Cardinality(FdsOf(ofile, f))
                 m == Tally(todo', HeldOps(f))
                 e == IF k = f THEN 1 ELSE 0
      <4>1. d \in Nat /\ r \in Nat
        BY FdsFinite DEF Inv, TypeOK
      <4>2. m \in Nat /\ Tally(todo, HeldOps(f)) = m + e
        BY <1>8, <1>12, <2>1
      <4>3. u \in Nat /\ Tally(todo', UncountedOps(f)) = u
        BY <1>8, <1>12, <1>13, <2>1
      <4>4. r + u = d + (m + e)
        BY <4>2 DEF Inv, CountInv
      <4>5. (k = f => s = r - 1 /\ e = 1) /\ (k # f => s = r /\ e = 0)
        BY <2>4
      <4>6. s + u = d + m
        <5> HIDE DEF r, s, u, d, m, e
        <5> QED BY <4>1, <4>2, <4>3, <4>4, <4>5, SMTT(30), SMTT(60)
      <4> QED BY <1>5, <4>3, <4>6
    <3>2. Tally(todo', InodeOps) = Tally(todo, InodeOps)
      BY <1>9, <1>13, <2>1
    <3>3. \A g \in Pages : \A w \in {0, 1} : Tally(todo', CloseOps(g, w)) = Tally(todo, CloseOps(g, w))
      BY <1>9, <1>13, <2>1
    <3> QED BY <1>5, <2>1, <3>1, <3>2, <3>3, KeepsRest
  <2> QED BY <1>7, <1>11, <2>1, <2>5, <2>6, <2>7, <2>8 DEF Inv
<1>15. CASE LastRef(k)
  <2>1. /\ ref' = [ref EXCEPT ![k] = 0] /\ type' = Closed(k)
        /\ Continue(p, CASE type[k] = "pipe" -> <<do("pipeclose", page[k], writable[k])>>
                         [] type[k] = "inode" -> <<do("iput", 0, 0)>>
                         [] type[k] = "none" -> <<>>)
    BY <1>15 DEF fileclose
  <2>2. ref[k] = 1
    BY <1>15 DEF LastRef
  <2>3. type[k] \in {"none", "pipe", "inode"} /\ page[k] \in Pages \cup {0} /\ writable[k] \in {0, 1} /\ (type[k] = "pipe" => page[k] \in Pages)
    BY <1>3 DEF Inv, TypeOK, FileInv
  <2>4. /\ type' \in [Files -> {"none", "pipe", "inode"}] /\ type'[k] = "none" /\ \A f \in Files : f # k => type'[f] = type[f]
    BY <1>3, <2>1, Untyped DEF Inv
  <2>5. ref' \in [Files -> Nat] /\ ref'[k] = 0 /\ \A f \in Files : f # k => ref'[f] = ref[f]
    <3>1. 0 \in Nat
      BY SMTT(30), SMTT(60)
    <3> QED BY <1>3, <1>10, <2>1, <3>1
  <2>6. FileInv'
    BY <1>3, <1>5, <2>4, <2>5 DEF Inv, FileInv
  <2>7. \A f \in Files : ~Touches(p, f) => ref'[f] = ref[f] /\ type'[f] = type[f]
    BY <1>6, <2>4, <2>5
  <2>8. ASSUME todo' \in Calls PROVE TypeOK'
    BY <1>5, <1>7, <2>4, <2>5, <2>8 DEF Inv, TypeOK, Calls
  <2>9. CASE type[k] = "none"
    <3>1. todo' = Popped(todo, p)
      BY <1>4, <2>1, <2>9 DEF Continue, Then, Popped
    <3> HIDE DEF h, k
    <3>2. FreshInv'
      BY <1>5, <1>11, <2>7, <3>1, ClosingFresh
    <3>3. CountInv'
      <4>1. ASSUME NEW f \in Files PROVE /\ Tally(todo', UncountedOps(f)) = Tally(todo, UncountedOps(f))
                                         /\ Tally(todo, HeldOps(f)) = Tally(todo', HeldOps(f)) + (IF k = f THEN 1 ELSE 0)
        <5>1. Tally(todo', UncountedOps(f)) = Tally(todo, UncountedOps(f))
          BY <1>8, <1>13, <3>1
        <5>2. Tally(todo, HeldOps(f)) = Tally(todo', HeldOps(f)) + (IF k = f THEN 1 ELSE 0)
          BY <1>8, <1>12, <3>1
        <5> QED BY <5>1, <5>2
      <4>2. ASSUME NEW Q, One(h, Q) = 0 PROVE Tally(todo', Q) = Tally(todo, Q) + 0
        <5>1. Tally(todo, Q) \in Nat /\ Tally(todo', Q) = Tally(todo, Q)
          BY <1>12, <1>13, <3>1, <4>2
        <5> QED BY <5>1, SMTT(30), SMTT(60)
      <4>3. Tally(todo', InodeOps) = Tally(todo, InodeOps) + (IF type[k] = "inode" THEN 1 ELSE 0)
        BY <1>9, <2>9, <4>2
      <4>4. \A g \in Pages : \A w \in {0, 1} :
               Tally(todo', CloseOps(g, w))
               = Tally(todo, CloseOps(g, w)) + (IF type[k] = "pipe" /\ page[k] = g /\ writable[k] = w THEN 1 ELSE 0)
        BY <1>9, <2>9, <4>2
      <4> QED BY <1>2, <1>3, <1>5, <1>11, <2>1, <2>2, <3>1, <4>1, <4>3, <4>4, LastCloseCounts
    <3> QED BY <1>7, <1>11, <2>6, <2>8, <3>1, <3>2, <3>3 DEF Inv
  <2>10. ASSUME NEW c \in Op, OpOK(c), c.op \in {"iput", "pipeclose"}, todo' = Swapped(todo, p, c),
                c.op = "iput" <=> type[k] = "inode", c.op = "pipeclose" <=> type[k] = "pipe",
                c.op = "pipeclose" => c.x = page[k] /\ c.y = writable[k]
         PROVE  Inv'
    <3> HIDE DEF h, k
    <3>1. /\ todo' \in Calls /\ TodoInv' /\ ForkInv' /\ DeadInv' /\ DupInv'
          /\ \A q \in Procs : q # p => todo'[q] = todo[q]
          /\ \A o \in Pending(todo'[p]) : o = c \/ (o \in Pending(todo[p]) /\ o.op \in {"fileclose", "iput", "exit"})
      BY <1>1, <1>5, <2>10, Swapping DEF h
    <3>2. FreshInv'
      BY <1>5, <2>7, <2>10, <3>1, ClosingFresh
    <3>3. ASSUME NEW Q PROVE /\ Tally(todo, Q) \in Nat /\ Tally(todo', Q) \in Nat
                             /\ Tally(todo', Q) + One(h, Q) = Tally(todo, Q) + One(c, Q)
      BY <1>1, <1>2, <2>10, SwapTally DEF h
    <3>4. ASSUME NEW Q, One(h, Q) = 0 PROVE Tally(todo', Q) = Tally(todo, Q) + One(c, Q)
      <4>1. Tally(todo, Q) \in Nat /\ Tally(todo', Q) \in Nat /\ Tally(todo', Q) + 0 = Tally(todo, Q) + One(c, Q)
        BY <3>3, <3>4
      <4> QED BY <4>1, SMTT(30), SMTT(60)
    <3>5. CountInv'
      <4>1. ASSUME NEW f \in Files PROVE /\ Tally(todo', UncountedOps(f)) = Tally(todo, UncountedOps(f))
                                         /\ Tally(todo, HeldOps(f)) = Tally(todo', HeldOps(f)) + (IF k = f THEN 1 ELSE 0)
        <5>1. One(c, UncountedOps(f)) = 0 /\ One(c, HeldOps(f)) = 0
          BY <2>10 DEF One, UncountedOps, HeldOps
        <5>2. Tally(todo', UncountedOps(f)) = Tally(todo, UncountedOps(f))
          <6>1. Tally(todo, UncountedOps(f)) \in Nat /\ Tally(todo', UncountedOps(f)) = Tally(todo, UncountedOps(f)) + 0
            BY <1>8, <3>3, <3>4, <5>1
          <6> QED BY <6>1, SMTT(30), SMTT(60)
        <5>3. Tally(todo, HeldOps(f)) = Tally(todo', HeldOps(f)) + (IF k = f THEN 1 ELSE 0)
          <6>1. /\ Tally(todo, HeldOps(f)) \in Nat
                /\ Tally(todo', HeldOps(f)) + (IF k = f THEN 1 ELSE 0) = Tally(todo, HeldOps(f)) + 0
            BY <1>8, <3>3, <5>1
          <6> QED BY <6>1, SMTT(30), SMTT(60)
        <5> QED BY <5>2, <5>3
      <4>2. Tally(todo', InodeOps) = Tally(todo, InodeOps) + (IF type[k] = "inode" THEN 1 ELSE 0)
        <5>1. One(c, InodeOps) = IF type[k] = "inode" THEN 1 ELSE 0
          BY <2>10 DEF One, InodeOps
        <5> QED BY <1>9, <3>4, <5>1
      <4>3. ASSUME NEW g \in Pages, NEW w \in {0, 1}
            PROVE  Tally(todo', CloseOps(g, w))
                   = Tally(todo, CloseOps(g, w)) + (IF type[k] = "pipe" /\ page[k] = g /\ writable[k] = w THEN 1 ELSE 0)
        <5>1. One(c, CloseOps(g, w)) = IF type[k] = "pipe" /\ page[k] = g /\ writable[k] = w THEN 1 ELSE 0
          BY <2>10 DEF One, CloseOps
        <5> QED BY <1>9, <3>4, <5>1
      <4> QED BY <1>2, <1>3, <1>5, <2>1, <2>2, <3>1, <4>1, <4>2, <4>3, LastCloseCounts
    <3> QED BY <1>7, <2>6, <2>8, <3>1, <3>2, <3>5 DEF Inv
  <2>11. CASE type[k] = "inode"
    <3> DEFINE c == do("iput", 0, 0)
    <3>1. c \in Op
      BY DoOp
    <3>2. c.op = "iput"
      BY DEF do
    <3>3. OpOK(c)
      BY <3>2 DEF OpOK
    <3>4. todo' = [todo EXCEPT ![p] = <<c>> \o Tail(todo[p])]
      BY <2>1, <2>11 DEF Continue, Then
    <3> HIDE DEF c
    <3>5. todo' = Swapped(todo, p, c)
      BY <1>1, <1>2, <3>4, SwapForm
    <3> QED BY <2>10, <2>11, <3>1, <3>2, <3>3, <3>5
  <2>12. CASE type[k] = "pipe"
    <3> DEFINE c == do("pipeclose", page[k], writable[k])
    <3>1. c \in Op
      BY <2>3, <2>12, DoOp
    <3>2. c.op = "pipeclose" /\ c.x = page[k] /\ c.y = writable[k]
      BY DEF do
    <3>3. OpOK(c)
      BY <2>3, <2>12, <3>2 DEF OpOK
    <3>4. todo' = [todo EXCEPT ![p] = <<c>> \o Tail(todo[p])]
      BY <2>1, <2>12 DEF Continue, Then
    <3> HIDE DEF c
    <3>5. todo' = Swapped(todo, p, c)
      BY <1>1, <1>2, <3>4, SwapForm
    <3> QED BY <2>10, <2>12, <3>1, <3>2, <3>3, <3>5
  <2> QED BY <2>3, <2>9, <2>11, <2>12
<1> QED BY <1>14, <1>15
==============================================================================
