----------------------------- MODULE PipeProofs -----------------------------
(***************************************************************************)
(* For every set of readers and writers, size of the ring and wrapping     *)
(* point of the counters (a multiple of the size): a pipe of Pipe.tla      *)
(* hands over the bytes written in order, and forgets no sleeper.          *)
(***************************************************************************)
EXTENDS Pipe, TLAPS

\* The counters are put and got wrapped, and the byte numbered k is in the
\* cell the counter that did not wrap would name.
RingInv ==
    /\ put - got \in 0 .. PIPESIZE
    /\ nwrite = put % Wrap /\ nread = got % Wrap
    /\ \A k \in got + 1 .. put : data[(k - 1) % PIPESIZE] = k

\* pi->lock is held exactly inside the loops, and only readers copy out.
LockInv ==
    /\ \A p \in Procs : pc[p] \in {"loop", "sleep", "copy"} <=> lock = p
    /\ \A p \in Procs : pc[p] = "copy" => p \in Readers

\* A closed end has nobody left; who has not closed has not gone.
EndsInv ==
    /\ readopen = 0 => open \cap Readers = {}
    /\ \A p \in Procs : pc[p] # "gone" => p \in open

\* Whoever sleeps, or is about to, has a reason to, or the process that took
\* the reason away is still inside its call and owes a wakeup().
SleepInv ==
    /\ \A w \in Writers : pc[w] \in {"sleep", "asleep"} =>
         readopen = 1 /\ (put - got = PIPESIZE \/ \E r \in Readers : pc[r] = "copy")
    /\ \A r \in Readers : pc[r] \in {"sleep", "asleep"} =>
         /\ writeopen = 1
         /\ put = got \/ killed \cap Writers # {} \/ \E w \in Writers : pc[w] = "loop"

Inv == TypeOK /\ RingInv /\ LockInv /\ EndsInv /\ SleepInv
------------------------------------------------------------------------------
(***************************************************************************)
(* Counters that wrap: facts about % for pi->nread and pi->nwrite          *)
(***************************************************************************)
\* What a counter is made of: how often it wrapped, and what is left of it.
LEMMA DivMod ==
  ASSUME NEW a \in Int, NEW N \in Nat \ {0}
  PROVE  /\ a \div N \in Int /\ a % N \in 0 .. N - 1
         /\ a = N * (a \div N) + (a % N)
  OBVIOUS

\* The only multiple of N closer to 0 than N is 0.
LEMMA SmallMultiple ==
  ASSUME NEW N \in Nat \ {0}, NEW q \in Int, NEW r \in Int, r < N, -N < r, N * q = r
  PROVE  r = 0
<1>1. CASE q >= 1
  BY <1>1
<1>2. CASE q <= -1
  BY <1>2
<1> QED BY <1>1, <1>2

\* The remainder is determined by any such decomposition.
LEMMA RemainderUnique ==
  ASSUME NEW N \in Nat \ {0}, NEW q \in Int, NEW r \in 0 .. N - 1
  PROVE  (N * q + r) % N = r
<1> DEFINE a == N * q + r
<1>1. a \in Int OBVIOUS
<1>2. /\ a \div N \in Int /\ a % N \in 0 .. N - 1
      /\ a = N * (a \div N) + (a % N)
  BY <1>1, DivMod
<1> HIDE DEF a
<1>3. a = N * q + r
  BY DEF a
<1>4. N * (q - (a \div N)) = (a % N) - r
  BY <1>2, <1>3
<1>5. (a % N) - r = 0
  <2>1. q - (a \div N) \in Int /\ (a % N) - r \in Int /\ (a % N) - r < N /\ -N < (a % N) - r
    BY <1>2
  <2> QED BY <2>1, <1>4, SmallMultiple
<1> QED BY <1>5, <1>2 DEF a

\* A number below N is its own remainder.
LEMMA ModSmall ==
  ASSUME NEW N \in Nat \ {0}, NEW r \in 0 .. N - 1
  PROVE  r % N = r
  OBVIOUS

\* Wrapping before an addition does not change the wrapped sum.
LEMMA ModShift ==
  ASSUME NEW a \in Int, NEW b \in Int, NEW N \in Nat \ {0}
  PROVE  ((a % N) + b) % N = (a + b) % N
<1> DEFINE q == a \div N
           c == (a % N) + b
<1>1. q \in Int /\ c \in Int /\ a + b = N * q + c
  BY DivMod
<1>2. c \div N \in Int /\ c % N \in 0 .. N - 1 /\ c = N * (c \div N) + (c % N)
  BY <1>1, DivMod
<1> HIDE DEF q, c
<1>3. a + b = N * (q + (c \div N)) + (c % N)
  BY <1>1, <1>2
<1>4. (a + b) % N = c % N
  <2>1. q + (c \div N) \in Int
    BY <1>1, <1>2
  <2> QED BY <1>2, <1>3, <2>1, RemainderUnique
<1> QED BY <1>4 DEF c

\* Two counters less than a lap apart that wrap to the same value are equal.
LEMMA ModInjective ==
  ASSUME NEW a \in Int, NEW b \in Int, NEW N \in Nat \ {0}, a % N = b % N, a - b < N, b - a < N
  PROVE  a = b
<1>1. /\ a \div N \in Int /\ a % N \in 0 .. N - 1 /\ a = N * (a \div N) + (a % N)
      /\ b \div N \in Int /\ b % N \in 0 .. N - 1 /\ b = N * (b \div N) + (b % N)
  BY DivMod
<1>2. N * ((a \div N) - (b \div N)) = a - b
  BY <1>1
<1>3. (a \div N) - (b \div N) \in Int /\ a - b \in Int /\ -N < a - b
  BY <1>1
<1>4. a - b = 0
  BY <1>2, <1>3, SmallMultiple
<1> QED BY <1>4

\* Multiplication distributes over addition; stated for the provers.
LEMMA Distributes == \A x, y, z \in Int : x * (y + z) = x * y + x * z
  OBVIOUS

\* A counter that wraps at a multiple of the size of a ring indexes the ring
\* as the counter that does not wrap would.
LEMMA ModMod ==
  ASSUME NEW a \in Int, NEW m \in Nat \ {0}, NEW N \in Nat \ {0}, m % N = 0
  PROVE  (a % m) % N = a % N
<1> DEFINE c == a % m
           q == a \div m
           k == m \div N
<1>1. q \in Int /\ c \in Int /\ a = m * q + c
  BY DivMod
<1>2. k \in Int /\ m = N * k
  BY DivMod
<1>3. c \div N \in Int /\ c % N \in 0 .. N - 1 /\ c = N * (c \div N) + (c % N)
  BY <1>1, DivMod
<1> HIDE DEF c, q, k
<1>4. m * q = N * (k * q) /\ k * q \in Int
  BY <1>1, <1>2
<1>5. a = N * ((k * q) + (c \div N)) + (c % N)
  <2>1. N * ((k * q) + (c \div N)) = N * (k * q) + N * (c \div N)
    BY <1>3, <1>4, Distributes
  <2> QED BY <1>1, <1>3, <1>4, <2>1
<1>6. (k * q) + (c \div N) \in Int
  BY <1>3, <1>4
<1>7. a % N = c % N
  BY <1>3, <1>5, <1>6, RemainderUnique
<1> QED BY <1>7 DEF c

------------------------------------------------------------------------------
\* Steps that name no prover are found by Zenon.
USE ZenonT(60)

\* The test of pipewrite() for a full ring, an unsigned comparison of wrapped
\* counters, is true exactly when PIPESIZE bytes are in the ring.
LEMMA FullMeans ==
  ASSUME TypeOK, RingInv
  PROVE  Full <=> put - got = PIPESIZE
<1> USE PipeAssumption
<1>1. put \in Int /\ got \in Int /\ got + PIPESIZE \in Int /\ Wrap \in Nat \ {0} /\ PIPESIZE \in Int
  BY SMTT(30) DEF TypeOK
<1>2. (nread + PIPESIZE) % Wrap = (got + PIPESIZE) % Wrap
  <2>1. ((got % Wrap) + PIPESIZE) % Wrap = (got + PIPESIZE) % Wrap
    BY <1>1, ModShift
  <2> QED BY <2>1 DEF RingInv
<1>3. put - (got + PIPESIZE) < Wrap /\ (got + PIPESIZE) - put < Wrap
  BY <1>1, SMTT(30) DEF RingInv
<1>4. put % Wrap = (got + PIPESIZE) % Wrap => put = got + PIPESIZE
  BY <1>1, <1>3, ModInjective
<1> QED BY <1>1, <1>2, <1>4, SMTT(30) DEF Full, RingInv

\* The test of piperead() for an empty ring is true exactly when every byte
\* written was read.
LEMMA EmptyMeans ==
  ASSUME TypeOK, RingInv
  PROVE  nread = nwrite <=> put = got
<1> USE PipeAssumption
<1>1. put \in Int /\ got \in Int /\ Wrap \in Nat \ {0}
  BY SMTT(30) DEF TypeOK
<1>2. put - got < Wrap /\ got - put < Wrap
  BY <1>1, SMTT(30) DEF RingInv
<1>3. put % Wrap = got % Wrap => put = got
  BY <1>1, <1>2, ModInjective
<1> QED BY <1>3 DEF RingInv

\* nwrite++ and nread++ wrap as the number of bytes written, or read, does.
LEMMA IncWraps ==
  ASSUME NEW a \in Nat
  PROVE  inc(a % Wrap) = (a + 1) % Wrap /\ (a + 1) % Wrap \in 0 .. Wrap - 1
<1>1. a \in Int /\ 1 \in Int /\ a + 1 \in Int /\ Wrap \in Nat \ {0}
  BY PipeAssumption, SMTT(30)
<1>2. ((a % Wrap) + 1) % Wrap = (a + 1) % Wrap
  BY <1>1, ModShift
<1>3. (a + 1) % Wrap \in 0 .. Wrap - 1
  BY <1>1, DivMod
<1> QED BY <1>2, <1>3 DEF inc

\* A wrapped counter names the cell of the ring the counter itself names.
LEMMA CellOfCounter ==
  ASSUME NEW a \in Nat
  PROVE  (a % Wrap) % PIPESIZE = a % PIPESIZE /\ a % PIPESIZE \in 0 .. PIPESIZE - 1
<1>1. a \in Int /\ Wrap \in Nat \ {0} /\ PIPESIZE \in Nat \ {0} /\ Wrap % PIPESIZE = 0
  BY PipeAssumption, SMTT(30)
<1>2. (a % Wrap) % PIPESIZE = a % PIPESIZE
  BY <1>1, ModMod
<1>3. a % PIPESIZE \in 0 .. PIPESIZE - 1
  BY <1>1, DivMod
<1> QED BY <1>2, <1>3

\* pipewrite() into a ring that is not full overwrites no byte still unread.
LEMMA StoreKeepsRing ==
  ASSUME TypeOK, RingInv, ~Full,
         data' = [data EXCEPT ![nwrite % PIPESIZE] = put + 1],
         nwrite' = inc(nwrite), put' = put + 1, UNCHANGED <<nread, got>>
  PROVE  RingInv' /\ data' \in [0 .. PIPESIZE - 1 -> Nat] /\ nwrite' \in 0 .. Wrap - 1
<1> USE PipeAssumption
<1>1. put \in Nat /\ got \in Nat /\ put - got < PIPESIZE /\ put - got \in Nat
  BY FullMeans, SMTT(30) DEF TypeOK, RingInv
<1>2. nwrite' = put' % Wrap /\ nwrite' \in 0 .. Wrap - 1
  BY <1>1, IncWraps DEF RingInv
<1>3. nwrite % PIPESIZE = put % PIPESIZE /\ put % PIPESIZE \in 0 .. PIPESIZE - 1
  BY <1>1, CellOfCounter DEF RingInv
<1>4. data' \in [0 .. PIPESIZE - 1 -> Nat]
  BY <1>1, SMTT(30) DEF TypeOK
<1>5. ASSUME NEW k \in got' + 1 .. put'
      PROVE  data'[(k - 1) % PIPESIZE] = k
  <2>1. CASE k = put + 1
    BY <1>1, <1>3, <2>1, SMTT(30) DEF TypeOK
  <2>2. CASE k # put + 1
    <3>1. k \in got + 1 .. put /\ k - 1 \in Nat
      BY <1>1, <2>2, SMTT(30)
    <3>2. (k - 1) % PIPESIZE # put % PIPESIZE
      <4>1. k - 1 \in Int /\ put \in Int /\ (k - 1) - put < PIPESIZE /\ put - (k - 1) < PIPESIZE
            /\ k - 1 # put /\ PIPESIZE \in Nat \ {0}
        BY <1>1, <2>2, <3>1, SMTT(30)
      <4> QED BY <4>1, ModInjective
    <3>3. (k - 1) % PIPESIZE \in 0 .. PIPESIZE - 1
      BY <3>1, CellOfCounter
    <3>4. data[(k - 1) % PIPESIZE] = k
      BY <3>1 DEF RingInv
    <3> QED BY <1>3, <3>2, <3>3, <3>4 DEF TypeOK
  <2> QED BY <2>1, <2>2
<1>6. put' - got' \in 0 .. PIPESIZE
  BY <1>1, SMTT(30)
<1> QED BY <1>2, <1>4, <1>5, <1>6 DEF RingInv

\* piperead() of a ring that is not empty takes the byte after the last.
LEMMA TakeKeepsRing ==
  ASSUME TypeOK, RingInv, nread # nwrite,
         nread' = inc(nread), got' = data[nread % PIPESIZE], UNCHANGED <<data, nwrite, put>>
  PROVE  RingInv' /\ got' = got + 1 /\ nread' \in 0 .. Wrap - 1
<1> USE PipeAssumption
<1>1. put \in Nat /\ got \in Nat /\ put - got > 0 /\ put - got \in 0 .. PIPESIZE
  BY EmptyMeans, SMTT(30) DEF TypeOK, RingInv
<1>2. nread' = (got + 1) % Wrap /\ nread' \in 0 .. Wrap - 1
  BY <1>1, IncWraps DEF RingInv
<1>3. nread % PIPESIZE = got % PIPESIZE
  BY <1>1, CellOfCounter DEF RingInv
<1>4. got' = got + 1
  <2>1. got + 1 \in got + 1 .. put /\ (got + 1) - 1 = got
    BY <1>1, SMTT(30)
  <2>2. data[((got + 1) - 1) % PIPESIZE] = got + 1
    BY <2>1 DEF RingInv
  <2> QED BY <1>3, <2>1, <2>2
<1>5. \A k \in got' + 1 .. put' : data'[(k - 1) % PIPESIZE] = k
  BY <1>1, <1>4, SMTT(30) DEF RingInv
<1>6. put' - got' \in 0 .. PIPESIZE
  BY <1>1, <1>4, SMTT(30)
<1> QED BY <1>2, <1>4, <1>5, <1>6 DEF RingInv
------------------------------------------------------------------------------
\* pipealloc() establishes the invariant.
LEMMA InitInv == Init => Inv
<1> SUFFICES ASSUME Init PROVE Inv
  OBVIOUS
<1> USE PipeAssumption DEF Init
<1>1. TypeOK
  BY SMTT(30) DEF TypeOK
<1>2. RingInv
  BY ModSmall, SMTT(30) DEF RingInv
<1>3. LockInv /\ EndsInv
  BY SMTT(30) DEF LockInv, EndsInv, Procs
<1>4. SleepInv
  BY DEF SleepInv, Procs
<1> QED BY <1>1, <1>2, <1>3, <1>4 DEF Inv

\* A call of read() or write() starts without the lock.
LEMMA CallInv ==
  ASSUME Inv, NEW p \in Procs, NEW m \in 1 .. MaxN, Call(p, m)
  PROVE  Inv'
<1> USE PipeAssumption DEF Inv, Call, pipeVars
<1>1. TypeOK'
  BY SMTT(30) DEF TypeOK
<1>2. RingInv'
  BY DEF RingInv
<1>3. LockInv'
  BY DEF LockInv, TypeOK
<1>4. EndsInv'
  BY DEF EndsInv, TypeOK
<1>5. SleepInv'
  BY DEF SleepInv, TypeOK, Procs
<1> QED BY <1>1, <1>2, <1>3, <1>4, <1>5

\* acquire() takes the lock that nobody held.
LEMMA AcquireInv ==
  ASSUME Inv, NEW p \in Procs, acquire(p)
  PROVE  Inv'
<1> USE PipeAssumption DEF Inv, acquire, pipeVars
<1>1. TypeOK'
  BY DEF TypeOK
<1>2. RingInv'
  BY DEF RingInv
<1>3. LockInv'
  BY DEF LockInv, TypeOK
<1>4. EndsInv'
  BY DEF EndsInv, TypeOK
<1>5. SleepInv'
  BY DEF SleepInv, TypeOK, Procs
<1> QED BY <1>1, <1>2, <1>3, <1>4, <1>5

\* sleep() gives the lock up with the process asleep for its reason.
LEMMA SleepStepInv ==
  ASSUME Inv, NEW p \in Procs, sleep(p)
  PROVE  Inv'
<1> USE PipeAssumption DEF Inv, sleep, pipeVars
<1>1. TypeOK'
  BY DEF TypeOK
<1>2. RingInv'
  BY DEF RingInv
<1>3. LockInv'
  BY DEF LockInv, TypeOK
<1>4. EndsInv'
  BY DEF EndsInv, TypeOK
<1>5. SleepInv'
  BY DEF SleepInv, TypeOK, Procs
<1> QED BY <1>1, <1>2, <1>3, <1>4, <1>5

\* A call ends: the lock is released, and the sleepers of who are woken.
LEMMA ReturnKeeps ==
  ASSUME Inv, NEW p \in Procs, NEW who, Return(p, who), pc[p] \in {"loop", "copy"},
         UNCHANGED <<open, readopen>>
  PROVE  /\ pc' \in [Procs -> {"idle", "lock", "loop", "sleep", "asleep", "copy", "gone"}]
         /\ lock' \in Procs \cup {NoProc} /\ i' \in [Procs -> Nat] /\ n' \in [Procs -> Nat]
         /\ LockInv' /\ EndsInv'
         /\ pc'[p] = "idle"
         /\ \A q \in Procs \ {p} : pc'[q] = IF q \in who /\ pc[q] = "asleep" THEN "lock" ELSE pc[q]
<1> USE PipeAssumption DEF Inv, Return, wakeup
<1>1. /\ pc' \in [Procs -> {"idle", "lock", "loop", "sleep", "asleep", "copy", "gone"}]
      /\ lock' \in Procs \cup {NoProc} /\ i' \in [Procs -> Nat] /\ n' \in [Procs -> Nat]
  BY DEF TypeOK
<1>2. /\ pc'[p] = "idle"
      /\ \A q \in Procs \ {p} : pc'[q] = IF q \in who /\ pc[q] = "asleep" THEN "lock" ELSE pc[q]
  BY DEF TypeOK
<1>3. LockInv'
  BY <1>2 DEF LockInv, TypeOK
<1>4. EndsInv'
  BY <1>2 DEF EndsInv, LockInv, TypeOK
<1> QED BY <1>1, <1>2, <1>3, <1>4

\* pipewrite(): its loop sleeps only on a full ring, and leaves no reader
\* asleep over what it wrote.
LEMMA PipewriteInv ==
  ASSUME Inv, NEW p \in Procs, pipewrite(p)
  PROVE  Inv'
<1> USE PipeAssumption DEF Inv
<1>1. pc[p] = "loop" /\ p \in Writers /\ p \notin Readers /\ lock = p
      /\ UNCHANGED <<nread, readopen, writeopen, killed, open, got>>
  BY DEF pipewrite, LockInv
<1>2. \A r \in Readers : pc[r] # "copy" /\ pc[r] # "sleep"
  BY <1>1 DEF LockInv, Procs
<1>4. CASE (readopen = 0 \/ p \in killed) /\ Return(p, {}) /\ UNCHANGED <<data, nwrite, put>>
  <2>1. TypeOK'
    BY <1>1, <1>4, ReturnKeeps DEF TypeOK
  <2>2. RingInv'
    BY <1>1, <1>4 DEF RingInv
  <2>3. killed \cap Writers = {} => \A r \in Readers : pc[r] = "gone"
    BY <1>1, <1>4 DEF EndsInv, Procs
  <2>4. SleepInv'
    BY <1>1, <1>2, <1>4, <2>3, ReturnKeeps DEF SleepInv, Procs
  <2> QED BY <2>1, <2>2, <2>4, <1>1, <1>4, ReturnKeeps
<1>5. CASE readopen = 1 /\ Full /\ pc' = [wakeup(Readers) EXCEPT ![p] = "sleep"]
           /\ UNCHANGED <<data, nwrite, put, lock, i, n>>
  <2>1. TypeOK'
    BY <1>1, <1>5 DEF TypeOK, wakeup
  <2>2. RingInv'
    BY <1>1, <1>5 DEF RingInv
  <2>3. LockInv' /\ EndsInv'
    BY <1>1, <1>5 DEF LockInv, EndsInv, TypeOK, wakeup
  <2>4. put - got = PIPESIZE
    BY <1>5, FullMeans
  <2>5. SleepInv'
    BY <1>1, <1>2, <1>5, <2>4 DEF SleepInv, TypeOK, wakeup, Procs
  <2> QED BY <2>1, <2>2, <2>3, <2>5
<1>6. CASE ~Full /\ data' = [data EXCEPT ![nwrite % PIPESIZE] = put + 1]
           /\ nwrite' = inc(nwrite) /\ put' = put + 1 /\ i' = [i EXCEPT ![p] = @ + 1]
           /\ UNCHANGED <<lock, pc, n>>
  <2>1. RingInv' /\ data' \in [0 .. PIPESIZE - 1 -> Nat] /\ nwrite' \in 0 .. Wrap - 1
    BY <1>1, <1>6, StoreKeepsRing
  <2>2. TypeOK'
    <3>1. i' \in [Procs -> Nat] /\ put' \in Nat
      BY <1>6, SMTT(30) DEF TypeOK
    <3> QED BY <1>1, <1>6, <2>1, <3>1 DEF TypeOK
  <2>3. LockInv' /\ EndsInv'
    BY <1>1, <1>6 DEF LockInv, EndsInv
  <2>4. \A w \in Writers : pc[w] \notin {"sleep", "asleep"}
    BY <1>2, <1>6, FullMeans DEF SleepInv
  <2>5. SleepInv'
    BY <1>1, <1>2, <1>6, <2>4 DEF SleepInv
  <2> QED BY <2>1, <2>2, <2>3, <2>5
<1>7. CASE Return(p, Readers) /\ UNCHANGED <<data, nwrite, put>>
  <2>1. TypeOK'
    BY <1>1, <1>7, ReturnKeeps DEF TypeOK
  <2>2. RingInv'
    BY <1>1, <1>7 DEF RingInv
  <2>3. SleepInv'
    BY <1>1, <1>2, <1>7, ReturnKeeps DEF SleepInv, Procs
  <2> QED BY <2>1, <2>2, <2>3, <1>1, <1>7, ReturnKeeps
<1> QED BY <1>4, <1>5, <1>6, <1>7 DEF pipewrite
\* piperead(), waiting for data: it sleeps only on an empty ring with a writer
\* left.
LEMMA PipereadInv ==
  ASSUME Inv, NEW p \in Procs, piperead(p)
  PROVE  Inv'
<1> USE PipeAssumption DEF Inv
<1>1. pc[p] = "loop" /\ p \in Readers /\ p \notin Writers /\ lock = p
      /\ UNCHANGED <<pipeVars, killed, open, put, got>>
  BY DEF piperead, LockInv
<1>2. \A w \in Writers : pc[w] # "loop" /\ pc[w] # "sleep"
  BY <1>1 DEF LockInv, Procs
<1>3. RingInv'
  BY <1>1 DEF RingInv, pipeVars
<1>4. CASE Return(p, {})
  <2>1. TypeOK'
    BY <1>1, <1>4, ReturnKeeps DEF TypeOK, pipeVars
  <2>2. SleepInv'
    BY <1>1, <1>2, <1>4, ReturnKeeps DEF SleepInv, Procs, pipeVars
  <2> QED BY <2>1, <2>2, <1>1, <1>3, <1>4, ReturnKeeps DEF pipeVars
<1>5. CASE /\ nread = nwrite /\ writeopen = 1
           /\ pc' = [pc EXCEPT ![p] = "sleep"] /\ UNCHANGED <<lock, i, n>>
  <2>1. TypeOK'
    BY <1>1, <1>5 DEF TypeOK, pipeVars
  <2>2. LockInv' /\ EndsInv'
    BY <1>1, <1>5 DEF LockInv, EndsInv, TypeOK, pipeVars
  <2>3. put = got
    BY <1>5, EmptyMeans
  <2>4. SleepInv'
    BY <1>1, <1>2, <1>5, <2>3 DEF SleepInv, TypeOK, Procs, pipeVars
  <2> QED BY <1>3, <2>1, <2>2, <2>4
<1>6. CASE pc' = [pc EXCEPT ![p] = "copy"] /\ UNCHANGED <<lock, i, n>>
  <2>1. TypeOK'
    BY <1>1, <1>6 DEF TypeOK, pipeVars
  <2>2. LockInv' /\ EndsInv'
    BY <1>1, <1>6 DEF LockInv, EndsInv, TypeOK, pipeVars
  <2>3. SleepInv'
    BY <1>1, <1>2, <1>6 DEF SleepInv, TypeOK, Procs, pipeVars
  <2> QED BY <1>3, <2>1, <2>2, <2>3
<1> QED BY <1>4, <1>5, <1>6 DEF piperead

\* piperead(), copying: whatever it took, it wakes the writers before it
\* releases the lock.
LEMMA PipereadCopyInv ==
  ASSUME Inv, NEW p \in Procs, piperead_copy(p)
  PROVE  Inv'
<1> USE PipeAssumption DEF Inv
<1>1. pc[p] = "copy" /\ p \in Readers /\ p \notin Writers /\ lock = p
      /\ UNCHANGED <<data, nwrite, readopen, writeopen, killed, open, put>>
  BY DEF piperead_copy, LockInv
<1>2. \A w \in Writers : pc[w] # "loop" /\ pc[w] # "sleep"
  BY <1>1 DEF LockInv, Procs
<1>3. \/ UNCHANGED <<nread, got>>
      \/ nread # nwrite /\ nread' = inc(nread) /\ got' = data[nread % PIPESIZE]
  BY DEF piperead_copy
<1>4. RingInv' /\ nread' \in 0 .. Wrap - 1 /\ got' \in Nat
  <2>1. CASE UNCHANGED <<nread, got>>
    BY <1>1, <2>1 DEF RingInv, TypeOK
  <2>2. CASE nread # nwrite /\ nread' = inc(nread) /\ got' = data[nread % PIPESIZE]
    BY <1>1, <2>2, TakeKeepsRing, SMTT(30) DEF TypeOK
  <2> QED BY <1>3, <2>1, <2>2
<1>5. \A r \in Readers : pc[r] \in {"sleep", "asleep"} =>
        writeopen = 1 /\ (killed \cap Writers # {} \/ (put = got /\ nread = nwrite))
  BY <1>2, EmptyMeans DEF SleepInv
<1>6. CASE Return(p, Writers)
  <2>1. TypeOK'
    BY <1>1, <1>4, <1>6, ReturnKeeps DEF TypeOK
  <2>2. SleepInv'
    BY <1>1, <1>2, <1>3, <1>5, <1>6, ReturnKeeps, SMTT(30) DEF SleepInv, Procs
  <2> QED BY <2>1, <2>2, <1>1, <1>4, <1>6, ReturnKeeps
<1>7. CASE i' = [i EXCEPT ![p] = @ + 1] /\ UNCHANGED <<lock, pc, n>>
  <2>1. i' \in [Procs -> Nat]
    BY <1>7, SMTT(30) DEF TypeOK
  <2>2. TypeOK'
    BY <1>1, <1>4, <1>7, <2>1 DEF TypeOK
  <2>3. LockInv' /\ EndsInv'
    BY <1>1, <1>7 DEF LockInv, EndsInv
  <2>4. SleepInv'
    BY <1>1, <1>2, <1>3, <1>5, <1>7 DEF SleepInv, Procs
  <2> QED BY <1>4, <2>2, <2>3, <2>4
<1> QED BY <1>6, <1>7 DEF piperead_copy

\* pipeclose() wakes who would wait for the closed end for ever.
LEMMA PipecloseInv ==
  ASSUME Inv, NEW p \in Procs, pipeclose(p)
  PROVE  Inv'
<1> USE PipeAssumption DEF Inv
<1>1. pc[p] = "idle" /\ p \in open /\ lock = NoProc /\ open' = open \ {p}
      /\ UNCHANGED <<data, nread, nwrite, lock, i, n, killed, put, got>>
  BY DEF pipeclose
<1>2. \A q \in Procs : pc[q] \notin {"loop", "sleep", "copy"}
  BY <1>1 DEF LockInv
<1>3. RingInv'
  BY <1>1 DEF RingInv
<1>4. PICK who \in {{}, Readers, Writers} :
        /\ pc' = [wakeup(who) EXCEPT ![p] = "gone"]
        /\ \/ who = Readers /\ writeopen' = 0 /\ readopen' = readopen
           \/ /\ who = Writers /\ readopen' = 0 /\ writeopen' = writeopen
              /\ open' \cap Readers = {}
           \/ who = {} /\ UNCHANGED <<readopen, writeopen>>
  <2>1. wakeup({}) = pc
    BY DEF wakeup, TypeOK
  <2> QED BY <2>1 DEF pipeclose
<1>5. /\ pc' \in [Procs -> {"idle", "lock", "loop", "sleep", "asleep", "copy", "gone"}]
      /\ pc'[p] = "gone"
      /\ \A q \in Procs \ {p} : pc'[q] = IF q \in who /\ pc[q] = "asleep" THEN "lock" ELSE pc[q]
  BY <1>4 DEF TypeOK, wakeup
<1>6. TypeOK'
  BY <1>1, <1>4, <1>5 DEF TypeOK
<1>7. LockInv'
  BY <1>1, <1>2, <1>5 DEF LockInv
<1>8. EndsInv'
  BY <1>1, <1>4, <1>5 DEF EndsInv
<1>9. SleepInv'
  BY <1>1, <1>2, <1>4, <1>5 DEF SleepInv, Procs
<1> QED BY <1>3, <1>6, <1>7, <1>8, <1>9

\* kill() wakes a sleeper, and takes no lock.
LEMMA KillInv ==
  ASSUME Inv, NEW p \in Procs, kill(p)
  PROVE  Inv'
<1> USE PipeAssumption DEF Inv, kill, pipeVars
<1>1. TypeOK'
  BY DEF TypeOK
<1>2. RingInv'
  BY DEF RingInv
<1>3. LockInv'
  BY DEF LockInv, TypeOK
<1>4. EndsInv'
  BY DEF EndsInv, TypeOK
<1>5. SleepInv'
  BY DEF SleepInv, TypeOK, Procs
<1> QED BY <1>1, <1>2, <1>3, <1>4, <1>5

\* Every step preserves the invariant.
LEMMA NextInv == Inv /\ [Next]_vars => Inv'
<1> SUFFICES ASSUME Inv, [Next]_vars PROVE Inv'
  OBVIOUS
<1>1. CASE UNCHANGED vars
  BY <1>1 DEF Inv, TypeOK, RingInv, LockInv, EndsInv, SleepInv, vars, pipeVars, callVars
<1>2. CASE Next
  BY <1>2, CallInv, AcquireInv, SleepStepInv, PipewriteInv, PipereadInv, PipereadCopyInv,
     PipecloseInv, KillInv DEF Next, Step
<1> QED BY <1>1, <1>2

\* The invariant gives what the ring promises in terms of the wrapped counters.
LEMMA RingHolds == Inv => RingHoldsStream
<1> SUFFICES ASSUME Inv PROVE RingHoldsStream
  OBVIOUS
<1> USE PipeAssumption DEF Inv
<1>1. put \in Nat /\ got \in Nat /\ put - got \in 0 .. PIPESIZE /\ Wrap \in Nat \ {0}
  BY SMTT(30) DEF TypeOK, RingInv
<1>2. (nwrite - nread) % Wrap = put - got
  <2>1. nread \in Int /\ -nread \in Int /\ put - nread \in Int /\ put \in Int
    BY <1>1, SMTT(30) DEF TypeOK
  <2>2. (nwrite - nread) % Wrap = (put - nread) % Wrap
    <3>1. ((put % Wrap) + (-nread)) % Wrap = (put + (-nread)) % Wrap
      BY <1>1, <2>1, ModShift
    <3> QED BY <2>1, <3>1 DEF RingInv, TypeOK
  <2>3. PICK q \in Int : got = Wrap * q + nread
    <3>1. got \div Wrap \in Int /\ got = Wrap * (got \div Wrap) + (got % Wrap)
      BY <1>1, DivMod, SMTT(30)
    <3> QED BY <3>1 DEF RingInv
  <2>4. put - nread = Wrap * q + (put - got) /\ put - got \in 0 .. Wrap - 1
    BY <1>1, <2>1, <2>3, SMTT(30)
  <2>5. (Wrap * q + (put - got)) % Wrap = put - got
    BY <1>1, <2>4, RemainderUnique
  <2> QED BY <2>2, <2>4, <2>5
<1>3. ASSUME NEW k \in 1 .. put - got
      PROVE  data[(nread + k - 1) % PIPESIZE] = got + k
  <2>1. got + k \in got + 1 .. put /\ k - 1 \in Int /\ got \in Int /\ got + (k - 1) \in Nat
        /\ (got + k) - 1 = got + (k - 1) /\ nread + (k - 1) \in Nat /\ nread \in Nat
        /\ nread + k - 1 = nread + (k - 1)
    BY <1>1, SMTT(30) DEF TypeOK
  <2>2. (nread + (k - 1)) % Wrap = (got + (k - 1)) % Wrap
    <3>1. ASSUME NEW b \in Int
          PROVE  ((got % Wrap) + b) % Wrap = (got + b) % Wrap
      <4>1. got \in Int /\ Wrap \in Nat \ {0}
        BY <1>1, SMTT(30)
      <4> HIDE PipeAssumption
      <4> QED BY <4>1, ModShift
    <3> QED BY <2>1, <3>1 DEF RingInv
  <2>3. (nread + (k - 1)) % PIPESIZE = (got + (k - 1)) % PIPESIZE
    BY <2>1, <2>2, CellOfCounter
  <2>4. data[((got + k) - 1) % PIPESIZE] = got + k
    BY <2>1 DEF RingInv
  <2> QED BY <2>1, <2>3, <2>4
<1> QED BY <1>1, <1>2, <1>3 DEF RingHoldsStream

\* With the lock free nobody owes a wakeup(), so every sleeper has its reason.
LEMMA SleepersHaveReasons == Inv => NobodyForgotten
<1> SUFFICES ASSUME Inv, lock = NoProc PROVE NobodyForgotten
  BY DEF NobodyForgotten
<1>1. \A p \in Procs : pc[p] \notin {"loop", "sleep", "copy"}
  BY PipeAssumption DEF Inv, LockInv
<1> QED BY <1>1, FullMeans, EmptyMeans DEF Inv, SleepInv, NobodyForgotten, Procs
------------------------------------------------------------------------------
\* The inductive invariant holds in every reachable state.
THEOREM PipeInvariant == Spec => []Inv
  BY InitInv, NextInv, PTL DEF Spec

\* piperead() and pipewrite() hand the bytes over in order, none lost, doubled
\* or overwritten, whatever the interleaving and wherever the counters wrap.
THEOREM PipeKeepsStream == Spec => []RingHoldsStream
  BY PipeInvariant, RingHolds, PTL

\* No wakeup() is missing from pipe.c but the one a killed writer leaves out.
THEOREM PipeForgetsNobody == Spec => []NobodyForgotten
  BY PipeInvariant, SleepersHaveReasons, PTL
==============================================================================
