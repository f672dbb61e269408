---------------------------- MODULE VirtioProofs ----------------------------
(***************************************************************************)
(* For every set of processes, number of descriptors and wrapping point of *)
(* the ring indices (a multiple of it): the driver of VirtioDisk.tla never *)
(* leaks or shares a descriptor, and the device never works on a buffer    *)
(* that was given back, nor twice for one request.                         *)
(***************************************************************************)
EXTENDS VirtioDisk, FiniteSetTheorems, TLAPS

\* How far index b is ahead of index a, and the k-th cell of a ring from a on.
Dist(a, b) == IF b >= a THEN b - a ELSE b - a + Wrap
Pos(a, k) == (a + k) % NUM

\* What ring r holds from index a up to index b, and that it holds each once.
RingSet(r, a, b) == {r[Pos(a, k)] : k \in 0 .. Dist(a, b) - 1}
RingOnce(r, a, b) == \A j, k \in 0 .. Dist(a, b) - 1 : r[Pos(a, j)] = r[Pos(a, k)] => j = k

\* A ring and its indices, less than a lap apart; and the ring with cell k written.
GoodRing(r, a, b) ==
    /\ r \in [Desc -> Desc] /\ a \in 0 .. Wrap - 1 /\ b \in 0 .. Wrap - 1
    /\ Dist(a, b) < NUM /\ RingOnce(r, a, b)
Cell(r, k, d) == [r EXCEPT ![k % NUM] = d]

\* The chains the device has not taken, and those the handler has not seen.
Queued == RingSet(avail, seen, avail_idx)
Done == RingSet(used, used_idx, used_ring_idx)

\* The device owes p an answer, or the handler has to look at it.
Sent(p) == pc[p] \in {"waiting", "woken"} /\ bdisk[p] = 1

\* A chain that was sent is in the available ring, at the device or in the used
\* ring; in one of them, and once.
RingInv ==
    /\ GoodRing(avail, seen, avail_idx) /\ GoodRing(used, used_idx, used_ring_idx)
    /\ Queued \cap busy = {} /\ Queued \cap Done = {} /\ busy \cap Done = {}
    /\ \A p \in Procs : Sent(p) => idx[p] \in Queued \cup busy \cup Done
    /\ \A d \in Queued \cup busy \cup Done : \E p \in Procs : Sent(p) /\ idx[p] = d

\* The three descriptors of a request are its own, in no one else's chain, and
\* the others are free.
ChainInv ==
    /\ \A p \in Procs : InDriver(p) =>
         /\ next[idx[p]] \in Desc /\ next[next[idx[p]]] \in Desc
         /\ idx[p] # next[idx[p]] /\ idx[p] # next[next[idx[p]]] /\ next[idx[p]] # next[next[idx[p]]]
         /\ info[idx[p]] = p /\ \A e \in Chain(idx[p]) : addr[e] = p
    /\ \A p, q \in Procs : InDriver(p) /\ InDriver(q) /\ p # q => Chain(idx[p]) \cap Chain(idx[q]) = {}
    /\ \A e \in Desc : e \notin free <=> \E p \in Procs : InDriver(p) /\ e \in Chain(idx[p])

\* The process that has the lock has its chain in the next cell of the ring.
LockInv ==
    \A p \in Procs :
        /\ lock = p <=> pc[p] = "notify"
        /\ pc[p] = "notify" => avail[avail_idx % NUM] = idx[p] /\ bdisk[p] = 1

\* The transfer was made exactly when the device has answered.
ServedInv ==
    \A p \in Procs : served[p] = IF InDriver(p) /\ (bdisk[p] = 0 \/ idx[p] \in Done) THEN 1 ELSE 0

Inv == TypeOK /\ panicked # 1 /\ RingInv /\ ChainInv /\ LockInv /\ ServedInv
------------------------------------------------------------------------------
(***************************************************************************)
(* Numbers: the least of a set, and % for the indices of the rings         *)
(***************************************************************************)
\* A nonempty set of naturals has a least member: where a loop stops that
\* looks for the first of something.
LEMMA NatLeast ==
  ASSUME NEW T, T \subseteq Nat, T # {}
  PROVE  \E x \in T : \A y \in T : x <= y
<1>1. PICK x \in T : \A y \in T : ~(<<y, x>> \in OpToRel(<, Nat))
  BY NatLessThanWellFounded, WFMin, Zenon
<1>2. \A y \in T : y < x => <<y, x>> \in OpToRel(<, Nat)
  BY DEF OpToRel
<1>3. \A y \in T : ~(y < x)
  BY <1>1, <1>2, Zenon
<1> QED BY <1>3

\* What a counter is made of: how often it wrapped, and what is left of it.
LEMMA DivMod ==
  ASSUME NEW a \in Int, NEW n \in Nat \ {0}
  PROVE  /\ a \div n \in Int /\ a % n \in 0 .. n - 1
         /\ a = n * (a \div n) + (a % n)
  OBVIOUS

\* The only multiple of n closer to 0 than n is 0.
LEMMA SmallMultiple ==
  ASSUME NEW n \in Nat \ {0}, NEW q \in Int, NEW r \in Int, r < n, -n < r, n * q = r
  PROVE  r = 0
<1>1. CASE q >= 1
  BY <1>1
<1>2. CASE q <= -1
  BY <1>2
<1> QED BY <1>1, <1>2

\* The remainder is determined by any such decomposition.
LEMMA RemainderUnique ==
  ASSUME NEW n \in Nat \ {0}, NEW q \in Int, NEW r \in 0 .. n - 1
  PROVE  (n * q + r) % n = r
<1> DEFINE a == n * q + r
<1>1. a \in Int OBVIOUS
<1>2. /\ a \div n \in Int /\ a % n \in 0 .. n - 1
      /\ a = n * (a \div n) + (a % n)
  BY <1>1, DivMod
<1> HIDE DEF a
<1>3. a = n * q + r
  BY DEF a
<1>4. n * (q - (a \div n)) = (a % n) - r
  BY <1>2, <1>3
<1>5. (a % n) - r = 0
  <2>1. q - (a \div n) \in Int /\ (a % n) - r \in Int /\ (a % n) - r < n /\ -n < (a % n) - r
    BY <1>2
  <2> QED BY <2>1, <1>4, SmallMultiple
<1> QED BY <1>5, <1>2 DEF a

\* A number below n is its own remainder.
LEMMA ModSmall ==
  ASSUME NEW n \in Nat \ {0}, NEW r \in 0 .. n - 1
  PROVE  r % n = r
  OBVIOUS

\* Wrapping before an addition does not change the wrapped sum.
LEMMA ModShift ==
  ASSUME NEW a \in Int, NEW b \in Int, NEW n \in Nat \ {0}
  PROVE  ((a % n) + b) % n = (a + b) % n
<1> DEFINE q == a \div n
           c == (a % n) + b
<1>1. q \in Int /\ c \in Int /\ a + b = n * q + c
  BY DivMod
<1>2. c \div n \in Int /\ c % n \in 0 .. n - 1 /\ c = n * (c \div n) + (c % n)
  BY <1>1, DivMod
<1> HIDE DEF q, c
<1>3. a + b = n * (q + (c \div n)) + (c % n)
  BY <1>1, <1>2
<1>4. (a + b) % n = c % n
  <2>1. q + (c \div n) \in Int
    BY <1>1, <1>2
  <2> QED BY <1>2, <1>3, <2>1, RemainderUnique
<1> QED BY <1>4 DEF c

\* Two counters less than a lap apart that wrap to the same value are equal.
LEMMA ModInjective ==
  ASSUME NEW a \in Int, NEW b \in Int, NEW n \in Nat \ {0}, a % n = b % n, a - b < n, b - a < n
  PROVE  a = b
<1>1. /\ a \div n \in Int /\ a % n \in 0 .. n - 1 /\ a = n * (a \div n) + (a % n)
      /\ b \div n \in Int /\ b % n \in 0 .. n - 1 /\ b = n * (b \div n) + (b % n)
  BY DivMod
<1>2. n * ((a \div n) - (b \div n)) = a - b
  BY <1>1
<1>3. (a \div n) - (b \div n) \in Int /\ a - b \in Int /\ -n < a - b
  BY <1>1
<1>4. a - b = 0
  BY <1>2, <1>3, SmallMultiple
<1> QED BY <1>4

------------------------------------------------------------------------------
\* Steps that name no prover are found by Zenon.
USE ZenonT(60)

\* The indices are numbers below Wrap, the cells numbers below NUM.
LEMMA Sizes == NUM \in Nat \ {0} /\ Wrap \in Nat \ {0} /\ NUM <= Wrap /\ Wrap % NUM = 0 /\ Desc \subseteq Nat
  BY VirtioAssumption, SMTT(30) DEF Desc

\* There are NUM descriptors.
LEMMA DescFinite == IsFiniteSet(Desc) /\ Cardinality(Desc) = NUM
  BY Sizes, FS_Interval, SMTT(30) DEF Desc

\* The increment of a uint16.
LEMMA IncIs ==
  ASSUME NEW a \in 0 .. Wrap - 1
  PROVE  /\ inc(a) \in 0 .. Wrap - 1
         /\ a + 1 < Wrap => inc(a) = a + 1
         /\ a + 1 = Wrap => inc(a) = 0
<1>1. a + 1 < Wrap => (a + 1) % Wrap = a + 1
  <2> SUFFICES ASSUME a + 1 < Wrap PROVE (a + 1) % Wrap = a + 1
    OBVIOUS
  <2>1. a + 1 \in 0 .. Wrap - 1
    BY Sizes, SMTT(30)
  <2> QED BY <2>1, Sizes, ModSmall
<1>2. Wrap % Wrap = 0
  <2>1. 1 \in Int /\ 0 \in 0 .. Wrap - 1 /\ Wrap * 1 + 0 = Wrap
    BY Sizes, SMTT(30)
  <2>2. (Wrap * 1 + 0) % Wrap = 0
    BY <2>1, Sizes, RemainderUnique
  <2> QED BY <2>1, <2>2
<1>3. a + 1 < Wrap \/ a + 1 = Wrap
  BY Sizes, SMTT(30)
<1>4. CASE a + 1 < Wrap
  BY <1>1, <1>4, Sizes, SMTT(30) DEF inc
<1>5. CASE a + 1 = Wrap
  BY <1>2, <1>5, Sizes, SMTT(30) DEF inc
<1> QED BY <1>3, <1>4, <1>5

\* The distance between two indices, and how it changes when either moves on.
LEMMA DistIs ==
  ASSUME NEW a \in 0 .. Wrap - 1, NEW b \in 0 .. Wrap - 1
  PROVE  /\ Dist(a, b) \in 0 .. Wrap - 1 /\ (Dist(a, b) = 0 <=> a = b)
         /\ Dist(a, b) < Wrap - 1 => Dist(a, inc(b)) = Dist(a, b) + 1
         /\ Dist(a, b) > 0 => Dist(inc(a), b) = Dist(a, b) - 1
<1>1. /\ inc(a) \in 0 .. Wrap - 1 /\ (a + 1 < Wrap => inc(a) = a + 1) /\ (a + 1 = Wrap => inc(a) = 0)
      /\ inc(b) \in 0 .. Wrap - 1 /\ (b + 1 < Wrap => inc(b) = b + 1) /\ (b + 1 = Wrap => inc(b) = 0)
  BY IncIs
<1>2. Wrap \in Nat
  BY Sizes
<1> QED BY <1>1, <1>2, SMTT(30) DEF Dist

\* The cells of a ring: less than a lap apart they differ, and wrapping the
\* index does not show.
LEMMA PosIs ==
  ASSUME NEW a \in 0 .. Wrap - 1, NEW b \in 0 .. Wrap - 1
  PROVE  /\ \A k \in Nat : Pos(a, k) \in Desc
         /\ \A j, k \in 0 .. NUM - 1 : Pos(a, j) = Pos(a, k) => j = k
         /\ \A k \in Nat : Pos(inc(a), k) = Pos(a, k + 1)
         /\ Pos(a, 0) = a % NUM /\ Pos(a, Dist(a, b)) = b % NUM
         /\ a % NUM \in Desc /\ b % NUM \in Desc
<1>1. NUM \in Nat \ {0} /\ Wrap \in Nat \ {0} /\ Wrap % NUM = 0 /\ a \in Nat /\ b \in Nat
  BY Sizes, SMTT(30)
<1>2. \A x \in Nat : x % NUM \in Desc
  BY <1>1, DivMod, SMTT(30) DEF Desc
<1>3. \A x \in Nat : (Wrap + x) % NUM = x % NUM
  <2> SUFFICES ASSUME NEW x \in Nat PROVE (Wrap + x) % NUM = x % NUM
    OBVIOUS
  <2>1. Wrap \in Int /\ x \in Int /\ 0 + x = x
    BY <1>1, SMTT(30)
  <2>2. ((Wrap % NUM) + x) % NUM = (Wrap + x) % NUM
    BY <1>1, <2>1, ModShift
  <2> QED BY <1>1, <2>1, <2>2
<1>4. \A k \in Nat : a + k \in Nat
  BY <1>1, SMTT(30)
<1>5. \A k \in Nat : Pos(a, k) \in Desc
  BY <1>2, <1>4 DEF Pos
<1>6. ASSUME NEW j \in 0 .. NUM - 1, NEW k \in 0 .. NUM - 1, Pos(a, j) = Pos(a, k)
      PROVE  j = k
  <2>1. a + j \in Int /\ a + k \in Int /\ (a + j) - (a + k) < NUM /\ (a + k) - (a + j) < NUM
    BY <1>1, SMTT(30)
  <2>2. a + j = a + k
    BY <1>1, <1>6, <2>1, ModInjective DEF Pos
  <2> QED BY <1>1, <2>2, SMTT(30)
<1>7. ASSUME NEW k \in Nat
      PROVE  Pos(inc(a), k) = Pos(a, k + 1)
  <2>1. CASE a + 1 < Wrap
    <3>1. inc(a) = a + 1
      BY <2>1, IncIs
    <3>2. (a + 1) + k = a + (k + 1)
      BY <1>1, SMTT(30)
    <3> QED BY <3>1, <3>2 DEF Pos
  <2>2. CASE a + 1 = Wrap
    <3>1. inc(a) = 0 /\ 0 + k = k /\ a + (k + 1) = Wrap + k
      BY <1>1, <2>2, IncIs, SMTT(30)
    <3> QED BY <1>3, <3>1 DEF Pos
  <2> QED BY <1>1, <2>1, <2>2, SMTT(30)
<1>8. Pos(a, 0) = a % NUM
  <2>1. a + 0 = a
    BY <1>1, SMTT(30)
  <2> QED BY <2>1 DEF Pos
<1>9. Pos(a, Dist(a, b)) = b % NUM
  <2>1. a + Dist(a, b) = b \/ a + Dist(a, b) = Wrap + b
    BY <1>1, SMTT(30) DEF Dist
  <2> QED BY <1>1, <1>3, <2>1 DEF Pos
<1> QED BY <1>1, <1>2, <1>5, <1>6, <1>7, <1>8, <1>9
------------------------------------------------------------------------------
\* Writing the cell behind the end leaves what is in the ring.
LEMMA RingStage ==
  ASSUME NEW r, NEW a, NEW b, NEW d \in Desc, GoodRing(r, a, b)
  PROVE  LET s == Cell(r, b, d) IN
         GoodRing(s, a, b) /\ RingSet(s, a, b) = RingSet(r, a, b) /\ s[b % NUM] = d
<1> DEFINE n == Dist(a, b)
           s == Cell(r, b, d)
<1>0. /\ r \in [Desc -> Desc] /\ a \in 0 .. Wrap - 1 /\ b \in 0 .. Wrap - 1
      /\ n < NUM /\ RingOnce(r, a, b)
  BY DEF GoodRing
<1>1. n \in Nat /\ n \in 0 .. NUM - 1 /\ \A k \in 0 .. n - 1 : k \in Nat /\ k \in 0 .. NUM - 1 /\ k # n
  <2>1. n \in 0 .. Wrap - 1
    BY <1>0, DistIs
  <2> HIDE DEF n
  <2> QED BY <1>0, <2>1, Sizes, SMTT(30)
<1>2. /\ \A k \in Nat : Pos(a, k) \in Desc
      /\ \A j, k \in 0 .. NUM - 1 : Pos(a, j) = Pos(a, k) => j = k
      /\ Pos(a, n) = b % NUM /\ b % NUM \in Desc
  BY <1>0, PosIs
<1>3. \A k \in 0 .. n - 1 : s[Pos(a, k)] = r[Pos(a, k)]
  <2> HIDE DEF n
  <2> QED BY <1>0, <1>1, <1>2 DEF Cell
<1>4. s[b % NUM] = d /\ s \in [Desc -> Desc]
  BY <1>0, <1>2 DEF Cell
<1> HIDE DEF s
<1>5. RingSet(s, a, b) = RingSet(r, a, b)
  BY <1>3 DEF RingSet
<1>6. RingOnce(s, a, b)
  BY <1>0, <1>3 DEF RingOnce
<1> QED BY <1>0, <1>4, <1>5, <1>6 DEF s, GoodRing

\* A ring that lacks two descriptors has room for one more.
LEMMA RingRoom ==
  ASSUME NEW r, NEW a, NEW b, NEW d \in Desc, NEW e \in Desc,
         GoodRing(r, a, b), d # e, d \notin RingSet(r, a, b), e \notin RingSet(r, a, b)
  PROVE  Dist(a, b) + 1 < NUM
<1> DEFINE n == Dist(a, b)
           f == [k \in 0 .. n - 1 |-> r[Pos(a, k)]]
           T == (Desc \ {d}) \ {e}
<1>0. r \in [Desc -> Desc] /\ a \in 0 .. Wrap - 1 /\ b \in 0 .. Wrap - 1 /\ RingOnce(r, a, b)
  BY DEF GoodRing
<1>1. n \in Nat /\ \A k \in 0 .. n - 1 : k \in Nat
  BY <1>0, DistIs, Sizes, SMTT(30)
<1>2. \A k \in 0 .. n - 1 : r[Pos(a, k)] \in T
  <2>1. \A k \in 0 .. n - 1 : Pos(a, k) \in Desc
    BY <1>0, <1>1, PosIs
  <2>2. \A k \in 0 .. n - 1 : r[Pos(a, k)] \in RingSet(r, a, b)
    BY DEF RingSet
  <2> QED BY <1>0, <2>1, <2>2
<1>3. \A j, k \in 0 .. n - 1 : r[Pos(a, j)] = r[Pos(a, k)] => j = k
  BY <1>0 DEF RingOnce
<1>4. f \in Injection(0 .. n - 1, T)
  <2> HIDE DEF n, T
  <2> QED BY <1>2, <1>3 DEF Injection, IsInjective
<1>5. IsFiniteSet(T) /\ Cardinality(T) = NUM - 2
  <2>1. IsFiniteSet(Desc \ {d}) /\ Cardinality(Desc \ {d}) = NUM - 1 /\ e \in Desc \ {d}
    BY DescFinite, FS_RemoveElement
  <2>2. IsFiniteSet(T) /\ Cardinality(T) = (NUM - 1) - 1
    BY <2>1, FS_RemoveElement
  <2> QED BY <2>2, Sizes, SMTT(30)
<1>6. Cardinality(0 .. n - 1) <= Cardinality(T)
  <2> HIDE DEF n, T, f
  <2> QED BY <1>4, <1>5, FS_Injection
<1>7. Cardinality(0 .. n - 1) = n
  <2>1. 0 \in Int /\ n - 1 \in Int
    BY <1>1, SMTT(30)
  <2>2. Cardinality(0 .. n - 1) = IF 0 > n - 1 THEN 0 ELSE (n - 1) - 0 + 1
    BY <2>1, FS_Interval
  <2> HIDE DEF n
  <2> QED BY <1>1, <2>2, SMTT(30)
<1> HIDE DEF T
<1> QED BY <1>1, <1>5, <1>6, <1>7, Sizes, SMTT(30)

\* Moving the end on adds the chain in the cell behind it, when another
\* descriptor is not in the ring either.
LEMMA RingPut ==
  ASSUME NEW r, NEW a, NEW b, NEW e \in Desc, GoodRing(r, a, b),
         r[b % NUM] \notin RingSet(r, a, b), e \notin RingSet(r, a, b), e # r[b % NUM]
  PROVE  GoodRing(r, a, inc(b)) /\ RingSet(r, a, inc(b)) = RingSet(r, a, b) \cup {r[b % NUM]}
<1> DEFINE n == Dist(a, b)
<1>0. r \in [Desc -> Desc] /\ a \in 0 .. Wrap - 1 /\ b \in 0 .. Wrap - 1 /\ RingOnce(r, a, b)
  BY DEF GoodRing
<1>1. n + 1 < NUM
  <2>1. b % NUM \in Desc
    BY <1>0, PosIs
  <2>2. r[b % NUM] \in Desc
    BY <1>0, <2>1
  <2> QED BY <2>2, RingRoom
<1>2. n \in Nat /\ Dist(a, inc(b)) = n + 1 /\ Pos(a, n) = b % NUM /\ inc(b) \in 0 .. Wrap - 1
  <2>1. n \in 0 .. Wrap - 1 /\ (n < Wrap - 1 => Dist(a, inc(b)) = n + 1)
    BY <1>0, DistIs
  <2>2. Pos(a, n) = b % NUM /\ inc(b) \in 0 .. Wrap - 1
    BY <1>0, PosIs, IncIs
  <2> HIDE DEF n
  <2> QED BY <1>1, <2>1, <2>2, Sizes, SMTT(30), SMTT(60)
<1>3. \A k \in 0 .. n - 1 : r[Pos(a, k)] # r[b % NUM]
  BY DEF RingSet
<1>4. \A j, k \in 0 .. n - 1 : r[Pos(a, j)] = r[Pos(a, k)] => j = k
  BY <1>0 DEF RingOnce
<1>5. RingSet(r, a, b) = {r[Pos(a, k)] : k \in 0 .. n - 1}
  BY DEF RingSet
<1> HIDE DEF n
<1>6. \A k : k \in 0 .. (n + 1) - 1 <=> k \in 0 .. n - 1 \/ k = n
  BY <1>2, SMTT(30)
<1>7. RingSet(r, a, inc(b)) = RingSet(r, a, b) \cup {r[b % NUM]}
  <2>1. RingSet(r, a, inc(b)) = {r[Pos(a, k)] : k \in 0 .. (n + 1) - 1}
    BY <1>2 DEF RingSet
  <2> QED BY <1>2, <1>5, <1>6, <2>1
<1>8. RingOnce(r, a, inc(b))
  BY <1>2, <1>3, <1>4, <1>6 DEF RingOnce
<1> QED BY <1>0, <1>1, <1>2, <1>7, <1>8 DEF GoodRing

\* Moving the start on takes the first chain out; its cell may be cleared.
LEMMA RingGet ==
  ASSUME NEW r, NEW a, NEW b, NEW d \in Desc, GoodRing(r, a, b), a # b
  PROVE  LET s == Cell(r, a, d) IN
         /\ r[a % NUM] \in RingSet(r, a, b) /\ GoodRing(s, inc(a), b)
         /\ RingSet(s, inc(a), b) = RingSet(r, a, b) \ {r[a % NUM]}
         /\ s[b % NUM] = r[b % NUM]
<1> DEFINE n == Dist(a, b)
           s == Cell(r, a, d)
<1>0. /\ r \in [Desc -> Desc] /\ a \in 0 .. Wrap - 1 /\ b \in 0 .. Wrap - 1
      /\ n < NUM /\ RingOnce(r, a, b)
  BY DEF GoodRing
<1>1. /\ n \in Nat /\ n > 0 /\ n \in 0 .. NUM - 1 /\ Dist(inc(a), b) = n - 1
      /\ \A k \in 0 .. n - 1 : k \in Nat /\ k \in 0 .. NUM - 1
  <2>1. n \in 0 .. Wrap - 1 /\ n < NUM /\ n # 0 /\ (n > 0 => Dist(inc(a), b) = n - 1)
    BY <1>0, DistIs
  <2> HIDE DEF n
  <2> QED BY <2>1, Sizes, SMTT(30)
<1>2. /\ \A k \in Nat : Pos(a, k) \in Desc
      /\ \A j, k \in 0 .. NUM - 1 : Pos(a, j) = Pos(a, k) => j = k
      /\ \A k \in Nat : Pos(inc(a), k) = Pos(a, k + 1)
      /\ Pos(a, n) = b % NUM /\ b % NUM \in Desc /\ Pos(a, 0) = a % NUM
  BY <1>0, PosIs
<1>3. /\ RingSet(r, a, b) = {r[Pos(a, k)] : k \in 0 .. n - 1}
      /\ RingSet(s, inc(a), b) = {s[Pos(inc(a), k)] : k \in 0 .. (n - 1) - 1}
  BY <1>1 DEF RingSet
<1>4. \A j, k \in 0 .. n - 1 : r[Pos(a, j)] = r[Pos(a, k)] => j = k
  BY <1>0 DEF RingOnce
<1> HIDE DEF n
<1>5. 0 \in 0 .. NUM - 1 /\ 0 \in 0 .. n - 1
  BY <1>1, Sizes, SMTT(30)
<1>6. \A k \in 0 .. (n - 1) - 1 : k \in Nat /\ k + 1 \in 0 .. n - 1 /\ k + 1 # 0 /\ k + 1 \in Nat /\ k + 1 \in 0 .. NUM - 1
  BY <1>1, SMTT(30)
<1>7. \A k \in 0 .. n - 1 : k # 0 => k - 1 \in 0 .. (n - 1) - 1 /\ (k - 1) + 1 = k
  BY <1>1, SMTT(30)
<1>8. \A k \in 0 .. (n - 1) - 1 : s[Pos(inc(a), k)] = r[Pos(a, k + 1)]
  BY <1>0, <1>2, <1>5, <1>6 DEF Cell
<1>9. s[b % NUM] = r[b % NUM] /\ s \in [Desc -> Desc] /\ inc(a) \in 0 .. Wrap - 1
  BY <1>0, <1>1, <1>2, <1>5, IncIs, SMTT(30) DEF Cell
<1> HIDE DEF s
<1>10. r[a % NUM] \in RingSet(r, a, b)
  BY <1>2, <1>3, <1>5
<1>11. RingSet(s, inc(a), b) = RingSet(r, a, b) \ {r[a % NUM]}
  <2>1. ASSUME NEW x \in RingSet(s, inc(a), b)
        PROVE  x \in RingSet(r, a, b) /\ x # r[a % NUM]
    <3>1. PICK k \in 0 .. (n - 1) - 1 : x = s[Pos(inc(a), k)]
      BY <1>3
    <3>2. x = r[Pos(a, k + 1)] /\ k + 1 \in 0 .. n - 1 /\ k + 1 # 0
      BY <1>6, <1>8, <3>1
    <3> QED BY <1>2, <1>3, <1>4, <1>5, <3>2
  <2>2. ASSUME NEW x \in RingSet(r, a, b), x # r[a % NUM]
        PROVE  x \in RingSet(s, inc(a), b)
    <3>1. PICK k \in 0 .. n - 1 : x = r[Pos(a, k)]
      BY <1>3
    <3>2. k # 0
      BY <1>2, <2>2, <3>1
    <3>3. x = s[Pos(inc(a), k - 1)] /\ k - 1 \in 0 .. (n - 1) - 1
      BY <1>7, <1>8, <3>1, <3>2
    <3> QED BY <1>3, <3>3
  <2> QED BY <2>1, <2>2
<1>12. RingOnce(s, inc(a), b)
  <2> SUFFICES ASSUME NEW j \in 0 .. (n - 1) - 1, NEW k \in 0 .. (n - 1) - 1, s[Pos(inc(a), j)] = s[Pos(inc(a), k)]
               PROVE  j = k
    BY <1>1 DEF RingOnce
  <2>1. r[Pos(a, j + 1)] = r[Pos(a, k + 1)]
    BY <1>8
  <2>2. j + 1 = k + 1
    BY <1>4, <1>6, <2>1
  <2> QED BY <1>6, <2>2, SMTT(30)
<1>13. Dist(inc(a), b) < NUM
  BY <1>1, Sizes, SMTT(30)
<1> QED BY <1>0, <1>9, <1>10, <1>11, <1>12, <1>13 DEF s, GoodRing

------------------------------------------------------------------------------
\* The chain of a request, by descriptor.
LEMMA ChainIs ==
  ASSUME Inv, NEW p \in Procs, InDriver(p)
  PROVE  /\ idx[p] \in Desc /\ next[idx[p]] \in Desc /\ next[next[idx[p]]] \in Desc
         /\ Chain(idx[p]) = {idx[p], next[idx[p]], next[next[idx[p]]]}
         /\ \A e \in Chain(idx[p]) : e \in Desc /\ e \notin free
<1>1. idx[p] \in Desc /\ next[idx[p]] \in Desc /\ next[next[idx[p]]] \in Desc
  BY DEF Inv, TypeOK, ChainInv
<1>2. \A d \in Desc : d # End
  BY Sizes, SMTT(30) DEF Desc, End
<1>3. Chain(idx[p]) = {idx[p], next[idx[p]], next[next[idx[p]]]}
  BY <1>1, <1>2 DEF Chain, nxt
<1>4. \A e \in Chain(idx[p]) : e \in Desc /\ e \notin free
  BY <1>1, <1>3, SMTT(30) DEF Inv, ChainInv
<1> QED BY <1>1, <1>3, <1>4

\* A descriptor heads the chain of one request at most.
LEMMA OneHead ==
  ASSUME Inv, NEW p \in Procs, NEW q \in Procs, InDriver(p), InDriver(q)
  PROVE  /\ idx[p] = idx[q] => p = q
         /\ next[idx[p]] # idx[q]
<1>1. idx[p] \in Chain(idx[p]) /\ next[idx[p]] \in Chain(idx[p]) /\ idx[q] \in Chain(idx[q])
  BY ChainIs
<1>2. idx[p] # next[idx[p]]
  BY DEF Inv, ChainInv
<1> QED BY <1>1, <1>2 DEF Inv, ChainInv

\* What is in a ring or at the device was sent by a request in the driver.
LEMMA HeadsAreSent ==
  ASSUME Inv, NEW d \in Queued \cup busy \cup Done
  PROVE  d \in Desc /\ \E p \in Procs : Sent(p) /\ InDriver(p) /\ idx[p] = d
<1>1. PICK p \in Procs : Sent(p) /\ idx[p] = d
  BY DEF Inv, RingInv
<1>2. InDriver(p)
  BY <1>1 DEF Sent, InDriver
<1> QED BY <1>1, <1>2, ChainIs

\* A step that leaves the descriptors leaves the chains.
LEMMA ChainsKept ==
  ASSUME Inv, UNCHANGED <<free, next, addr, info, idx>>, \A p \in Procs : InDriver(p)' <=> InDriver(p)
  PROVE  ChainInv'
<1>1. \A d : Chain(d)' = Chain(d)
  BY DEF Chain, nxt
<1>2. \A p \in Procs : idx'[p] = idx[p] /\ Chain(idx[p])' = Chain(idx[p])
  BY DEF Chain, nxt
<1>3. \A p \in Procs : InDriver(p)' =>
         /\ next'[idx'[p]] \in Desc /\ next'[next'[idx'[p]]] \in Desc
         /\ idx'[p] # next'[idx'[p]] /\ idx'[p] # next'[next'[idx'[p]]] /\ next'[idx'[p]] # next'[next'[idx'[p]]]
         /\ info'[idx'[p]] = p /\ \A e \in Chain(idx[p])' : addr'[e] = p
  BY <1>2, SMTT(30), SMTT(60) DEF Inv, ChainInv
<1>4. \A p, q \in Procs : InDriver(p)' /\ InDriver(q)' /\ p # q => Chain(idx[p])' \cap Chain(idx[q])' = {}
  BY <1>2, SMTT(30), SMTT(60) DEF Inv, ChainInv
<1>5. \A e \in Desc : e \notin free' <=> \E p \in Procs : InDriver(p)' /\ e \in Chain(idx[p])'
  BY <1>2, SMTT(30) DEF Inv, ChainInv
<1> QED BY <1>3, <1>4, <1>5 DEF ChainInv

\* A step that only moves processes outside the driver, or puts one to sleep on
\* its request again or wakes it, or takes the lock for the handler.
LEMMA PcStep ==
  ASSUME Inv, TypeOK', panicked' # 1, UNCHANGED <<descVars, ringVars, used_idx, seen, busy, reqVars>>,
         \A p \in Procs : InDriver(p)' <=> InDriver(p),
         \A p \in Procs : pc'[p] = "notify" <=> pc[p] = "notify",
         \A p \in Procs : lock' = p <=> lock = p
  PROVE  Inv'
<1> USE DEF descVars, ringVars, reqVars
<1>1. ChainInv'
  BY ChainsKept
<1>2. \A p \in Procs : Sent(p)' <=> Sent(p)
  BY DEF Sent, InDriver
<1>3. Queued' = Queued /\ Done' = Done
  BY DEF Queued, Done, RingSet
<1>4. RingInv'
  BY <1>2, <1>3 DEF Inv, RingInv, RingOnce
<1>5. LockInv'
  BY DEF Inv, LockInv
<1>6. ServedInv'
  BY <1>3 DEF Inv, ServedInv
<1> QED BY <1>1, <1>4, <1>5, <1>6 DEF Inv

\* virtio_disk_init().
LEMMA InitInv == Init => Inv
<1> SUFFICES ASSUME Init PROVE Inv
  OBVIOUS
<1> USE DEF Init
<1>1. 0 \in Desc /\ 0 \in 0 .. Wrap - 1
  BY Sizes, SMTT(30) DEF Desc
<1>2. TypeOK
  BY <1>1, VirtioAssumption, SMTT(30) DEF TypeOK
<1>3. \A p \in Procs : ~InDriver(p) /\ ~Sent(p) /\ pc[p] # "notify"
  BY DEF InDriver, Sent
<1>4. Dist(0, 0) = 0 /\ 0 .. 0 - 1 = {}
  BY SMTT(30) DEF Dist
<1>5. Queued = {} /\ Done = {} /\ GoodRing(avail, seen, avail_idx) /\ GoodRing(used, used_idx, used_ring_idx)
  <2>1. Queued = {} /\ Done = {} /\ RingOnce(avail, seen, avail_idx) /\ RingOnce(used, used_idx, used_ring_idx)
    BY <1>4 DEF Queued, Done, RingSet, RingOnce
  <2>2. avail \in [Desc -> Desc] /\ used \in [Desc -> Desc] /\ Dist(0, 0) < NUM
    BY <1>1, <1>4, Sizes, SMTT(30)
  <2> QED BY <1>1, <2>1, <2>2 DEF GoodRing
<1>6. RingInv
  BY <1>3, <1>4, <1>5, Sizes DEF RingInv
<1>7. ChainInv /\ LockInv /\ ServedInv
  BY <1>3, VirtioAssumption DEF ChainInv, LockInv, ServedInv
<1> QED BY <1>2, <1>6, <1>7, SMTT(30) DEF Inv

\* Steps of a process that has no descriptors, of one that goes back to sleep,
\* and of kill().
LEMMA OutsideInv ==
  ASSUME Inv, NEW p \in Procs,
         \/ Call(p) \/ kill(p)
         \/ alloc3_desc(p) /\ Cardinality(free) < 3
         \/ Woken(p) /\ StillBusy(p)
  PROVE  Inv'
<1> USE DEF descVars, ringVars, reqVars, devVars
<1>1. CASE Call(p)
  <2>1. TypeOK'
    BY <1>1 DEF Call, Inv, TypeOK
  <2> QED BY <1>1, <2>1, PcStep DEF Call, Inv, TypeOK, InDriver
<1>2. CASE kill(p)
  <2>1. TypeOK'
    <3>1. pc' \in [Procs -> {"idle", "start", "nodesc", "notify", "waiting", "woken"}] /\ kills' \in Nat
      BY <1>2, SMTT(30) DEF kill, Inv, TypeOK
    <3> QED BY <1>2, <3>1 DEF kill, Inv, TypeOK
  <2> QED BY <1>2, <2>1, PcStep DEF kill, Inv, TypeOK, InDriver
<1>3. CASE alloc3_desc(p) /\ Cardinality(free) < 3
  <2>1. IsFiniteSet(free)
    <3>1. free \in SUBSET Desc
      BY DEF Inv, TypeOK
    <3> QED BY <3>1, DescFinite, FS_Subset
  <2>2. /\ pc[p] = "start" /\ pc' = [IF free = {} THEN pc ELSE WakeNodesc(pc) EXCEPT ![p] = "nodesc"]
        /\ UNCHANGED <<descVars, ringVars, used_idx, devVars, reqVars, lock, kills, panicked>>
    BY <1>3, <2>1, FS_CardinalityType, SMTT(30), SMTT(60) DEF alloc3_desc
  <2>3. /\ pc' \in [Procs -> {"idle", "start", "nodesc", "notify", "waiting", "woken"}] /\ pc'[p] = "nodesc"
        /\ \A q \in Procs : q # p => pc'[q] = pc[q] \/ (pc[q] = "nodesc" /\ pc'[q] = "start")
    BY <2>2 DEF WakeNodesc, Inv, TypeOK
  <2>4. TypeOK'
    BY <2>2, <2>3 DEF Inv, TypeOK
  <2>5. \A q \in Procs : (InDriver(q)' <=> InDriver(q)) /\ (pc'[q] = "notify" <=> pc[q] = "notify")
    BY <2>2, <2>3 DEF InDriver
  <2> QED BY <2>2, <2>4, <2>5, PcStep DEF Inv
<1>4. CASE Woken(p) /\ StillBusy(p)
  <2>1. /\ pc[p] = "woken" /\ pc' = [pc EXCEPT ![p] = "waiting"]
        /\ UNCHANGED <<descVars, ringVars, used_idx, devVars, reqVars, lock, kills, panicked>>
    BY <1>4 DEF Woken
  <2>2. TypeOK'
    BY <2>1 DEF Inv, TypeOK
  <2> QED BY <2>1, <2>2, PcStep DEF Inv, TypeOK, InDriver
<1> QED BY <1>1, <1>2, <1>3, <1>4

\* The handler takes the lock, gives it up, or panics.
LEMMA HandlerInv ==
  ASSUME Inv, \/ virtio_disk_intr \/ IntrReturn
              \/ IntrStep /\ status[used[used_idx % NUM]] # 0
  PROVE  Inv'
<1> USE DEF descVars, ringVars, reqVars, devVars
<1>1. \A p \in Procs : p # Nobody /\ p # Intr
  BY VirtioAssumption
<1>2. TypeOK' /\ panicked' # 1
  BY SMTT(30) DEF virtio_disk_intr, IntrReturn, IntrStep, Inv, TypeOK
<1>3. pc' = pc /\ UNCHANGED <<descVars, ringVars, used_idx, seen, busy, reqVars>> /\ \A p \in Procs : lock' = p <=> lock = p
  BY <1>1 DEF virtio_disk_intr, IntrReturn, IntrStep
<1>4. \A p \in Procs : InDriver(p)' <=> InDriver(p)
  BY <1>3 DEF InDriver
<1> QED BY <1>2, <1>3, <1>4, PcStep
------------------------------------------------------------------------------
\* alloc3_desc() takes three free descriptors.
LEMMA AllocGets ==
  ASSUME Inv, NEW p \in Procs, alloc3_desc(p), Cardinality(free) >= 3
  PROVE  \E d0, d1, d2 \in free :
           /\ d0 # d1 /\ d0 # d2 /\ d1 # d2
           /\ free' = free \ {d0, d1, d2}
           /\ next' = [next EXCEPT ![d0] = d1, ![d1] = d2, ![d2] = End]
           /\ addr' = [addr EXCEPT ![d0] = p, ![d1] = p, ![d2] = p]
           /\ status' = [status EXCEPT ![d0] = 255]
           /\ info' = [info EXCEPT ![d0] = p]
           /\ idx' = [idx EXCEPT ![p] = d0]
           /\ avail' = [avail EXCEPT ![avail_idx % NUM] = d0]
<1>1. free \subseteq Desc /\ free \subseteq Nat
  BY Sizes DEF Inv, TypeOK
<1>2. IsFiniteSet(free) /\ Cardinality(free) \in Nat
  BY <1>1, DescFinite, FS_Subset, FS_CardinalityType
<1>3. \A S : S \subseteq free /\ S # {} => Min(S) \in S
  <2> SUFFICES ASSUME NEW S, S \subseteq free, S # {} PROVE Min(S) \in S
    OBVIOUS
  <2>1. S \subseteq Nat
    BY <1>1
  <2> QED BY <2>1, NatLeast DEF Min
<1>4. free # {}
  BY <1>2, FS_EmptySet, SMTT(30)
<1>5. PICK d0 \in free : d0 = Min(free)
  BY <1>3, <1>4
<1>6. IsFiniteSet(free \ {d0}) /\ Cardinality(free \ {d0}) = Cardinality(free) - 1
  BY <1>2, <1>5, FS_RemoveElement
<1>7. free \ {d0} # {}
  BY <1>2, <1>6, FS_EmptySet, SMTT(30)
<1>8. PICK d1 \in free \ {d0} : d1 = Min(free \ {d0})
  BY <1>3, <1>7
<1>9. IsFiniteSet((free \ {d0}) \ {d1}) /\ Cardinality((free \ {d0}) \ {d1}) = Cardinality(free) - 2
  <2>1. IsFiniteSet((free \ {d0}) \ {d1}) /\ Cardinality((free \ {d0}) \ {d1}) = Cardinality(free \ {d0}) - 1
    BY <1>6, <1>8, FS_RemoveElement
  <2> QED BY <1>2, <1>6, <2>1, SMTT(30)
<1>10. free \ {d0, d1} # {}
  <2>1. (free \ {d0}) \ {d1} # {}
    BY <1>2, <1>9, FS_EmptySet, SMTT(30)
  <2> QED BY <2>1
<1>11. PICK d2 \in free \ {d0, d1} : d2 = Min(free \ {d0, d1})
  BY <1>3, <1>10
<1>12. ~(Cardinality(free) < 3)
  BY <1>2, SMTT(30)
<1>13. /\ free' = free \ {d0, d1, d2}
       /\ next' = [next EXCEPT ![d0] = d1, ![d1] = d2, ![d2] = End]
       /\ addr' = [addr EXCEPT ![d0] = p, ![d1] = p, ![d2] = p]
       /\ status' = [status EXCEPT ![d0] = 255]
       /\ info' = [info EXCEPT ![d0] = p]
       /\ idx' = [idx EXCEPT ![p] = d0]
       /\ avail' = [avail EXCEPT ![avail_idx % NUM] = d0]
  BY <1>5, <1>8, <1>11, <1>12 DEF alloc3_desc
<1>14. d0 \in free /\ d1 \in free /\ d2 \in free /\ d0 # d1 /\ d0 # d2 /\ d1 # d2
  BY <1>5, <1>8, <1>11
<1> QED BY <1>13, <1>14

\* A request is put together from free descriptors; no chain and no entry of
\* the available ring is touched.
LEMMA AllocInv ==
  ASSUME Inv, NEW p \in Procs, alloc3_desc(p), Cardinality(free) >= 3
  PROVE  Inv'
<1> USE DEF descVars, ringVars, reqVars, devVars
<1>0. ~(Cardinality(free) < 3)
  <2>1. free \in SUBSET Desc
    BY DEF Inv, TypeOK
  <2>2. Cardinality(free) \in Nat
    BY <2>1, DescFinite, FS_Subset, FS_CardinalityType
  <2> QED BY <2>2, SMTT(30)
<1>1. /\ pc[p] = "start" /\ lock = Nobody /\ lock' = p
      /\ bdisk' = [bdisk EXCEPT ![p] = 1] /\ pc' = [pc EXCEPT ![p] = "notify"]
      /\ UNCHANGED <<avail_idx, used, used_ring_idx, used_idx, devVars, served, kills, panicked>>
  BY <1>0 DEF alloc3_desc
<1>2. PICK d0, d1, d2 \in free :
           /\ d0 # d1 /\ d0 # d2 /\ d1 # d2
           /\ free' = free \ {d0, d1, d2}
           /\ next' = [next EXCEPT ![d0] = d1, ![d1] = d2, ![d2] = End]
           /\ addr' = [addr EXCEPT ![d0] = p, ![d1] = p, ![d2] = p]
           /\ status' = [status EXCEPT ![d0] = 255]
           /\ info' = [info EXCEPT ![d0] = p]
           /\ idx' = [idx EXCEPT ![p] = d0]
           /\ avail' = [avail EXCEPT ![avail_idx % NUM] = d0]
  BY AllocGets
<1>3. d0 \in Desc /\ d1 \in Desc /\ d2 \in Desc /\ {d0, d1, d2} \cap {End} = {} /\ \A d \in Desc : d # End
  BY <1>2, Sizes, SMTT(30) DEF Inv, TypeOK, Desc, End
<1>4. /\ pc'[p] = "notify" /\ idx'[p] = d0 /\ bdisk'[p] = 1
      /\ \A q \in Procs : q # p => pc'[q] = pc[q] /\ idx'[q] = idx[q] /\ bdisk'[q] = bdisk[q] /\ pc[q] # "notify"
  BY <1>1, <1>2, VirtioAssumption, SMTT(30) DEF Inv, TypeOK, LockInv
<1>5. ~InDriver(p) /\ ~Sent(p) /\ InDriver(p)' /\ ~Sent(p)'
      /\ \A q \in Procs : q # p => (InDriver(q)' <=> InDriver(q)) /\ (Sent(q)' <=> Sent(q))
  BY <1>1, <1>4 DEF InDriver, Sent
<1>6. TypeOK'
  <2>1. next' \in [Desc -> Desc \cup {End}] /\ addr' \in [Desc -> Procs \cup {Nobody}]
    BY <1>2, <1>3 DEF Inv, TypeOK
  <2>2. info' \in [Desc -> Procs \cup {Nobody}] /\ status' \in [Desc -> {255} \cup Answers]
    BY <1>2, <1>3 DEF Inv, TypeOK
  <2>3. free' \subseteq Desc /\ avail' \in [Desc -> Desc] /\ idx' \in [Procs -> Desc]
    BY <1>2, <1>3 DEF Inv, TypeOK
  <2>4. pc' \in [Procs -> {"idle", "start", "nodesc", "notify", "waiting", "woken"}] /\ bdisk' \in [Procs -> {0, 1}]
    BY <1>1 DEF Inv, TypeOK
  <2> QED BY <1>1, <2>1, <2>2, <2>3, <2>4 DEF Inv, TypeOK
<1>7. ChainInv'
  <2>1. next'[d0] = d1 /\ next'[d1] = d2 /\ info'[d0] = p /\ addr'[d0] = p /\ addr'[d1] = p /\ addr'[d2] = p
        /\ \A e \in Desc : e \notin {d0, d1, d2} => next'[e] = next[e] /\ addr'[e] = addr[e] /\ info'[e] = info[e]
    BY <1>2, <1>3 DEF Inv, TypeOK
  <2>2. Chain(idx[p])' = {d0, d1, d2}
    BY <1>3, <1>4, <2>1 DEF Chain, nxt
  <2>3. ASSUME NEW q \in Procs, q # p, InDriver(q)
        PROVE  /\ Chain(idx[q])' = Chain(idx[q]) /\ Chain(idx[q]) \subseteq Desc \ {d0, d1, d2}
               /\ next'[idx[q]] = next[idx[q]] /\ next'[next[idx[q]]] = next[next[idx[q]]]
    <3>1. /\ Chain(idx[q]) = {idx[q], next[idx[q]], next[next[idx[q]]]}
          /\ \A e \in Chain(idx[q]) : e \in Desc /\ e \notin free
      BY <2>3, ChainIs
    <3>2. Chain(idx[q]) \subseteq Desc \ {d0, d1, d2}
      BY <1>2, <3>1
    <3>3. next'[idx[q]] = next[idx[q]] /\ next'[next[idx[q]]] = next[next[idx[q]]]
      BY <2>1, <3>1, <3>2
    <3>4. Chain(idx[q])' = Chain(idx[q])
      BY <1>3, <1>4, <2>3, <3>1, <3>3 DEF Chain, nxt
    <3> QED BY <3>2, <3>3, <3>4
  <2>4. ASSUME NEW q \in Procs, InDriver(q)'
        PROVE  /\ next'[idx'[q]] \in Desc /\ next'[next'[idx'[q]]] \in Desc
               /\ idx'[q] # next'[idx'[q]] /\ idx'[q] # next'[next'[idx'[q]]] /\ next'[idx'[q]] # next'[next'[idx'[q]]]
               /\ info'[idx'[q]] = q /\ \A e \in Chain(idx[q])' : addr'[e] = q
    <3>1. CASE q = p
      <4>1. idx'[q] = d0 /\ Chain(idx[q])' = {d0, d1, d2}
        BY <1>4, <2>2, <3>1
      <4>2. d0 # d1 /\ d0 # d2 /\ d1 # d2
        BY <1>2
      <4> QED BY <1>3, <2>1, <3>1, <4>1, <4>2
    <3>2. CASE q # p
      <4>1. InDriver(q) /\ idx'[q] = idx[q]
        BY <1>4, <1>5, <2>4, <3>2
      <4>2. idx[q] \in Chain(idx[q])
        BY <4>1, ChainIs
      <4> QED BY <2>1, <2>3, <3>2, <4>1, <4>2, SMTT(30), SMTT(60) DEF Inv, ChainInv
    <3> QED BY <3>1, <3>2
  <2>5. ASSUME NEW q \in Procs, NEW r \in Procs, InDriver(q)', InDriver(r)', q # r
        PROVE  Chain(idx[q])' \cap Chain(idx[r])' = {}
    <3>1. CASE q = p
      BY <1>5, <2>2, <2>3, <2>5, <3>1
    <3>2. CASE r = p
      BY <1>5, <2>2, <2>3, <2>5, <3>2
    <3>3. CASE q # p /\ r # p
      BY <1>5, <2>3, <2>5, <3>3, SMTT(30), SMTT(60) DEF Inv, ChainInv
    <3> QED BY <3>1, <3>2, <3>3
  <2>6. ASSUME NEW e \in Desc
        PROVE  e \notin free' <=> \E q \in Procs : InDriver(q)' /\ e \in Chain(idx[q])'
    <3>1. CASE e \in {d0, d1, d2}
      BY <1>2, <1>5, <2>2, <3>1
    <3>2. CASE e \notin {d0, d1, d2}
      <4>1. e \notin free' <=> \E q \in Procs : InDriver(q) /\ e \in Chain(idx[q])
        BY <1>2, <3>2 DEF Inv, ChainInv
      <4> QED BY <1>5, <2>2, <2>3, <3>2, <4>1, SMTT(30), SMTT(60)
    <3> QED BY <3>1, <3>2
  <2> QED BY <2>4, <2>5, <2>6 DEF ChainInv
<1>8. Queued' = Queued /\ Done' = Done /\ GoodRing(avail, seen, avail_idx)' /\ avail'[avail_idx % NUM] = d0
  <2>1. GoodRing(avail, seen, avail_idx) /\ d0 \in Desc
    BY <1>3 DEF Inv, RingInv
  <2>2. avail' = Cell(avail, avail_idx, d0)
    BY <1>2 DEF Cell
  <2>3. /\ RingSet(avail', seen, avail_idx) = RingSet(avail, seen, avail_idx)
        /\ GoodRing(avail', seen, avail_idx) /\ avail'[avail_idx % NUM] = d0
    BY <2>1, <2>2, RingStage, SMTT(30), SMTT(60)
  <2> QED BY <1>1, <2>3 DEF Queued, Done
<1>9. \A d \in Queued \cup busy \cup Done : d \notin free
  BY HeadsAreSent, ChainIs
<1>10. RingInv'
  <2>1. \A q \in Procs : Sent(q)' => idx'[q] \in Queued' \cup busy' \cup Done'
    BY <1>1, <1>4, <1>5, <1>8 DEF Inv, RingInv
  <2>2. \A d \in Queued' \cup busy' \cup Done' : \E q \in Procs : Sent(q)' /\ idx'[q] = d
    BY <1>1, <1>4, <1>5, <1>8, SMTT(30), SMTT(60) DEF Inv, RingInv
  <2> QED BY <1>1, <1>8, <2>1, <2>2, SMTT(30), SMTT(60) DEF Inv, RingInv, GoodRing, RingOnce
<1>11. LockInv'
  BY <1>1, <1>4, <1>8 DEF LockInv
<1>12. ServedInv'
  <2>1. d0 \notin Done
    BY <1>2, <1>9
  <2> QED BY <1>1, <1>4, <1>5, <1>8, <2>1, SMTT(30), SMTT(60) DEF Inv, ServedInv
<1> QED BY <1>1, <1>6, <1>7, <1>10, <1>11, <1>12 DEF Inv
------------------------------------------------------------------------------
\* The chain put together joins the available ring, which has room for it: its
\* second descriptor heads no chain.
LEMMA NotifyInv ==
  ASSUME Inv, NEW p \in Procs, Notify(p)
  PROVE  Inv'
<1> USE DEF descVars, ringVars, reqVars, devVars
<1>1. /\ pc[p] = "notify" /\ avail_idx' = inc(avail_idx) /\ lock' = Nobody /\ pc' = [pc EXCEPT ![p] = "waiting"]
      /\ UNCHANGED <<descVars, avail, used, used_ring_idx, used_idx, devVars, reqVars, kills, panicked>>
  BY DEF Notify
<1>2. /\ InDriver(p) /\ ~Sent(p) /\ bdisk[p] = 1 /\ lock = p /\ avail[avail_idx % NUM] = idx[p]
      /\ \A q \in Procs : q # p => pc[q] # "notify"
  BY <1>1 DEF InDriver, Sent, Inv, LockInv
<1>3. /\ pc'[p] = "waiting" /\ \A q \in Procs : q # p => pc'[q] = pc[q]
  BY <1>1 DEF Inv, TypeOK
<1>4. /\ Sent(p)' /\ \A q \in Procs : q # p => (Sent(q)' <=> Sent(q))
      /\ \A q \in Procs : InDriver(q)' <=> InDriver(q)
  BY <1>1, <1>2, <1>3 DEF Sent, InDriver
<1>5. idx[p] \in Desc /\ next[idx[p]] \in Desc /\ idx[p] # next[idx[p]]
  BY <1>2, ChainIs DEF Inv, ChainInv
<1>6. idx[p] \notin Queued \cup busy \cup Done /\ next[idx[p]] \notin Queued \cup busy \cup Done
  BY <1>2, HeadsAreSent, OneHead
<1>7. GoodRing(avail, seen, avail_idx)' /\ Queued' = Queued \cup {idx[p]} /\ Done' = Done
  <2>1. GoodRing(avail, seen, avail_idx)
    BY DEF Inv, RingInv
  <2>2. avail[avail_idx % NUM] \notin RingSet(avail, seen, avail_idx) /\ next[idx[p]] \notin RingSet(avail, seen, avail_idx)
    BY <1>2, <1>6 DEF Queued
  <2>3. GoodRing(avail, seen, inc(avail_idx))
        /\ RingSet(avail, seen, inc(avail_idx)) = RingSet(avail, seen, avail_idx) \cup {idx[p]}
    BY <1>2, <1>5, <2>1, <2>2, RingPut, SMTT(30), SMTT(60)
  <2> QED BY <1>1, <2>3 DEF Queued, Done
<1>8. TypeOK'
  <2>1. inc(avail_idx) \in 0 .. Wrap - 1
    BY IncIs DEF Inv, TypeOK
  <2>2. pc' \in [Procs -> {"idle", "start", "nodesc", "notify", "waiting", "woken"}]
    BY <1>1 DEF Inv, TypeOK
  <2> QED BY <1>1, <2>1, <2>2, SMTT(30), SMTT(60) DEF Inv, TypeOK
<1>9. ChainInv'
  BY <1>1, <1>4, ChainsKept
<1>10. RingInv'
  <2>1. \A q \in Procs : Sent(q)' => idx'[q] \in Queued' \cup busy' \cup Done'
    BY <1>1, <1>4, <1>7 DEF Inv, RingInv
  <2>2. \A d \in Queued' \cup busy' \cup Done' : \E q \in Procs : Sent(q)' /\ idx'[q] = d
    BY <1>1, <1>2, <1>4, <1>7 DEF Inv, RingInv
  <2>3. Queued' \cap busy' = {} /\ Queued' \cap Done' = {} /\ busy' \cap Done' = {}
    BY <1>1, <1>6, <1>7, SMTT(30), SMTT(60) DEF Inv, RingInv
  <2>4. GoodRing(used, used_idx, used_ring_idx)'
    BY <1>1 DEF Inv, RingInv
  <2> QED BY <1>7, <2>1, <2>2, <2>3, <2>4 DEF RingInv
<1>11. LockInv'
  BY <1>1, <1>2, <1>3, VirtioAssumption DEF LockInv
<1>12. ServedInv'
  BY <1>1, <1>4, <1>7 DEF Inv, ServedInv
<1> QED BY <1>1, <1>8, <1>9, <1>10, <1>11, <1>12 DEF Inv
------------------------------------------------------------------------------
\* A request that was answered returns: its chain, and nothing else, is freed.
LEMMA ReturnInv ==
  ASSUME Inv, NEW p \in Procs, Woken(p), ~StillBusy(p)
  PROVE  Inv'
<1> USE DEF descVars, ringVars, reqVars, devVars
<1> DEFINE C == Chain(idx[p])
<1>1. /\ pc[p] = "woken" /\ lock = Nobody
      /\ info' = [info EXCEPT ![idx[p]] = Nobody]
      /\ status' = status
      /\ panicked' = IF C \cap free # {} THEN 1 ELSE 0
      /\ free' = free \cup C
      /\ next' = [e \in Desc |-> IF e \in C THEN End ELSE next[e]]
      /\ addr' = [e \in Desc |-> IF e \in C THEN Nobody ELSE addr[e]]
      /\ pc' = [WakeNodesc(pc) EXCEPT ![p] = "idle"]
      /\ idx' = [idx EXCEPT ![p] = 0]
      /\ served' = [served EXCEPT ![p] = 0]
      /\ UNCHANGED <<ringVars, used_idx, devVars, lock, bdisk, kills>>
  BY DEF Woken
<1>2. bdisk[p] = 0 /\ InDriver(p) /\ ~Sent(p)
  BY <1>1 DEF StillBusy, InDriver, Sent, Inv, TypeOK
<1>3. C \subseteq Desc /\ C \cap free = {} /\ idx[p] \in C /\ idx[p] \in Desc
  BY <1>2, ChainIs
<1>4. /\ pc'[p] = "idle" /\ idx'[p] = 0 /\ served'[p] = 0
      /\ \A q \in Procs : q # p => /\ pc'[q] = IF pc[q] = "nodesc" THEN "start" ELSE pc[q]
                                   /\ idx'[q] = idx[q] /\ served'[q] = served[q]
  BY <1>1 DEF Inv, TypeOK, WakeNodesc
<1>5. /\ ~InDriver(p)' /\ ~Sent(p)'
      /\ \A q \in Procs : q # p => /\ (InDriver(q)' <=> InDriver(q)) /\ (Sent(q)' <=> Sent(q))
                                   /\ (pc'[q] = "notify" <=> pc[q] = "notify")
  <2>1. ~InDriver(p)' /\ ~Sent(p)'
    BY <1>4 DEF InDriver, Sent
  <2>2. ASSUME NEW q \in Procs, q # p
        PROVE  \A l \in {"notify", "waiting", "woken"} : pc'[q] = l <=> pc[q] = l
    <3>1. CASE pc[q] = "nodesc"
      BY <1>4, <2>2, <3>1
    <3>2. CASE pc[q] # "nodesc"
      BY <1>4, <2>2, <3>2
    <3> QED BY <3>1, <3>2
  <2>3. ASSUME NEW q \in Procs, q # p
        PROVE  (InDriver(q)' <=> InDriver(q)) /\ (Sent(q)' <=> Sent(q))
    <3>1. bdisk' = bdisk
      BY <1>1
    <3> QED BY <2>2, <2>3, <3>1 DEF InDriver, Sent
  <2> QED BY <2>1, <2>2, <2>3
<1>6. TypeOK' /\ panicked' = 0
  <2>1. 0 \in Desc
    BY Sizes, SMTT(30) DEF Desc
  <2>2. next' \in [Desc -> Desc \cup {End}] /\ addr' \in [Desc -> Procs \cup {Nobody}]
    BY <1>1 DEF Inv, TypeOK
  <2>3. info' \in [Desc -> Procs \cup {Nobody}] /\ idx' \in [Procs -> Desc] /\ served' \in [Procs -> Nat] /\ free' \subseteq Desc
    BY <1>1, <1>3, <2>1 DEF Inv, TypeOK
  <2>4. pc' \in [Procs -> {"idle", "start", "nodesc", "notify", "waiting", "woken"}]
    BY <1>1 DEF Inv, TypeOK, WakeNodesc
  <2>5. panicked' = 0
    BY <1>1, <1>3
  <2> QED BY <1>1, <2>2, <2>3, <2>4, <2>5, SMTT(30), SMTT(60) DEF Inv, TypeOK
<1>7. ASSUME NEW q \in Procs, q # p, InDriver(q)
      PROVE  /\ Chain(idx[q])' = Chain(idx[q]) /\ Chain(idx[q]) \subseteq Desc \ C
             /\ idx[q] \in Chain(idx[q]) /\ info'[idx[q]] = info[idx[q]]
             /\ next'[idx[q]] = next[idx[q]] /\ next'[next[idx[q]]] = next[next[idx[q]]]
             /\ \A e \in Chain(idx[q]) : addr'[e] = addr[e]
  <2>1. /\ Chain(idx[q]) = {idx[q], next[idx[q]], next[next[idx[q]]]} /\ \A e \in Chain(idx[q]) : e \in Desc
    BY <1>7, ChainIs
  <2>2. Chain(idx[q]) \cap C = {}
    BY <1>2, <1>7 DEF Inv, ChainInv
  <2> HIDE DEF C
  <2>3. Chain(idx[q]) \subseteq Desc \ C /\ idx[q] \in Chain(idx[q])
    BY <2>1, <2>2
  <2>4. next'[idx[q]] = next[idx[q]] /\ next'[next[idx[q]]] = next[next[idx[q]]] /\ \A e \in Chain(idx[q]) : addr'[e] = addr[e]
    BY <1>1, <2>1, <2>3
  <2>5. info'[idx[q]] = info[idx[q]]
    BY <1>1, <1>3, <2>3 DEF Inv, TypeOK
  <2>6. \A d \in Desc : d # End
    BY Sizes, SMTT(30) DEF Desc, End
  <2>7. Chain(idx[q])' = Chain(idx[q])
    BY <1>4, <1>7, <2>1, <2>4, <2>6 DEF Chain, nxt
  <2> QED BY <2>3, <2>4, <2>5, <2>7
<1>8. ChainInv'
  <2>1. ASSUME NEW q \in Procs, InDriver(q)'
        PROVE  /\ next'[idx'[q]] \in Desc /\ next'[next'[idx'[q]]] \in Desc
               /\ idx'[q] # next'[idx'[q]] /\ idx'[q] # next'[next'[idx'[q]]] /\ next'[idx'[q]] # next'[next'[idx'[q]]]
               /\ info'[idx'[q]] = q /\ \A e \in Chain(idx[q])' : addr'[e] = q
    <3>1. q # p /\ InDriver(q) /\ idx'[q] = idx[q]
      BY <1>4, <1>5, <2>1
    <3>2. /\ next[idx[q]] \in Desc /\ next[next[idx[q]]] \in Desc
          /\ idx[q] # next[idx[q]] /\ idx[q] # next[next[idx[q]]] /\ next[idx[q]] # next[next[idx[q]]]
          /\ info[idx[q]] = q /\ \A e \in Chain(idx[q]) : addr[e] = q
      BY <3>1 DEF Inv, ChainInv
    <3> QED BY <1>7, <3>1, <3>2
  <2>2. ASSUME NEW q \in Procs, NEW r \in Procs, InDriver(q)', InDriver(r)', q # r
        PROVE  Chain(idx[q])' \cap Chain(idx[r])' = {}
    <3>1. q # p /\ r # p /\ InDriver(q) /\ InDriver(r)
      BY <1>5, <2>2
    <3>2. Chain(idx[q]) \cap Chain(idx[r]) = {}
      BY <2>2, <3>1 DEF Inv, ChainInv
    <3> QED BY <1>7, <3>1, <3>2
  <2>3. ASSUME NEW e \in Desc
        PROVE  e \notin free' <=> \E q \in Procs : InDriver(q)' /\ e \in Chain(idx[q])'
    <3>1. e \notin free <=> \E q \in Procs : InDriver(q) /\ e \in Chain(idx[q])
      BY DEF Inv, ChainInv
    <3>2. e \notin free' <=> e \notin free /\ e \notin C
      BY <1>1
    <3>3. ASSUME NEW q \in Procs, InDriver(q)', e \in Chain(idx[q])' PROVE e \notin free'
      <4>1. q # p /\ InDriver(q)
        BY <1>5, <3>3
      <4>2. e \in Chain(idx[q]) /\ e \notin C
        BY <1>7, <3>3, <4>1
      <4> QED BY <3>1, <3>2, <4>1, <4>2
    <3>4. ASSUME e \notin free' PROVE \E q \in Procs : InDriver(q)' /\ e \in Chain(idx[q])'
      <4>1. PICK q \in Procs : InDriver(q) /\ e \in Chain(idx[q])
        BY <3>1, <3>2, <3>4
      <4>2. q # p
        BY <3>2, <3>4, <4>1
      <4>3. Chain(idx[q])' = Chain(idx[q])
        BY <1>7, <4>1, <4>2
      <4> QED BY <1>5, <4>1, <4>2, <4>3
    <3> QED BY <3>3, <3>4
  <2> QED BY <2>1, <2>2, <2>3 DEF ChainInv
<1>9. Queued' = Queued /\ Done' = Done /\ GoodRing(avail, seen, avail_idx)' /\ GoodRing(used, used_idx, used_ring_idx)'
  BY <1>1 DEF Queued, Done, Inv, RingInv
<1>10. RingInv'
  <2>1. \A q \in Procs : Sent(q)' => idx'[q] \in Queued' \cup busy' \cup Done'
    BY <1>1, <1>4, <1>5, <1>9 DEF Inv, RingInv
  <2>2. \A d \in Queued' \cup busy' \cup Done' : \E q \in Procs : Sent(q)' /\ idx'[q] = d
    <3> SUFFICES ASSUME NEW d \in Queued \cup busy \cup Done PROVE \E q \in Procs : Sent(q)' /\ idx'[q] = d
      BY <1>1, <1>9
    <3>1. PICK q \in Procs : Sent(q) /\ idx[q] = d
      BY DEF Inv, RingInv
    <3>2. q # p
      BY <1>2, <3>1
    <3> QED BY <1>4, <1>5, <3>1, <3>2
  <2> QED BY <1>1, <1>9, <2>1, <2>2 DEF Inv, RingInv
<1>11. LockInv'
  BY <1>1, <1>4, <1>5, VirtioAssumption DEF Inv, LockInv
<1>12. ServedInv'
  <2>1. served'[p] = 0 /\ ~InDriver(p)'
    BY <1>4, <1>5
  <2>2. \A q \in Procs : q # p =>
          /\ served'[q] = served[q] /\ idx'[q] = idx[q] /\ bdisk'[q] = bdisk[q] /\ (InDriver(q)' <=> InDriver(q))
    BY <1>1, <1>4, <1>5
  <2> QED BY <1>9, <2>1, <2>2 DEF Inv, ServedInv
<1>13. panicked' # 1
  BY <1>6, SMTT(30)
<1> QED BY <1>6, <1>8, <1>10, <1>11, <1>12, <1>13 DEF Inv
------------------------------------------------------------------------------
\* The device takes the first chain of the available ring; the chain a process
\* is about to add stays in its cell.
LEMMA TakesInv ==
  ASSUME Inv, DeviceTakes
  PROVE  Inv'
<1> USE DEF descVars, ringVars, reqVars, devVars
<1> DEFINE h == avail[seen % NUM]
<1>1. /\ seen # avail_idx /\ busy' = busy \cup {h} /\ avail' = Cell(avail, seen, 0) /\ seen' = inc(seen)
      /\ UNCHANGED <<descVars, avail_idx, used, used_ring_idx, used_idx, irq, lock, pc, reqVars, kills, panicked>>
  BY DEF DeviceTakes, Cell, inc
<1>2. GoodRing(avail, seen, avail_idx) /\ 0 \in Desc
  BY Sizes, SMTT(30), SMTT(60) DEF Inv, RingInv, Desc
<1>3. /\ h \in Queued /\ GoodRing(avail, seen, avail_idx)' /\ Queued' = Queued \ {h} /\ Done' = Done
      /\ avail'[avail_idx % NUM] = avail[avail_idx % NUM]
  BY <1>1, <1>2, RingGet, SMTT(30) DEF Queued, Done
<1>4. h \in Desc
  BY <1>3, HeadsAreSent
<1> HIDE DEF h
<1>5. TypeOK'
  BY <1>1, <1>3, <1>4, SMTT(30), SMTT(60) DEF Inv, TypeOK, GoodRing
<1>6. \A q \in Procs : (Sent(q)' <=> Sent(q)) /\ (InDriver(q)' <=> InDriver(q))
  BY <1>1 DEF Sent, InDriver
<1>7. ChainInv'
  BY <1>1, <1>6, ChainsKept
<1>8. RingInv'
  <2>1. Queued' \cup busy' \cup Done' = Queued \cup busy \cup Done
    BY <1>1, <1>3
  <2>2. Queued' \cap busy' = {} /\ Queued' \cap Done' = {} /\ busy' \cap Done' = {}
    BY <1>1, <1>3 DEF Inv, RingInv
  <2>3. GoodRing(used, used_idx, used_ring_idx)'
    BY <1>1 DEF Inv, RingInv
  <2>4. \A q \in Procs : Sent(q)' => idx'[q] \in Queued' \cup busy' \cup Done'
    BY <1>1, <1>6, <2>1 DEF Inv, RingInv
  <2>5. \A d \in Queued' \cup busy' \cup Done' : \E q \in Procs : Sent(q)' /\ idx'[q] = d
    BY <1>1, <1>6, <2>1 DEF Inv, RingInv
  <2> QED BY <1>3, <2>2, <2>3, <2>4, <2>5 DEF RingInv
<1>9. LockInv'
  BY <1>1, <1>3 DEF Inv, LockInv
<1>10. ServedInv'
  BY <1>1, <1>3, <1>6 DEF Inv, ServedInv
<1> QED BY <1>1, <1>5, <1>7, <1>8, <1>9, <1>10 DEF Inv

\* The device answers a chain it had: the transfer is the first for its
\* request, and the used ring has room.
LEMMA DoneInv ==
  ASSUME Inv, NEW d \in Desc, DeviceDone(d)
  PROVE  Inv'
<1> USE DEF descVars, ringVars, reqVars, devVars
<1>1. /\ d \in busy /\ busy' = busy \ {d}
      /\ served' = [q \in Procs |-> IF \A e \in Chain(d) : addr[e] = q THEN served[q] + 1 ELSE served[q]]
      /\ \E a \in Answers : status' = [status EXCEPT ![d] = a]
      /\ used' = Cell(used, used_ring_idx, d) /\ used_ring_idx' = inc(used_ring_idx) /\ irq' = 1
      /\ UNCHANGED <<free, next, addr, info, avail, avail_idx, used_idx, seen, lock, pc, idx, bdisk, kills, panicked>>
  BY DEF DeviceDone, Cell, inc
<1>2. PICK p \in Procs : Sent(p) /\ InDriver(p) /\ idx[p] = d
  BY <1>1, HeadsAreSent
<1>3. next[d] \in Desc /\ next[d] # d /\ next[d] \notin Queued \cup busy \cup Done /\ d \notin Queued \cup Done
  <2>1. next[d] \in Desc /\ next[d] # d
    BY <1>2, ChainIs DEF Inv, ChainInv
  <2>2. next[d] \notin Queued \cup busy \cup Done
    BY <1>2, HeadsAreSent, OneHead
  <2>3. d \notin Queued \cup Done
    BY <1>1 DEF Inv, RingInv
  <2> QED BY <2>1, <2>2, <2>3
<1>4. GoodRing(used, used_idx, used_ring_idx)' /\ Done' = Done \cup {d} /\ Queued' = Queued
  <2>1. GoodRing(used, used_idx, used_ring_idx)
    BY DEF Inv, RingInv
  <2>2. /\ GoodRing(used', used_idx, used_ring_idx) /\ used'[used_ring_idx % NUM] = d
        /\ RingSet(used', used_idx, used_ring_idx) = Done
    <3>1. used' = Cell(used, used_ring_idx, d) /\ d \in Desc
      BY <1>1
    <3>2. LET r == Cell(used, used_ring_idx, d) IN
          /\ GoodRing(r, used_idx, used_ring_idx) /\ r[used_ring_idx % NUM] = d
          /\ RingSet(r, used_idx, used_ring_idx) = RingSet(used, used_idx, used_ring_idx)
      BY <2>1, <3>1, RingStage, SMTT(30), SMTT(60)
    <3> QED BY <3>1, <3>2 DEF Done
  <2>3. /\ GoodRing(used', used_idx, inc(used_ring_idx))
        /\ RingSet(used', used_idx, inc(used_ring_idx)) = Done \cup {d}
    BY <1>3, <2>2, RingPut
  <2> QED BY <1>1, <2>3 DEF Queued, Done
<1>5. \A q \in Procs : (Sent(q)' <=> Sent(q)) /\ (InDriver(q)' <=> InDriver(q))
  BY <1>1 DEF Sent, InDriver
<1>6. \A q \in Procs : served'[q] = IF q = p THEN 1 ELSE served[q]
  <2>1. d \in Chain(d) /\ \A e \in Chain(d) : addr[e] = p
    <3>1. idx[p] \in Chain(idx[p])
      BY <1>2, ChainIs
    <3>2. \A e \in Chain(idx[p]) : addr[e] = p
      BY <1>2 DEF Inv, ChainInv
    <3> QED BY <1>2, <3>1, <3>2
  <2>2. bdisk[p] = 1 /\ served[p] = 0
    BY <1>2, <1>3 DEF Sent, Inv, ServedInv
  <2> QED BY <1>1, <2>1, <2>2, SMTT(30), SMTT(60)
<1>7. TypeOK'
  <2>1. served' \in [Procs -> Nat]
    <3>1. \A q \in Procs : served[q] \in Nat
      BY DEF Inv, TypeOK
    <3>2. \A q \in Procs : served[q] + 1 \in Nat
      BY <3>1, SMTT(30)
    <3> QED BY <1>1, <3>1, <3>2
  <2>2. status' \in [Desc -> {255} \cup Answers]
    <3>1. status \in [Desc -> {255} \cup Answers]
      BY DEF Inv, TypeOK
    <3>2. PICK a \in Answers : status' = [status EXCEPT ![d] = a]
      BY <1>1
    <3> QED BY <3>1, <3>2
  <2>3. used' \in [Desc -> Desc] /\ {avail_idx', used_ring_idx', used_idx', seen'} \subseteq 0 .. Wrap - 1
    <3>1. {avail_idx, used_idx, seen} \subseteq 0 .. Wrap - 1
      BY DEF Inv, TypeOK
    <3>2. used' \in [Desc -> Desc] /\ used_ring_idx' \in 0 .. Wrap - 1
      BY <1>4 DEF GoodRing
    <3> QED BY <1>1, <3>1, <3>2
  <2>4. busy' \subseteq Desc /\ irq' \in {0, 1}
    BY <1>1 DEF Inv, TypeOK
  <2> QED BY <1>1, <2>1, <2>2, <2>3, <2>4 DEF Inv, TypeOK
<1>8. ChainInv'
  BY <1>1, <1>5, ChainsKept
<1>9. RingInv'
  <2>1. Queued' \cup busy' \cup Done' = Queued \cup busy \cup Done
    BY <1>1, <1>4
  <2>2. Queued' \cap busy' = {} /\ Queued' \cap Done' = {} /\ busy' \cap Done' = {}
    BY <1>1, <1>3, <1>4, SMTT(30), SMTT(60) DEF Inv, RingInv
  <2>3. GoodRing(avail, seen, avail_idx)'
    BY <1>1 DEF Inv, RingInv
  <2>4. \A q \in Procs : Sent(q)' => idx'[q] \in Queued' \cup busy' \cup Done'
    BY <1>1, <1>5, <2>1 DEF Inv, RingInv
  <2>5. \A e \in Queued' \cup busy' \cup Done' : \E q \in Procs : Sent(q)' /\ idx'[q] = e
    BY <1>1, <1>5, <2>1 DEF Inv, RingInv
  <2> QED BY <1>4, <2>2, <2>3, <2>4, <2>5 DEF RingInv
<1>10. LockInv'
  BY <1>1 DEF Inv, LockInv
<1>11. ServedInv'
  <2>1. \A q \in Procs : q # p /\ InDriver(q) => idx[q] # d
    BY <1>2, OneHead
  <2> QED BY <1>1, <1>2, <1>4, <1>5, <1>6, <2>1 DEF Inv, ServedInv
<1> QED BY <1>1, <1>7, <1>8, <1>9, <1>10, <1>11 DEF Inv

\* The handler sees an answer: the process whose buffer info[] names is the one
\* the chain belongs to.
LEMMA StepInv ==
  ASSUME Inv, IntrStep
  PROVE  Inv'
<1> USE DEF descVars, ringVars, reqVars, devVars
<1> DEFINE id == used[used_idx % NUM]
<1>1. /\ lock = Intr /\ used_idx # used_ring_idx
      /\ UNCHANGED <<descVars, avail, avail_idx, used_ring_idx, devVars, lock, idx, served, kills>>
  BY DEF IntrStep
<1>2. CASE status[id] # 0
  <2>1. panicked' = 2 /\ UNCHANGED <<used, used_idx, pc, bdisk>>
    BY <1>2 DEF IntrStep
  <2>2. TypeOK'
    BY <1>1, <2>1, SMTT(30) DEF Inv, TypeOK
  <2> QED BY <1>1, <2>1, <2>2, PcStep, SMTT(30), SMTT(60) DEF InDriver
<1>3. CASE status[id] = 0
  <2>1. /\ bdisk' = [bdisk EXCEPT ![info[id]] = 0] /\ pc' = WakeOwner(info[id])
        /\ used' = Cell(used, used_idx, 0) /\ used_idx' = inc(used_idx) /\ panicked' = panicked
    BY <1>3 DEF IntrStep, Cell
  <2>2. GoodRing(used, used_idx, used_ring_idx) /\ 0 \in Desc
    BY Sizes, SMTT(30) DEF Inv, RingInv, Desc
  <2>3. id \in Done /\ GoodRing(used, used_idx, used_ring_idx)' /\ Done' = Done \ {id} /\ Queued' = Queued
    <3>1. /\ id \in RingSet(used, used_idx, used_ring_idx)
          /\ GoodRing(Cell(used, used_idx, 0), inc(used_idx), used_ring_idx)
          /\ RingSet(Cell(used, used_idx, 0), inc(used_idx), used_ring_idx) = RingSet(used, used_idx, used_ring_idx) \ {id}
      BY <1>1, <2>2, RingGet, SMTT(30)
    <3> QED BY <1>1, <2>1, <3>1 DEF Done, Queued
  <2> HIDE DEF id
  <2>4. PICK p \in Procs : Sent(p) /\ InDriver(p) /\ idx[p] = id
    BY <2>3, HeadsAreSent
  <2>5. info[id] = p
    BY <2>4 DEF Inv, ChainInv
  <2>6. /\ bdisk'[p] = 0 /\ pc'[p] = "woken" /\ \A q \in Procs : q # p => bdisk'[q] = bdisk[q] /\ pc'[q] = pc[q]
    BY <2>1, <2>4, <2>5 DEF WakeOwner, Sent, Inv, TypeOK
  <2>7. /\ ~Sent(p)' /\ \A q \in Procs : q # p => (Sent(q)' <=> Sent(q))
        /\ \A q \in Procs : (InDriver(q)' <=> InDriver(q)) /\ (pc'[q] = "notify" <=> pc[q] = "notify")
    BY <2>4, <2>6, SMTT(30) DEF Sent, InDriver
  <2>8. \A q \in Procs : q # p /\ InDriver(q) => idx[q] # id
    BY <2>4, OneHead
  <2>9. TypeOK'
    <3>1. bdisk' \in [Procs -> {0, 1}]
      BY <2>1, <2>5 DEF Inv, TypeOK
    <3>2. pc' \in [Procs -> {"idle", "start", "nodesc", "notify", "waiting", "woken"}]
      BY <2>1, <2>5 DEF Inv, TypeOK, WakeOwner
    <3> QED BY <1>1, <2>1, <2>3, <3>1, <3>2, SMTT(30), SMTT(60) DEF Inv, TypeOK, GoodRing
  <2>10. ChainInv'
    BY <1>1, <2>7, ChainsKept
  <2>11. RingInv'
    <3>1. id \notin Queued \cup busy
      BY <2>3 DEF Inv, RingInv
    <3>2. \A q \in Procs : Sent(q)' => idx'[q] \in Queued' \cup busy' \cup Done'
      <4> SUFFICES ASSUME NEW q \in Procs, Sent(q)' PROVE idx[q] \in Queued \cup busy \cup (Done \ {id})
        BY <1>1, <2>3
      <4>1. q # p /\ Sent(q) /\ InDriver(q)
        BY <2>7 DEF Sent, InDriver
      <4> QED BY <2>8, <4>1 DEF Inv, RingInv
    <3>3. \A d \in Queued' \cup busy' \cup Done' : \E q \in Procs : Sent(q)' /\ idx'[q] = d
      <4> SUFFICES ASSUME NEW d \in Queued \cup busy \cup (Done \ {id}) PROVE \E q \in Procs : Sent(q)' /\ idx[q] = d
        BY <1>1, <2>3
      <4>1. d # id
        BY <3>1
      <4>2. PICK q \in Procs : Sent(q) /\ idx[q] = d
        BY DEF Inv, RingInv
      <4> QED BY <2>4, <2>7, <4>1, <4>2
    <3>4. Queued' \cap busy' = {} /\ Queued' \cap Done' = {} /\ busy' \cap Done' = {}
      BY <1>1, <2>3 DEF Inv, RingInv
    <3>5. GoodRing(avail, seen, avail_idx)'
      BY <1>1 DEF Inv, RingInv
    <3> QED BY <2>3, <3>2, <3>3, <3>4, <3>5 DEF RingInv
  <2>12. LockInv'
    <3>1. pc[p] # "notify" /\ pc'[p] # "notify"
      BY <2>4, <2>6 DEF Sent
    <3>2. \A q \in Procs : (pc'[q] = "notify" <=> pc[q] = "notify") /\ (pc[q] = "notify" => bdisk'[q] = bdisk[q])
      BY <2>6, <3>1
    <3>3. UNCHANGED <<lock, avail, avail_idx, idx>>
      BY <1>1
    <3> QED BY <3>2, <3>3 DEF Inv, LockInv
  <2>13. ServedInv'
    BY <1>1, <2>3, <2>4, <2>6, <2>7, <2>8 DEF Inv, ServedInv
  <2> QED BY <2>1, <2>9, <2>10, <2>11, <2>12, <2>13 DEF Inv
<1> QED BY <1>2, <1>3
------------------------------------------------------------------------------
\* Every step of the driver and of the device keeps the invariant.
LEMMA NextInv == Inv /\ [Next]_vars => Inv'
<1> SUFFICES ASSUME Inv, [Next]_vars PROVE Inv'
  OBVIOUS
<1>1. ASSUME NEW p \in Procs, Call(p) \/ alloc3_desc(p) \/ Notify(p) \/ Woken(p) \/ kill(p)
      PROVE  Inv'
  <2>1. CASE Call(p) \/ kill(p)
    BY <2>1, OutsideInv
  <2>2. CASE alloc3_desc(p)
    <3>1. Cardinality(free) < 3 \/ Cardinality(free) >= 3
      BY <2>2 DEF alloc3_desc
    <3> QED BY <2>2, <3>1, OutsideInv, AllocInv
  <2>3. CASE Notify(p)
    BY <2>3, NotifyInv
  <2>4. CASE Woken(p)
    BY <2>4, OutsideInv, ReturnInv
  <2> QED BY <1>1, <2>1, <2>2, <2>3, <2>4
<1>2. ASSUME NEW d \in Desc, DeviceDone(d) PROVE Inv'
  BY <1>2, DoneInv
<1>3. CASE DeviceTakes
  BY <1>3, TakesInv
<1>4. CASE Handler
  BY <1>4, HandlerInv, StepInv DEF Handler
<1>5. CASE UNCHANGED vars
  <2>1. TypeOK'
    BY <1>5 DEF Inv, TypeOK, vars, descVars, ringVars, reqVars, devVars
  <2> QED BY <1>5, <2>1, PcStep DEF Inv, InDriver, vars, descVars, ringVars, reqVars, devVars
<1> QED BY <1>1, <1>2, <1>3, <1>4, <1>5 DEF Next

\* Every sent chain is in one place, once; the descriptors in use are those of
\* the requests in progress; a transfer was made for those that were answered.
THEOREM VirtioInvariant == Spec => []Inv
<1> QED BY InitInv, NextInv, PTL DEF Spec

\* Every descriptor in use belongs to the chain of one request in virtio_disk_rw(),
\* each chain has three, and free_desc() never finds one that is free already.
THEOREM DescriptorsPartitioned == Spec => []ChainsPartition
<1>1. Inv => ChainsPartition
  <2> SUFFICES ASSUME Inv PROVE ChainsPartition
    OBVIOUS
  <2>1. ASSUME NEW p \in Procs, InDriver(p) PROVE Cardinality(Chain(idx[p])) = 3
    <3> DEFINE a == idx[p]
               b == next[idx[p]]
               c == next[next[idx[p]]]
    <3>1. Chain(idx[p]) = {a, b, c} /\ a # b /\ a # c /\ b # c
      BY <2>1, ChainIs DEF Inv, ChainInv
    <3> HIDE DEF a, b, c
    <3>2. IsFiniteSet({a}) /\ Cardinality({a}) = 1
      BY FS_Singleton
    <3>3. IsFiniteSet({a} \cup {b}) /\ Cardinality({a} \cup {b}) = 2
      BY <3>1, <3>2, FS_AddElement, SMTT(30), SMTT(60)
    <3>4. Cardinality(({a} \cup {b}) \cup {c}) = 3
      BY <3>1, <3>3, FS_AddElement, SMTT(30), SMTT(60)
    <3>5. ({a} \cup {b}) \cup {c} = {a, b, c}
      OBVIOUS
    <3> QED BY <3>1, <3>4, <3>5
  <2>2. Desc \ free = UNION {Chain(idx[p]) : p \in {q \in Procs : InDriver(q)}}
    <3>1. \A e : e \in Desc \ free <=> \E p \in Procs : InDriver(p) /\ e \in Chain(idx[p])
      BY ChainIs DEF Inv, ChainInv
    <3> QED BY <3>1
  <2> QED BY <2>1, <2>2 DEF Inv, ChainInv, ChainsPartition
<1> QED BY <1>1, VirtioInvariant, PTL

\* The device only works on a chain whose process still sleeps on the buffer it
\* points into, and virtio_disk_rw() returns after exactly one transfer.
THEOREM TransfersSafe == Spec => []DmaSafe
<1>1. Inv => DmaSafe
  <2> SUFFICES ASSUME Inv PROVE DmaSafe
    OBVIOUS
  <2>1. ASSUME NEW d \in busy
        PROVE  \E p \in Procs : /\ idx[p] = d /\ (\A e \in Chain(d) : addr[e] = p)
                                /\ pc[p] \in {"waiting", "woken"} /\ bdisk[p] = 1
    <3>1. PICK p \in Procs : Sent(p) /\ InDriver(p) /\ idx[p] = d
      BY HeadsAreSent
    <3> QED BY <3>1 DEF Sent, Inv, ChainInv
  <2>2. \A p \in Procs : served[p] <= 1 /\ (InDriver(p) /\ bdisk[p] = 0 => served[p] = 1)
    BY SMTT(30) DEF Inv, ServedInv
  <2> QED BY <2>1, <2>2 DEF DmaSafe
<1> QED BY <1>1, VirtioInvariant, PTL
==============================================================================
