---------------------------- MODULE BcacheProofs ----------------------------
(***************************************************************************)
(* For every set of processes, buffers, blocks and contents: the buffer    *)
(* cache of Bcache.tla keeps one buffer per block, counts its users right, *)
(* and implements the store of BlockStore.tla.                             *)
(***************************************************************************)
EXTENDS Bcache, FiniteSetTheorems, TLAPS

\* The users of buffer x, each counted in its refcnt.
Users(x) == {p \in Procs : b[p] = x}

RefInv == \A x \in Bufs : refcnt[x] = pins[x] + Cardinality(Users(x))

\* A caller has a buffer, of a block, from bget() to the end of brelse().
CallInv ==
    \A p \in Procs :
        /\ pc[p] = "idle" <=> b[p] = NoBuf
        /\ b[p] # NoBuf => blockno[b[p]] \in Blocks
        /\ pc[p] = "hold" => valid[b[p]] = 1
        /\ dirty[p] = 1 => pc[p] = "hold"

\* The sleep lock of a buffer is held from acquiresleep() to releasesleep().
LockInv ==
    \A p \in Procs, x \in Bufs :
        lock[x] = p <=> b[p] = x /\ pc[p] \in {"locked", "hold"}

\* A buffer whose content is not on the disk is pinned, or its holder is still
\* to write it or to pin it.
CleanInv ==
    \A x \in Bufs : valid[x] = 1 =>
        /\ blockno[x] \in Blocks
        /\ \/ data[x] = disk[blockno[x]]
           \/ pins[x] = 1
           \/ \E p \in Procs : b[p] = x /\ dirty[p] = 1

Inv ==
    /\ TypeOK /\ order \in Seq(Bufs)
    /\ OneBufferPerBlock
    /\ RefInv
    /\ CallInv /\ LockInv /\ CleanInv
------------------------------------------------------------------------------
(***************************************************************************)
(* The least and the greatest of a set of numbers                          *)
(***************************************************************************)
\* A nonempty set of naturals has a least member: where a loop stops that
\* looks for the first of something.
LEMMA NatLeast ==
  ASSUME NEW T, T \subseteq Nat, T # {}
  PROVE  \E x \in T : \A y \in T : x <= y
<1>1. PICK x \in T : \A y \in T : ~(<<y, x>> \in OpToRel(<, Nat))
  BY NatLessThanWellFounded, WFMin, Zenon
<1>2. \A y \in T : y < x => <<y, x>> \in OpToRel(<, Nat)
  BY DEF OpToRel
<1>3. \A y \in T : ~(y < x)
  BY <1>1, <1>2, Zenon
<1> QED BY <1>3

\* A nonempty set of naturals with a bound has a greatest member: where a loop
\* stops that looks from the end.
LEMMA NatGreatest ==
  ASSUME NEW T, NEW m \in Nat, T \subseteq 0 .. m, T # {}
  PROVE  \E x \in T : \A y \in T : y <= x
<1> DEFINE U == {u \in Nat : \A y \in T : y <= u}
<1>1. U \subseteq Nat /\ m \in U
  OBVIOUS
<1>2. PICK x \in U : \A u \in U : x <= u
  <2> HIDE DEF U
  <2> QED BY <1>1, NatLeast
<1>3. x \in Nat /\ \A y \in T : y <= x
  OBVIOUS
<1>4. x \in T
  <2> SUFFICES ASSUME x \notin T PROVE FALSE
    OBVIOUS
  <2>1. \A y \in T : y \in Nat /\ y <= x - 1
    BY <1>3
  <2>2. x - 1 \in Nat
    <3>1. PICK y \in T : TRUE
      OBVIOUS
    <3> QED BY <1>3, <2>1, <3>1
  <2>3. x - 1 \in U
    BY <2>1, <2>2
  <2> QED BY <1>2, <1>3, <2>3
<1> QED BY <1>3, <1>4

------------------------------------------------------------------------------
(***************************************************************************)
(* The list and the counts                                                 *)
(***************************************************************************)
\* Steps that name no prover are found by Zenon.
\* What \o gives, cell by cell.
LEMMA Concatenated ==
  ASSUME NEW S, NEW s \in Seq(S), NEW t \in Seq(S)
  PROVE  /\ s \o t \in Seq(S)
         /\ Len(s \o t) = Len(s) + Len(t)
         /\ \A k \in 1 .. Len(s) + Len(t) :
              (s \o t)[k] = IF k <= Len(s) THEN s[k] ELSE t[k - Len(s)]
  BY SMTT(30), SMTT(60)

USE ZenonT(60)

\* The buffer that brelse() moves to the head of the list leaves the place it
\* had: the list is still a permutation of the buffers.
LEMMA MoveToHeadKeeps ==
  ASSUME order \in Seq(Bufs), Range(order) = Bufs, NEW x \in Bufs
  PROVE  /\ MoveToHead(x) \in Seq(Bufs) /\ Len(MoveToHead(x)) = Len(order)
         /\ Range(MoveToHead(x)) = Bufs
<1> DEFINE i == CHOOSE j \in DOMAIN order : order[j] = x
           front == SubSeq(order, 1, i - 1)
           rest == SubSeq(order, i + 1, Len(order))
           new == <<x>> \o (front \o rest)
<1>1. i \in 1 .. Len(order) /\ order[i] = x /\ Len(order) \in Nat
  BY SMTT(30) DEF Range
<1>2. MoveToHead(x) = new
  BY DEF MoveToHead, RemoveAt
<1> HIDE DEF i
<1>3. /\ front \in Seq(Bufs) /\ Len(front) = i - 1 /\ \A k \in 1 .. i - 1 : front[k] = order[k]
  BY <1>1, SMTT(30)
<1>4. /\ rest \in Seq(Bufs) /\ Len(rest) = Len(order) - i
      /\ \A k \in 1 .. Len(order) - i : rest[k] = order[i + k]
  BY <1>1, SMTT(30), SMTT(60)
<1> HIDE DEF front, rest
<1> DEFINE others == front \o rest
<1>5. /\ others \in Seq(Bufs) /\ Len(others) = Len(order) - 1
      /\ \A k \in 1 .. i - 1 : others[k] = order[k]
      /\ \A k \in i .. Len(order) - 1 : others[k] = order[k + 1]
  <2>1. /\ others \in Seq(Bufs) /\ Len(others) = Len(front) + Len(rest)
        /\ \A k \in 1 .. Len(front) + Len(rest) : others[k] =
             IF k <= Len(front) THEN front[k] ELSE rest[k - Len(front)]
    BY <1>3, <1>4, Concatenated
  <2> HIDE DEF others
  <2>2. ASSUME NEW k \in 1 .. i - 1 PROVE others[k] = order[k]
    <3>1. k \in 1 .. Len(front) + Len(rest) /\ k <= Len(front)
      BY <1>1, <1>3, <1>4, SMTT(30), SMTT(60)
    <3> QED BY <1>3, <2>1, <3>1
  <2>3. ASSUME NEW k \in i .. Len(order) - 1 PROVE others[k] = order[k + 1]
    <3>1. /\ k \in 1 .. Len(front) + Len(rest) /\ ~(k <= Len(front))
          /\ k - Len(front) \in 1 .. Len(order) - i /\ i + (k - Len(front)) = k + 1
      BY <1>1, <1>3, <1>4, SMTT(30), SMTT(60)
    <3> QED BY <1>4, <2>1, <3>1
  <2> QED BY <1>1, <1>3, <1>4, <2>1, <2>2, <2>3, SMTT(30), SMTT(60)
<1>6. /\ new \in Seq(Bufs) /\ Len(new) = Len(order) /\ new[1] = x
      /\ \A k \in 2 .. i : new[k] = order[k - 1]
      /\ \A k \in i + 1 .. Len(order) : new[k] = order[k]
  <2>1. <<x>> \in Seq(Bufs) /\ Len(<<x>>) = 1 /\ <<x>>[1] = x
    BY SMTT(30), SMTT(60)
  <2>2. /\ new \in Seq(Bufs) /\ Len(new) = 1 + Len(others)
        /\ \A k \in 1 .. 1 + Len(others) : new[k] = IF k <= 1 THEN <<x>>[k] ELSE others[k - 1]
    <3> HIDE DEF others
    <3> QED BY <1>5, <2>1, Concatenated, SMTT(30), SMTT(60) DEF others
  <2> HIDE DEF new, others
  <2>3. ASSUME NEW k \in 2 .. i PROVE new[k] = order[k - 1]
    <3>1. k \in 1 .. 1 + Len(others) /\ ~(k <= 1) /\ k - 1 \in 1 .. i - 1
      BY <1>1, <1>5, SMTT(30), SMTT(60)
    <3> QED BY <1>5, <2>2, <3>1
  <2>4. ASSUME NEW k \in i + 1 .. Len(order) PROVE new[k] = order[k]
    <3>1. /\ k \in 1 .. 1 + Len(others) /\ ~(k <= 1)
          /\ k - 1 \in i .. Len(order) - 1 /\ (k - 1) + 1 = k
      BY <1>1, <1>5, SMTT(30), SMTT(60)
    <3> QED BY <1>5, <2>2, <3>1
  <2>5. new[1] = x /\ Len(new) = Len(order)
    BY <1>1, <1>5, <2>1, <2>2, SMTT(30), SMTT(60)
  <2> QED BY <2>2, <2>3, <2>4, <2>5
<1> HIDE DEF new
<1>7. Range(new) = Bufs
  <2>1. Range(new) \subseteq Bufs
    BY <1>6, SMTT(30), SMTT(60) DEF Range
  <2>2. ASSUME NEW y \in Bufs
        PROVE  \E k \in 1 .. Len(new) : new[k] = y
    <3>1. PICK j \in 1 .. Len(order) : order[j] = y
      BY SMTT(30), SMTT(60) DEF Range
    <3>2. CASE j < i
      <4>1. j + 1 \in 2 .. i /\ j + 1 \in 1 .. Len(new) /\ (j + 1) - 1 = j
        BY <1>1, <1>6, <3>2, SMTT(30), SMTT(60)
      <4> QED BY <1>6, <3>1, <4>1
    <3>3. CASE j = i
      BY <1>1, <1>6, <3>1, <3>3, SMTT(30), SMTT(60)
    <3>4. CASE j > i
      BY <1>1, <1>6, <3>1, <3>4, SMTT(30), SMTT(60)
    <3> QED BY <1>1, <3>2, <3>3, <3>4, SMTT(30), SMTT(60)
  <2>3. DOMAIN new = 1 .. Len(new)
    BY <1>6, SMTT(30), SMTT(60)
  <2> QED BY <2>1, <2>2, <2>3 DEF Range
<1> QED BY <1>2, <1>6, <1>7

\* The list binit() builds holds every buffer once.
LEMMA SetToSeqPermutes ==
  SetToSeq(Bufs) \in Seq(Bufs) /\ Len(SetToSeq(Bufs)) = Cardinality(Bufs) /\ Range(SetToSeq(Bufs)) = Bufs
<1> DEFINE m == Cardinality(Bufs)
           f == SetToSeq(Bufs)
<1>1. m \in Nat /\ ExistsBijection(1 .. m, Bufs)
  BY BcacheAssumption, FS_CardinalityType
<1>2. \E g \in [1 .. m -> Bufs] : IsInjective(g)
  BY <1>1 DEF ExistsBijection, Bijection, Injection, IsInjective
<1>3. f \in [1 .. m -> Bufs] /\ IsInjective(f)
  <2>1. f = CHOOSE g \in [1 .. m -> Bufs] : IsInjective(g)
    BY DEF SetToSeq
  <2> HIDE DEF f, m
  <2> QED BY <1>2, <2>1
<1> HIDE DEF f, m
<1>4. f \in Seq(Bufs) /\ Len(f) = m /\ DOMAIN f = 1 .. m
  BY <1>1, <1>3, SMTT(30), SMTT(60)
<1>5. Range(f) = Bufs
  <2>1. IsFiniteSet(1 .. m) /\ Cardinality(1 .. m) = m
    BY <1>1, FS_Interval, SMTT(30), SMTT(60)
  <2> SUFFICES ASSUME NEW y \in Bufs, y \notin Range(f)
               PROVE  FALSE
    BY <1>3 DEF Range
  <2>2. IsFiniteSet(Bufs \ {y}) /\ Cardinality(Bufs \ {y}) = m - 1
    BY BcacheAssumption, FS_RemoveElement DEF m
  <2>3. f \in Injection(1 .. m, Bufs \ {y})
    BY <1>3, <1>4 DEF Injection, IsInjective, Range
  <2>4. Cardinality(1 .. m) <= Cardinality(Bufs \ {y})
    BY <2>2, <2>3, FS_Injection
  <2> QED BY <1>1, <2>1, <2>2, <2>4, SMTT(30), SMTT(60)
<1> QED BY <1>4, <1>5 DEF f, m

\* The second loop of bget() recycles a buffer that nobody uses.
LEMMA VictimUnused ==
  ASSUME order \in Seq(Bufs), \E i \in DOMAIN order : Unused(i)
  PROVE  Victim \in Bufs /\ refcnt[Victim] = 0
<1> DEFINE T == {i \in DOMAIN order : Unused(i)}
<1>1. Len(order) \in Nat /\ DOMAIN order = 1 .. Len(order) /\ T \subseteq 0 .. Len(order) /\ T # {}
  BY SMTT(30), SMTT(60)
<1>2. PICK x \in T : \A y \in T : y <= x
  <2> HIDE DEF T
  <2> QED BY <1>1, NatGreatest
<1>3. \A j \in x + 1 .. Len(order) : ~Unused(j)
  BY <1>1, <1>2, SMTT(30), SMTT(60)
<1>4. x \in DOMAIN order /\ Unused(x)
  OBVIOUS
<1>5. \E i \in DOMAIN order : Unused(i) /\ \A j \in i + 1 .. Len(order) : ~Unused(j)
  BY <1>3, <1>4
<1> DEFINE v == CHOOSE i \in DOMAIN order : Unused(i) /\ \A j \in i + 1 .. Len(order) : ~Unused(j)
<1>6. v \in DOMAIN order /\ Unused(v)
  BY <1>5
<1>7. Victim = order[v]
  BY DEF Victim
<1> HIDE DEF v
<1> QED BY <1>6, <1>7, SMTT(30), SMTT(60) DEF Unused

\* A buffer has finitely many users.
LEMMA UserCount == \A x : IsFiniteSet(Users(x)) /\ Cardinality(Users(x)) \in Nat
<1> SUFFICES ASSUME NEW x PROVE IsFiniteSet(Users(x)) /\ Cardinality(Users(x)) \in Nat
  OBVIOUS
<1>1. Users(x) \subseteq Procs
  BY DEF Users
<1>2. IsFiniteSet(Users(x))
  BY <1>1, BcacheAssumption, FS_Subset
<1> QED BY <1>2, FS_CardinalityType

\* bget() adds one user to the buffer it returns.
LEMMA UserAdded ==
  ASSUME NEW p \in Procs, NEW x \in Bufs, b \in [Procs -> Bufs \cup {NoBuf}],
         b[p] = NoBuf, b' = [b EXCEPT ![p] = x]
  PROVE  /\ Users(x)' = Users(x) \cup {p}
         /\ Cardinality(Users(x)') = Cardinality(Users(x)) + 1
         /\ Cardinality(Users(x)) \in Nat
         /\ \A y \in Bufs : y # x => Users(y)' = Users(y)
<1>1. Users(x)' = Users(x) \cup {p} /\ p \notin Users(x)
  BY BcacheAssumption DEF Users
<1>2. IsFiniteSet(Users(x))
  BY UserCount
<1>3. Cardinality(Users(x)) \in Nat
  BY UserCount
<1>4. Cardinality(Users(x) \cup {p}) = Cardinality(Users(x)) + 1
  BY <1>1, <1>2, FS_AddElement
<1>5. \A y \in Bufs : y # x => Users(y)' = Users(y)
  BY BcacheAssumption DEF Users
<1> QED BY <1>1, <1>3, <1>4, <1>5

\* brelse() takes one user from the buffer it is given.
LEMMA UserDropped ==
  ASSUME NEW p \in Procs, NEW x \in Bufs, b \in [Procs -> Bufs \cup {NoBuf}],
         b[p] = x, b' = [b EXCEPT ![p] = NoBuf]
  PROVE  /\ Cardinality(Users(x)') = Cardinality(Users(x)) - 1
         /\ Cardinality(Users(x)) \in Nat \ {0}
         /\ \A y \in Bufs : y # x => Users(y)' = Users(y)
<1>1. Users(x)' = Users(x) \ {p} /\ p \in Users(x)
  BY BcacheAssumption DEF Users
<1>2. IsFiniteSet(Users(x))
  BY UserCount
<1>3. Cardinality(Users(x)) \in Nat
  BY UserCount
<1>4. Cardinality(Users(x) \ {p}) = Cardinality(Users(x)) - 1 /\ Cardinality(Users(x) \ {p}) \in Nat
  <2>1. IsFiniteSet(Users(x) \ {p})
    BY <1>2, FS_RemoveElement
  <2> QED BY <1>1, <1>2, <2>1, FS_RemoveElement, FS_CardinalityType
<1>5. \A y \in Bufs : y # x => Users(y)' = Users(y)
  BY BcacheAssumption DEF Users
<1> QED BY <1>1, <1>3, <1>4, <1>5, SMTT(30), SMTT(60)

\* A buffer with refcnt 0 has no user and no pin.
LEMMA UnusedHasNoUser ==
  ASSUME Inv, NEW x \in Bufs, refcnt[x] = 0
  PROVE  pins[x] = 0 /\ Users(x) = {} /\ \A p \in Procs : b[p] # x
<1>1. IsFiniteSet(Users(x))
  BY UserCount
<1>2. Cardinality(Users(x)) \in Nat
  BY UserCount
<1>3. pins[x] \in {0, 1}
  BY DEF Inv, TypeOK
<1>4. refcnt[x] = pins[x] + Cardinality(Users(x))
  BY DEF Inv, RefInv
<1>5. pins[x] = 0 /\ Cardinality(Users(x)) = 0
  BY <1>2, <1>3, <1>4, SMTT(30), SMTT(60)
<1>6. Users(x) = {}
  BY <1>1, <1>5, FS_EmptySet
<1> QED BY <1>5, <1>6 DEF Users
------------------------------------------------------------------------------
(***************************************************************************)
(* The inductive invariant                                                 *)
(***************************************************************************)
\* binit() establishes the invariant.
LEMMA InitInv == Init => Inv
<1> SUFFICES ASSUME Init PROVE Inv
  OBVIOUS
<1> USE BcacheAssumption DEF Init
<1>1. TypeOK /\ order \in Seq(Bufs)
  BY SetToSeqPermutes DEF TypeOK
<1>2. OneBufferPerBlock
  BY DEF OneBufferPerBlock
<1>3. RefInv
  <2>1. \A x \in Bufs : Users(x) = {}
    BY DEF Users
  <2>2. \A x \in Bufs : Cardinality(Users(x)) = 0
    BY <2>1, FS_EmptySet
  <2>3. \A x \in Bufs : refcnt[x] = 0 /\ pins[x] = 0
    OBVIOUS
  <2>4. 0 = 0 + 0
    BY SMTT(30), SMTT(60)
  <2> QED BY <2>2, <2>3, <2>4 DEF RefInv
<1>4. CallInv /\ LockInv /\ CleanInv
  <2>1. 0 # 1
    BY SMTT(30), SMTT(60)
  <2>2. CallInv
    BY <2>1 DEF CallInv
  <2>3. LockInv
    BY DEF LockInv
  <2> QED BY <2>1, <2>2, <2>3 DEF CleanInv
<1> QED BY <1>1, <1>2, <1>3, <1>4 DEF Inv

\* bget() finds the block: one more user of its buffer.
LEMMA HitInv ==
  ASSUME Inv, NEW p \in Procs, NEW c \in Blocks, NEW x \in Bufs,
         pc[p] = "idle", Caches(x, c), Hit(p, x),
         UNCHANGED <<disk, data, lock, order, pins, dirty>>
  PROVE  Inv'
<1> USE BcacheAssumption DEF Inv, Hit, Caches
<1>1. b[p] = NoBuf /\ b \in [Procs -> Bufs \cup {NoBuf}]
  BY DEF CallInv, TypeOK
<1>2. TypeOK' /\ order' \in Seq(Bufs)
  BY SMTT(30), SMTT(60) DEF TypeOK
<1>3. OneBufferPerBlock'
  BY DEF OneBufferPerBlock
<1>4. RefInv'
  <2>1. /\ Cardinality(Users(x)') = Cardinality(Users(x)) + 1 /\ Cardinality(Users(x)) \in Nat
        /\ \A y \in Bufs : y # x => Users(y)' = Users(y)
    BY <1>1, UserAdded
  <2>2. pins[x] \in {0, 1} /\ refcnt \in [Bufs -> Nat]
    BY DEF TypeOK
  <2> QED BY <2>1, <2>2, SMTT(30), SMTT(60) DEF RefInv
<1>5. CallInv'
  BY DEF CallInv, TypeOK
<1>6. LockInv'
  BY <1>1, SMTT(30) DEF LockInv, TypeOK
<1>7. CleanInv'
  BY <1>1, SMTT(30), SMTT(60) DEF CleanInv, CallInv, TypeOK
<1> QED BY <1>2, <1>3, <1>4, <1>5, <1>6, <1>7

\* bget() does not find the block: a buffer without users is recycled.
LEMMA RecycleInv ==
  ASSUME Inv, NEW p \in Procs, NEW c \in Blocks, NEW x \in Bufs, refcnt[x] = 0,
         pc[p] = "idle", \A y \in Bufs : ~Caches(y, c), Recycle(p, x, c),
         UNCHANGED <<disk, data, lock, order, pins, dirty>>
  PROVE  Inv'
<1> USE BcacheAssumption DEF Inv, Recycle, Caches
<1>1. b[p] = NoBuf /\ b \in [Procs -> Bufs \cup {NoBuf}]
  BY DEF CallInv, TypeOK
<1>2. pins[x] = 0 /\ Users(x) = {} /\ \A q \in Procs : b[q] # x
  BY UnusedHasNoUser
<1>3. TypeOK' /\ order' \in Seq(Bufs)
  BY DEF TypeOK
<1>4. OneBufferPerBlock'
  BY DEF OneBufferPerBlock, TypeOK
<1>5. RefInv'
  <2>1. /\ Cardinality(Users(x)') = Cardinality(Users(x)) + 1
        /\ \A y \in Bufs : y # x => Users(y)' = Users(y)
    BY <1>1, UserAdded
  <2>2. Cardinality(Users(x)') = 1
    BY <1>2, <2>1, FS_EmptySet, SMTT(30), SMTT(60)
  <2>3. refcnt \in [Bufs -> Nat]
    BY DEF TypeOK
  <2> QED BY <1>2, <2>1, <2>2, <2>3, SMTT(30) DEF RefInv
<1>6. CallInv'
  BY <1>2, SMTT(30), SMTT(60) DEF CallInv, TypeOK
<1>7. LockInv'
  BY <1>1, <1>2, SMTT(30), SMTT(60) DEF LockInv, TypeOK
<1>8. CleanInv'
  BY <1>1, <1>2, SMTT(30), SMTT(60) DEF CleanInv, CallInv, TypeOK
<1> QED BY <1>3, <1>4, <1>5, <1>6, <1>7, <1>8

\* What bget() does: it finds the block, recycles, or panics.
LEMMA BgetCases ==
  ASSUME Inv, NEW p \in Procs, NEW c \in Blocks, bget(p, c)
  PROVE  \/ \E x \in Bufs : Caches(x, c) /\ Hit(p, x)
         \/ \E x \in Bufs : /\ refcnt[x] = 0 /\ \A y \in Bufs : ~Caches(y, c)
                            /\ Recycle(p, x, c)
         \/ panicked' = 1 /\ UNCHANGED <<bufVars, pc, b>>
<1>1. (\E i \in DOMAIN order : Unused(i)) => Victim \in Bufs /\ refcnt[Victim] = 0
  BY VictimUnused DEF Inv
<1> QED BY <1>1 DEF bget

\* bget() preserves the invariant.
LEMMA BgetInv ==
  ASSUME Inv, NEW p \in Procs, NEW c \in Blocks, bget(p, c)
  PROVE  Inv'
<1>1. pc[p] = "idle" /\ UNCHANGED <<disk, data, lock, order, pins, dirty>>
  BY DEF bget
<1>2. CASE panicked' = 1 /\ UNCHANGED <<bufVars, pc, b>>
  BY <1>1, <1>2, SMTT(30), SMTT(60) DEF Inv, bufVars, TypeOK, OneBufferPerBlock, RefInv, Users, CallInv, LockInv, CleanInv
<1> QED BY <1>1, <1>2, BgetCases, HitInv, RecycleInv

\* acquiresleep() takes a lock that nobody holds, or sleeps.
LEMMA AcquiresleepInv ==
  ASSUME Inv, NEW p \in Procs, acquiresleep(p)
  PROVE  Inv'
<1> USE BcacheAssumption DEF Inv
<1>1. b[p] \in Bufs /\ pc[p] = "lock"
  BY DEF acquiresleep, CallInv, TypeOK
<1>2. UNCHANGED <<disk, blockno, valid, data, refcnt, order, pins, b, dirty, panicked>>
  BY DEF acquiresleep, bufVars
<1>3. \/ lock[b[p]] = NoProc /\ lock' = [lock EXCEPT ![b[p]] = p] /\ pc' = [pc EXCEPT ![p] = "locked"]
      \/ UNCHANGED lock /\ pc' = [pc EXCEPT ![p] = "asleep"]
  BY DEF acquiresleep
<1>4. TypeOK' /\ order' \in Seq(Bufs)
  <2>1. lock' \in [Bufs -> Procs \cup {NoProc}]
    BY <1>1, <1>3 DEF TypeOK
  <2>2. pc' \in [Procs -> {"idle", "lock", "asleep", "locked", "hold", "released"}]
    BY <1>3 DEF TypeOK
  <2> QED BY <1>2, <2>1, <2>2 DEF TypeOK
<1>5. OneBufferPerBlock' /\ RefInv'
  BY <1>2 DEF OneBufferPerBlock, RefInv, Users
<1>6. CallInv'
  BY <1>1, <1>2, <1>3, SMTT(30) DEF CallInv, TypeOK
<1>7. LockInv'
  <2>1. CASE UNCHANGED lock /\ pc' = [pc EXCEPT ![p] = "asleep"]
    BY <1>1, <1>2, <2>1, SMTT(30), SMTT(60) DEF LockInv, TypeOK
  <2>2. CASE lock[b[p]] = NoProc /\ lock' = [lock EXCEPT ![b[p]] = p] /\ pc' = [pc EXCEPT ![p] = "locked"]
    BY <1>1, <1>2, <2>2, SMTT(30), SMTT(60) DEF LockInv, TypeOK
  <2> QED BY <1>3, <2>1, <2>2
<1>8. CleanInv'
  BY <1>2 DEF CleanInv
<1> QED BY <1>4, <1>5, <1>6, <1>7, <1>8

\* bread() fills the buffer from the disk unless it is valid.
LEMMA BreadInv ==
  ASSUME Inv, NEW p \in Procs, bread(p)
  PROVE  Inv'
<1> USE BcacheAssumption DEF Inv, bread
<1>1. b[p] \in Bufs /\ blockno[b[p]] \in Blocks
  BY DEF CallInv, TypeOK
<1>2. TypeOK' /\ order' \in Seq(Bufs)
  BY <1>1 DEF TypeOK
<1>3. OneBufferPerBlock' /\ RefInv'
  BY DEF OneBufferPerBlock, RefInv, Users
<1>4. CallInv'
  BY <1>1 DEF CallInv, TypeOK
<1>5. LockInv'
  BY <1>1, SMTT(30) DEF LockInv, TypeOK
<1>6. CleanInv'
  BY <1>1, SMTT(30), SMTT(60) DEF CleanInv, TypeOK
<1> QED BY <1>2, <1>3, <1>4, <1>5, <1>6

\* A holder's change is pinned already, or owed to the disk.
LEMMA ModifyInv ==
  ASSUME Inv, NEW p \in Procs, NEW v \in Vals, Modify(p, v)
  PROVE  Inv'
<1> USE BcacheAssumption DEF Inv, Modify
<1>1. b[p] \in Bufs /\ blockno[b[p]] \in Blocks /\ pins[b[p]] \in {0, 1}
  BY DEF CallInv, TypeOK
<1>2. dirty' \in [Procs -> {0, 1}] /\ dirty'[p] = 1 - pins[b[p]]
      /\ \A q \in Procs \ {p} : dirty'[q] = dirty[q]
  BY <1>1, SMTT(30), SMTT(60) DEF TypeOK
<1>3. TypeOK' /\ order' \in Seq(Bufs)
  BY <1>1, <1>2 DEF TypeOK
<1>4. OneBufferPerBlock' /\ RefInv'
  BY DEF OneBufferPerBlock, RefInv, Users
<1>5. CallInv'
  BY <1>1, <1>2 DEF CallInv, TypeOK
<1>6. LockInv'
  BY DEF LockInv
<1>7. CleanInv'
  <2>1. \A q \in Procs : q # p => ~(b[q] = b[p] /\ dirty[q] = 1)
    BY <1>1, SMTT(30), SMTT(60) DEF CallInv, LockInv
  <2>2. pins[b[p]] = 1 \/ dirty'[p] = 1
    BY <1>1, <1>2, SMTT(30), SMTT(60)
  <2> QED BY <1>1, <1>2, <2>1, <2>2, SMTT(30) DEF CleanInv, TypeOK
<1> QED BY <1>3, <1>4, <1>5, <1>6, <1>7
\* bwrite() puts the buffer on the disk, under its own block and no other's.
LEMMA BwriteInv ==
  ASSUME Inv, NEW p \in Procs, bwrite(p)
  PROVE  Inv'
<1> USE BcacheAssumption DEF Inv, bwrite, bufVars
<1>1. b[p] \in Bufs /\ blockno[b[p]] \in Blocks
  BY DEF CallInv, TypeOK
<1>2. TypeOK' /\ order' \in Seq(Bufs)
  BY <1>1 DEF TypeOK
<1>3. OneBufferPerBlock' /\ RefInv'
  BY DEF OneBufferPerBlock, RefInv, Users
<1>4. CallInv'
  BY DEF CallInv, TypeOK
<1>5. LockInv'
  BY DEF LockInv
<1>6. CleanInv'
  <2>1. disk'[blockno[b[p]]] = data[b[p]] /\ \A c \in Blocks : c # blockno[b[p]] => disk'[c] = disk[c]
    BY <1>1 DEF TypeOK
  <2>2. \A y \in Bufs : blockno[y] = blockno[b[p]] => y = b[p]
    BY <1>1 DEF OneBufferPerBlock
  <2>3. \A q \in Procs \ {p} : dirty'[q] = dirty[q]
    BY DEF TypeOK
  <2> QED BY <1>1, <2>1, <2>2, <2>3, SMTT(30) DEF CleanInv
<1> QED BY <1>2, <1>3, <1>4, <1>5, <1>6

\* bpin() adds a reference for the log.
LEMMA BpinInv ==
  ASSUME Inv, NEW p \in Procs, bpin(p)
  PROVE  Inv'
<1> USE BcacheAssumption DEF Inv, bpin
<1>1. b[p] \in Bufs
  BY SMTT(30), SMTT(60) DEF CallInv, TypeOK
<1>2. TypeOK' /\ order' \in Seq(Bufs)
  BY <1>1, SMTT(30), SMTT(60) DEF TypeOK
<1>3. OneBufferPerBlock'
  BY DEF OneBufferPerBlock
<1>4. RefInv'
  <2>1. \A x \in Bufs : Users(x)' = Users(x) /\ Cardinality(Users(x)) \in Nat
    BY UserCount DEF Users
  <2> QED BY <1>1, <2>1, SMTT(30), SMTT(60) DEF RefInv, TypeOK
<1>5. CallInv'
  BY DEF CallInv, TypeOK
<1>6. LockInv'
  BY DEF LockInv
<1>7. CleanInv'
  BY <1>1, SMTT(30) DEF CleanInv, TypeOK
<1> QED BY <1>2, <1>3, <1>4, <1>5, <1>6, <1>7

\* bunpin() gives it back, for a buffer that is on the disk.
LEMMA BunpinInv ==
  ASSUME Inv, NEW p \in Procs, bunpin(p)
  PROVE  Inv'
<1> USE BcacheAssumption DEF Inv, bunpin, callVars
<1>1. b[p] \in Bufs
  BY DEF CallInv, TypeOK
<1>2. refcnt[b[p]] = 1 + Cardinality(Users(b[p])) /\ Cardinality(Users(b[p])) \in Nat
  BY <1>1, UserCount DEF RefInv
<1>3. TypeOK' /\ order' \in Seq(Bufs)
  BY <1>1, <1>2, SMTT(30), SMTT(60) DEF TypeOK
<1>4. OneBufferPerBlock'
  BY DEF OneBufferPerBlock
<1>5. RefInv'
  <2>1. \A x \in Bufs : Users(x)' = Users(x)
    BY DEF Users
  <2> QED BY <1>1, <1>2, <2>1, SMTT(30), SMTT(60) DEF RefInv, TypeOK
<1>6. CallInv'
  BY DEF CallInv
<1>7. LockInv'
  BY DEF LockInv
<1>8. CleanInv'
  BY <1>1, SMTT(30) DEF CleanInv, TypeOK
<1> QED BY <1>3, <1>4, <1>5, <1>6, <1>7, <1>8

\* releasesleep() frees the lock of a buffer with nothing left to write or pin.
LEMMA ReleasesleepInv ==
  ASSUME Inv, NEW p \in Procs, WrittenOrLogged(p), releasesleep(p)
  PROVE  Inv'
<1> USE BcacheAssumption DEF Inv, WrittenOrLogged, releasesleep, bufVars
<1>1. b[p] \in Bufs
  BY SMTT(30), SMTT(60) DEF CallInv, TypeOK
<1>2. /\ pc' \in [Procs -> {"idle", "lock", "asleep", "locked", "hold", "released"}]
      /\ pc'[p] = "released"
      /\ \A q \in Procs \ {p} : pc'[q] = pc[q] \/ (pc[q] = "asleep" /\ pc'[q] = "lock")
  BY DEF wakeup, TypeOK
<1>3. TypeOK' /\ order' \in Seq(Bufs)
  BY <1>1, <1>2 DEF TypeOK
<1>4. OneBufferPerBlock' /\ RefInv'
  BY DEF OneBufferPerBlock, RefInv, Users
<1>5. CallInv'
  BY <1>1, <1>2, SMTT(30), SMTT(60) DEF CallInv
<1>6. LockInv'
  BY <1>1, <1>2, SMTT(30), SMTT(60) DEF LockInv, TypeOK
<1>7. CleanInv'
  BY DEF CleanInv
<1> QED BY <1>3, <1>4, <1>5, <1>6, <1>7

\* brelse() drops the reference, and the list stays a permutation.
LEMMA BrelseInv ==
  ASSUME Inv, NEW p \in Procs, brelse(p)
  PROVE  Inv'
<1> USE BcacheAssumption DEF Inv, brelse
<1>1. PICK x \in Bufs : x = b[p]
  BY SMTT(30), SMTT(60) DEF CallInv, TypeOK
<1>2. /\ Cardinality(Users(x)') = Cardinality(Users(x)) - 1
      /\ Cardinality(Users(x)) \in Nat \ {0}
      /\ \A y \in Bufs : y # x => Users(y)' = Users(y)
  <2>1. b \in [Procs -> Bufs \cup {NoBuf}] /\ b[p] = x /\ b' = [b EXCEPT ![p] = NoBuf]
    BY <1>1 DEF TypeOK
  <2> QED BY <2>1, UserDropped
<1>3. refcnt[x] - 1 \in Nat /\ refcnt[x] = pins[x] + Cardinality(Users(x)) /\ pins[x] \in {0, 1}
  BY <1>1, <1>2, SMTT(30), SMTT(60) DEF RefInv, TypeOK
<1>4. order' \in Seq(Bufs) /\ Len(order') = Cardinality(Bufs) /\ Range(order') = Bufs
  BY <1>1, MoveToHeadKeeps DEF TypeOK
<1>5. TypeOK'
  BY <1>1, <1>3, <1>4 DEF TypeOK
<1>6. OneBufferPerBlock'
  BY DEF OneBufferPerBlock
<1>7. RefInv'
  BY <1>1, <1>2, <1>3, SMTT(30), SMTT(60) DEF RefInv, TypeOK
<1>8. CallInv'
  BY <1>1 DEF CallInv, TypeOK
<1>9. LockInv'
  BY <1>1, SMTT(30) DEF LockInv, TypeOK
<1>10. CleanInv'
  BY <1>1, SMTT(30), SMTT(60) DEF CleanInv, CallInv, TypeOK
<1> QED BY <1>4, <1>5, <1>6, <1>7, <1>8, <1>9, <1>10

\* Every step preserves the invariant.
LEMMA NextInv == Inv /\ [Next]_vars => Inv'
<1> SUFFICES ASSUME Inv, [Next]_vars PROVE Inv'
  OBVIOUS
<1>1. CASE UNCHANGED vars
  BY <1>1, SMTT(30), SMTT(60) DEF Inv, TypeOK, OneBufferPerBlock, RefInv, Users, CallInv, LockInv, CleanInv,
     vars, bufVars, callVars
<1>2. CASE Next
  BY <1>2, BgetInv, ModifyInv, AcquiresleepInv, BreadInv, ReleasesleepInv, BrelseInv, BwriteInv,
     BpinInv, BunpinInv DEF Next
<1> QED BY <1>1, <1>2

\* The inductive invariant holds in every reachable state.
THEOREM BcacheInvariant == Spec => []Inv
  BY InitInv, NextInv, PTL DEF Spec

\* bget() never gives two buffers to one block, however many processes miss it
\* at once.
THEOREM OneBuffer == Spec => []OneBufferPerBlock
<1>1. Inv => OneBufferPerBlock
  BY DEF Inv
<1> QED BY <1>1, BcacheInvariant, PTL

\* refcnt is the number of users and pins at every step of bget(), brelse(),
\* bpin() and bunpin().
THEOREM RefsAreCounted == Spec => []RefsCounted
<1>1. Inv => RefsCounted
  BY DEF Inv, RefInv, Users, RefsCounted
<1> QED BY <1>1, BcacheInvariant, PTL

\* Who sleeps in acquiresleep() sleeps for a lock that someone holds.
SleepHeld == \A p \in Procs : pc[p] = "asleep" => lock[b[p]] # NoProc

\* releasesleep() wakes every sleeper of the lock it frees, and acquiresleep()
\* looks at the lock and sleeps in one step.
LEMMA SleepHeldStep == Inv /\ SleepHeld /\ [Next]_vars => SleepHeld'
<1> SUFFICES ASSUME Inv, SleepHeld, [Next]_vars, NEW q \in Procs, pc'[q] = "asleep"
             PROVE  lock'[b'[q]] # NoProc
  BY DEF SleepHeld
<1> USE BcacheAssumption DEF Inv, SleepHeld
<1>1. CASE UNCHANGED vars
  BY <1>1 DEF vars, callVars
<1>2. ASSUME NEW p \in Procs, acquiresleep(p) PROVE lock'[b'[q]] # NoProc
  <2>1. b'[q] = b[q] /\ (q # p => pc[q] = "asleep" /\ b[q] \in Bufs)
    BY <1>2 DEF acquiresleep, CallInv, TypeOK
  <2>2. CASE lock[b[p]] = NoProc
    <3>1. q # p /\ lock' = [lock EXCEPT ![b[p]] = p] /\ p # NoProc
      BY <1>2, <2>2 DEF acquiresleep, TypeOK
    <3> QED BY <2>1, <3>1 DEF TypeOK
  <2>3. CASE lock[b[p]] # NoProc
    BY <1>2, <2>1, <2>3 DEF acquiresleep
  <2> QED BY <2>2, <2>3
<1>3. ASSUME NEW p \in Procs, releasesleep(p) PROVE lock'[b'[q]] # NoProc
  <2>1. q # p /\ pc[q] = "asleep" /\ b[q] # b[p]
    BY <1>3 DEF releasesleep, wakeup, TypeOK
  <2>2. b[q] \in Bufs
    BY <2>1 DEF CallInv, TypeOK
  <2>3. b'[q] = b[q] /\ lock'[b[q]] = lock[b[q]]
    BY <1>3, <2>1, <2>2 DEF releasesleep, TypeOK
  <2> QED BY <2>1, <2>3
<1>4. ASSUME NEW p \in Procs, NEW c \in Blocks, bget(p, c) PROVE lock'[b'[q]] # NoProc
  BY <1>4, BgetCases, SMTT(30), SMTT(60) DEF bget, Hit, Recycle, TypeOK
<1>5. ASSUME NEW p \in Procs, NEW v \in Vals, Modify(p, v) PROVE lock'[b'[q]] # NoProc
  BY <1>5 DEF Modify
<1>6. ASSUME NEW p \in Procs, bread(p) \/ brelse(p) PROVE lock'[b'[q]] # NoProc
  <2>1. pc[q] = "asleep" /\ q # p
    BY <1>6 DEF bread, brelse, TypeOK
  <2>2. b'[q] = b[q] /\ lock' = lock
    BY <1>6, <2>1 DEF bread, brelse, TypeOK
  <2> QED BY <2>1, <2>2
<1>7. ASSUME NEW p \in Procs, bwrite(p) \/ bpin(p) \/ bunpin(p) PROVE lock'[b'[q]] # NoProc
  BY <1>7 DEF bwrite, bpin, bunpin, callVars
<1> QED BY <1>1, <1>2, <1>3, <1>4, <1>5, <1>6, <1>7 DEF Next

\* However many processes wait for one buffer, none is left asleep when its
\* lock is free: releasesleep() wakes them all.
THEOREM NoSleeperLeft == Spec => []SleepHeld
<1>1. Init => SleepHeld
  BY DEF Init, SleepHeld
<1> QED BY <1>1, SleepHeldStep, BcacheInvariant, PTL DEF Spec
------------------------------------------------------------------------------
(***************************************************************************)
(* The cache implements BlockStore                                         *)
(***************************************************************************)
Valid(x, c) == blockno[x] = c /\ valid[x] = 1
Holds(p, c) == pc[p] = "hold" /\ blockno[b[p]] = c

\* The content of a block is that of its buffer, or of the disk if it has no
\* valid one; its holder is the process that holds the buffer.
MappingInv ==
    \A c \in Blocks :
        /\ \A x \in Bufs : Valid(x, c) => Content[c] = data[x]
        /\ (\A x \in Bufs : ~Valid(x, c)) => Content[c] = disk[c]
        /\ \A p \in Procs : Holds(p, c) => Holder[c] = p
        /\ (\A p \in Procs : ~Holds(p, c)) => Holder[c] = NoProc

\* Two processes do not hold a block at once.
LEMMA OneHolder ==
  ASSUME Inv, NEW c \in Blocks, NEW p \in Procs, NEW q \in Procs, Holds(p, c), Holds(q, c)
  PROVE  p = q
<1>1. b[p] \in Bufs /\ b[q] \in Bufs
  BY BcacheAssumption DEF Inv, TypeOK, CallInv, Holds
<1>2. b[p] = b[q]
  BY <1>1, BcacheAssumption DEF Inv, OneBufferPerBlock, Holds
<1> QED BY <1>1, <1>2, SMTT(30), SMTT(60) DEF Inv, LockInv, Holds

\* The refinement mapping, in terms of the buffers.
LEMMA MappingHolds == Inv => MappingInv
<1> SUFFICES ASSUME Inv, NEW c \in Blocks
             PROVE  /\ \A x \in Bufs : Valid(x, c) => Content[c] = data[x]
                    /\ (\A x \in Bufs : ~Valid(x, c)) => Content[c] = disk[c]
                    /\ \A p \in Procs : Holds(p, c) => Holder[c] = p
                    /\ (\A p \in Procs : ~Holds(p, c)) => Holder[c] = NoProc
  BY DEF MappingInv
<1>1. ASSUME NEW x \in Bufs, Valid(x, c) PROVE Content[c] = data[x]
  <2>1. Cached(c) = {x}
    BY <1>1, BcacheAssumption DEF Cached, Valid, Inv, OneBufferPerBlock
  <2>2. (CHOOSE y \in Cached(c) : TRUE) = x
    BY <2>1
  <2> QED BY <2>1, <2>2 DEF Content
<1>2. ASSUME \A x \in Bufs : ~Valid(x, c) PROVE Content[c] = disk[c]
  <2>1. Cached(c) = {}
    BY <1>2 DEF Cached, Valid
  <2> QED BY <2>1 DEF Content
<1>3. ASSUME NEW p \in Procs, Holds(p, c) PROVE Holder[c] = p
  <2>1. Holders(c) = {p}
    BY <1>3, OneHolder DEF Holders, Holds
  <2>2. (CHOOSE q \in Holders(c) : TRUE) = p
    BY <2>1
  <2> QED BY <2>1, <2>2 DEF Holder
<1>4. ASSUME \A p \in Procs : ~Holds(p, c) PROVE Holder[c] = NoProc
  <2>1. Holders(c) = {}
    BY <1>4 DEF Holders, Holds
  <2> QED BY <2>1 DEF Holder
<1> QED BY <1>1, <1>2, <1>3, <1>4

\* A step under which every block keeps its content, and its holder.
SameContent == \A c \in Blocks : Content'[c] = Content[c]
SameHolder == \A c \in Blocks : Holder'[c] = Holder[c]

LEMMA SameStore ==
  ASSUME SameContent, SameHolder
  PROVE  UNCHANGED Store!vars
<1>1. Content' = Content
  <2>1. Content = [c \in Blocks |-> Content[c]] /\ Content' = [c \in Blocks |-> Content'[c]]
    BY SMTT(30), SMTT(60) DEF Content
  <2> QED BY <2>1 DEF SameContent
<1>2. Holder' = Holder
  <2>1. Holder = [c \in Blocks |-> Holder[c]] /\ Holder' = [c \in Blocks |-> Holder'[c]]
    BY SMTT(30), SMTT(60) DEF Holder
  <2> QED BY <2>1 DEF SameHolder
<1> QED BY <1>1, <1>2 DEF Store!vars

\* Nothing changes for a block whose buffers, disk block and holder stay.
LEMMA KeepsContent ==
  ASSUME MappingInv, MappingInv', NEW c \in Blocks, disk'[c] = disk[c],
         \A x \in Bufs : Valid(x, c)' <=> Valid(x, c),
         \A x \in Bufs : Valid(x, c) => data'[x] = data[x]
  PROVE  Content'[c] = Content[c]
<1>1. CASE \E x \in Bufs : Valid(x, c)
  BY <1>1 DEF MappingInv
<1>2. CASE \A x \in Bufs : ~Valid(x, c)
  BY <1>2 DEF MappingInv
<1> QED BY <1>1, <1>2

\* Likewise for its holder.
LEMMA KeepsHolder ==
  ASSUME MappingInv, MappingInv', NEW c \in Blocks, \A p \in Procs : Holds(p, c)' <=> Holds(p, c)
  PROVE  Holder'[c] = Holder[c]
<1>1. CASE \E p \in Procs : Holds(p, c)
  BY <1>1 DEF MappingInv
<1>2. CASE \A p \in Procs : ~Holds(p, c)
  BY <1>2 DEF MappingInv
<1> QED BY <1>1, <1>2
\* What every step may assume: the invariant and the mapping, before and after.
Mapped == Inv /\ Inv' /\ MappingInv /\ MappingInv'

\* bget() changes no content: the buffer it recycles is clean.
LEMMA BgetRefines ==
  ASSUME Mapped, NEW p \in Procs, NEW c \in Blocks, bget(p, c)
  PROVE  UNCHANGED Store!vars
<1> USE BcacheAssumption DEF Mapped
<1>1. pc[p] = "idle" /\ UNCHANGED <<disk, data, lock, order, pins, dirty>>
  BY DEF bget
<1>2. TypeOK /\ b[p] = NoBuf /\ \A q \in Procs : b[q] # NoBuf => b[q] \in Bufs
  BY <1>1, SMTT(30), SMTT(60) DEF Inv, CallInv, TypeOK
<1>3. CASE \E x \in Bufs : Caches(x, c) /\ Hit(p, x)
  <2>1. PICK x \in Bufs : Hit(p, x)
    BY <1>3
  <2>2. SameContent
    BY <1>1, <2>1, KeepsContent DEF SameContent, Valid, Hit
  <2>3. SameHolder
    <3>1. \A d \in Blocks, q \in Procs : Holds(q, d)' <=> Holds(q, d)
      BY <1>1, <1>2, <2>1 DEF Holds, Hit, TypeOK
    <3> QED BY <3>1, KeepsHolder DEF SameHolder
  <2> QED BY <2>2, <2>3, SameStore
<1>4. CASE \E x \in Bufs : refcnt[x] = 0 /\ (\A y \in Bufs : ~Caches(y, c)) /\ Recycle(p, x, c)
  <2>1. PICK x \in Bufs : refcnt[x] = 0 /\ (\A y \in Bufs : ~Caches(y, c)) /\ Recycle(p, x, c)
    BY <1>4
  <2>2. pins[x] = 0 /\ \A q \in Procs : b[q] # x
    BY <2>1, UnusedHasNoUser
  <2>3. /\ blockno'[x] = c /\ valid'[x] = 0
        /\ \A y \in Bufs \ {x} : blockno'[y] = blockno[y] /\ valid'[y] = valid[y]
    BY <1>2, <2>1 DEF Recycle, TypeOK
  <2>4. SameContent
    <3> SUFFICES ASSUME NEW d \in Blocks PROVE Content'[d] = Content[d]
      BY DEF SameContent
    <3>1. CASE Valid(x, d)
      <4>1. Content[d] = data[x] /\ data[x] = disk[d]
        <5>1. pins[x] # 1
          BY <2>2, SMTT(30)
        <5> QED BY <2>2, <3>1, <5>1 DEF MappingInv, Inv, CleanInv, Valid
      <4>2. \A y \in Bufs : ~Valid(y, d)'
        <5>1. valid'[x] # 1 /\ blockno[x] = d
          <6>1. 0 # 1
            BY SMTT(30), SMTT(60)
          <6> QED BY <2>3, <3>1, <6>1 DEF Valid
        <5>2. \A y \in Bufs \ {x} : blockno[y] # d
          BY <3>1, <5>1, BcacheAssumption DEF Inv, OneBufferPerBlock
        <5> QED BY <2>3, <5>1, <5>2 DEF Valid
      <4> QED BY <1>1, <4>1, <4>2 DEF MappingInv
    <3>2. CASE ~Valid(x, d)
      <4>1. \A y \in Bufs : Valid(y, d)' <=> Valid(y, d)
        <5>1. valid'[x] # 1
          <6>1. 0 # 1
            BY SMTT(30)
          <6> QED BY <2>3, <6>1
        <5> QED BY <2>3, <3>2, <5>1 DEF Valid
      <4> QED BY <1>1, <4>1, KeepsContent
    <3> QED BY <3>1, <3>2
  <2>5. SameHolder
    <3>1. \A d \in Blocks, q \in Procs : Holds(q, d)' <=> Holds(q, d)
      BY <1>1, <1>2, <2>1, <2>2, <2>3, SMTT(30), SMTT(60) DEF Holds, Recycle, TypeOK, Inv, CallInv
    <3> QED BY <3>1, KeepsHolder DEF SameHolder
  <2> QED BY <2>4, <2>5, SameStore
<1>5. CASE panicked' = 1 /\ UNCHANGED <<bufVars, pc, b>>
  BY <1>1, <1>5, KeepsContent, KeepsHolder, SameStore DEF SameContent, SameHolder, Valid, Holds, bufVars
<1> QED BY <1>3, <1>4, <1>5, BgetCases

\* acquiresleep(), bpin(), bunpin() and the end of brelse() change neither.
LEMMA QuietRefines ==
  ASSUME Mapped, NEW p \in Procs, acquiresleep(p) \/ brelse(p) \/ bpin(p) \/ bunpin(p)
  PROVE  UNCHANGED Store!vars
<1> USE BcacheAssumption DEF Mapped
<1>1. UNCHANGED <<disk, data, blockno, valid>>
  BY DEF acquiresleep, brelse, bpin, bunpin, bufVars
<1>2. SameContent
  BY <1>1, KeepsContent DEF SameContent, Valid
<1>3. \A d \in Blocks, q \in Procs : Holds(q, d)' <=> Holds(q, d)
  <2>1. CASE acquiresleep(p)
    BY <1>1, <2>1 DEF Holds, acquiresleep, Inv, TypeOK
  <2>2. CASE brelse(p)
    BY <1>1, <2>2 DEF Holds, brelse, Inv, TypeOK
  <2>3. CASE bpin(p) \/ bunpin(p)
    BY <1>1, <2>3 DEF Holds, bpin, bunpin, callVars
  <2> QED BY <2>1, <2>2, <2>3
<1>4. SameHolder
  BY <1>3, KeepsHolder DEF SameHolder
<1> QED BY <1>2, <1>4, SameStore

\* bwrite() leaves the content as it was: the disk block is hidden behind the
\* buffer.
LEMMA BwriteRefines ==
  ASSUME Mapped, NEW p \in Procs, bwrite(p)
  PROVE  UNCHANGED Store!vars
<1> USE BcacheAssumption DEF Mapped
<1>1. b[p] \in Bufs /\ blockno[b[p]] \in Blocks /\ valid[b[p]] = 1 /\ disk \in [Blocks -> Vals]
  BY SMTT(30), SMTT(60) DEF bwrite, Inv, CallInv, TypeOK
<1>2. UNCHANGED <<data, blockno, valid, pc, b>>
  BY DEF bwrite, bufVars
<1>3. SameContent
  <2> SUFFICES ASSUME NEW d \in Blocks PROVE Content'[d] = Content[d]
    BY DEF SameContent
  <2>1. CASE Valid(b[p], d)
    <3>1. PICK x \in Bufs : x = b[p]
      BY <1>1
    <3> QED BY <1>2, <2>1, <3>1, SMTT(30), SMTT(60) DEF MappingInv, Valid
  <2>2. CASE ~Valid(b[p], d)
    <3>1. disk'[d] = disk[d]
      BY <1>1, <2>2 DEF bwrite, Valid
    <3> QED BY <1>2, <3>1, KeepsContent DEF Valid
  <2> QED BY <2>1, <2>2
<1>4. SameHolder
  BY <1>2, KeepsHolder DEF SameHolder, Holds
<1> QED BY <1>3, <1>4, SameStore

\* bread() gives the block to its caller, unchanged, when nobody held it.
LEMMA BreadRefines ==
  ASSUME Mapped, NEW p \in Procs, bread(p)
  PROVE  \E c \in Blocks : Store!Get(p, c)
<1> USE BcacheAssumption DEF Mapped
<1>1. PICK x \in Bufs, c \in Blocks : x = b[p] /\ c = blockno[x]
  BY SMTT(30) DEF bread, Inv, CallInv, TypeOK
<1>2. /\ UNCHANGED <<disk, blockno, b>> /\ pc[p] = "locked" /\ pc' = [pc EXCEPT ![p] = "hold"]
      /\ valid' = [valid EXCEPT ![x] = 1]
      /\ data' = [data EXCEPT ![x] = IF valid[x] = 0 THEN disk[c] ELSE @]
  BY <1>1 DEF bread
<1>3. TypeOK
  BY DEF Inv
<1>4. ASSUME NEW q \in Procs PROVE ~Holds(q, c)
  <2> SUFFICES ASSUME Holds(q, c) PROVE FALSE
    OBVIOUS
  <2>1. b[q] \in Bufs
    BY SMTT(30), SMTT(60) DEF Holds, Inv, CallInv, TypeOK
  <2>2. b[q] = x
    BY <1>1, <2>1 DEF Inv, OneBufferPerBlock, Holds
  <2>3. p = q
    BY <1>1, <1>2, <2>2, SMTT(30), SMTT(60) DEF Inv, LockInv, Holds
  <2> QED BY <1>2, <2>3 DEF Holds
<1>5. Holder[c] = NoProc
  BY <1>4 DEF MappingInv
<1>6. Holder'[c] = p
  <2>1. Holds(p, c)'
    BY <1>1, <1>2, <1>3 DEF Holds, TypeOK
  <2> QED BY <2>1 DEF MappingInv
<1>7. \A d \in Blocks : d # c => Holder'[d] = Holder[d]
  <2>1. \A d \in Blocks, q \in Procs : d # c => (Holds(q, d)' <=> Holds(q, d))
    BY <1>1, <1>2, <1>3 DEF Holds, TypeOK
  <2> QED BY <2>1, KeepsHolder
<1>8. SameContent
  <2> SUFFICES ASSUME NEW d \in Blocks PROVE Content'[d] = Content[d]
    BY DEF SameContent
  <2>1. CASE d = c /\ valid[x] = 0
    <3>1. \A y \in Bufs : ~Valid(y, c)
      BY <1>1, <2>1, SMTT(30), SMTT(60) DEF Valid, Inv, OneBufferPerBlock
    <3>2. Valid(x, c)' /\ data'[x] = disk[c]
      BY <1>1, <1>2, <1>3, <2>1 DEF Valid, TypeOK
    <3> QED BY <2>1, <3>1, <3>2 DEF MappingInv
  <2>2. CASE d # c \/ valid[x] # 0
    <3>1. \A y \in Bufs : Valid(y, d)' <=> Valid(y, d)
      BY <1>1, <1>2, <1>3, <2>2, SMTT(30), SMTT(60) DEF Valid, TypeOK
    <3>2. \A y \in Bufs : Valid(y, d) => data'[y] = data[y]
      BY <1>1, <1>2, <1>3, <2>2 DEF Valid, TypeOK
    <3> QED BY <1>2, <3>1, <3>2, KeepsContent
  <2> QED BY <2>1, <2>2
<1>9. Content' = Content /\ Holder' = [Holder EXCEPT ![c] = p]
  <2>1. Content = [d \in Blocks |-> Content[d]] /\ Content' = [d \in Blocks |-> Content'[d]]
    BY SMTT(30), SMTT(60) DEF Content
  <2>2. Holder = [d \in Blocks |-> Holder[d]] /\ Holder' = [d \in Blocks |-> Holder'[d]]
    BY SMTT(30), SMTT(60) DEF Holder
  <2>3. Content' = Content
    BY <1>8, <2>1 DEF SameContent
  <2> QED BY <1>6, <1>7, <2>2, <2>3
<1>10. Store!Get(p, c)
  BY <1>5, <1>9 DEF Store!Get
<1> QED BY <1>10
\* A holder that changes the buffer changes the block.
LEMMA ModifyRefines ==
  ASSUME Mapped, NEW p \in Procs, NEW v \in Vals, Modify(p, v)
  PROVE  \E c \in Blocks : Store!Put(p, c, v)
<1> USE BcacheAssumption DEF Mapped
<1>1. PICK x \in Bufs, c \in Blocks : x = b[p] /\ c = blockno[x]
  BY SMTT(30), SMTT(60) DEF Modify, Inv, CallInv, TypeOK
<1>2. UNCHANGED <<disk, blockno, valid, pc, b>> /\ data' = [data EXCEPT ![x] = v] /\ pc[p] = "hold"
  BY <1>1 DEF Modify
<1>3. Valid(x, c) /\ Valid(x, c)' /\ data'[x] = v
  BY <1>1, <1>2 DEF Valid, Inv, CallInv, TypeOK
<1>4. Holder[c] = p
  BY <1>1, <1>2, SMTT(30), SMTT(60) DEF MappingInv, Holds
<1>5. Content'[c] = v
  BY <1>3 DEF MappingInv
<1>6. ASSUME NEW d \in Blocks, d # c PROVE Content'[d] = Content[d]
  <2>1. \A y \in Bufs : Valid(y, d) => data'[y] = data[y]
    BY <1>1, <1>2, <1>6 DEF Valid, Inv, TypeOK
  <2> QED BY <1>2, <2>1, KeepsContent DEF Valid
<1>7. SameHolder
  BY <1>2, KeepsHolder DEF SameHolder, Holds
<1>8. Content' = [Content EXCEPT ![c] = v] /\ Holder' = Holder
  <2>1. Content = [d \in Blocks |-> Content[d]] /\ Content' = [d \in Blocks |-> Content'[d]]
    BY SMTT(30), SMTT(60) DEF Content
  <2>2. Holder = [d \in Blocks |-> Holder[d]] /\ Holder' = [d \in Blocks |-> Holder'[d]]
    BY SMTT(30), SMTT(60) DEF Holder
  <2>3. Holder' = Holder
    BY <1>7, <2>2 DEF SameHolder
  <2> QED BY <1>5, <1>6, <2>1, <2>3
<1>9. Store!Put(p, c, v)
  BY <1>4, <1>8 DEF Store!Put
<1> QED BY <1>9

\* releasesleep() gives the block back.
LEMMA ReleasesleepRefines ==
  ASSUME Mapped, NEW p \in Procs, releasesleep(p)
  PROVE  \E c \in Blocks : Store!Release(p, c)
<1> USE BcacheAssumption DEF Mapped
<1>1. PICK x \in Bufs, c \in Blocks : x = b[p] /\ c = blockno[x]
  BY SMTT(30), SMTT(60) DEF releasesleep, Inv, CallInv, TypeOK
<1>2. UNCHANGED <<disk, blockno, valid, data, b>> /\ pc[p] = "hold"
  BY DEF releasesleep, bufVars
<1>3. pc'[p] = "released" /\ \A q \in Procs \ {p} : pc'[q] = "hold" <=> pc[q] = "hold"
  BY DEF releasesleep, wakeup, Inv, TypeOK
<1>4. Holds(p, c) /\ Holder[c] = p
  BY <1>1, <1>2 DEF MappingInv, Holds
<1>5. Holder'[c] = NoProc
  <2>1. \A q \in Procs : Holds(q, c) => q = p
    BY <1>4, OneHolder
  <2>2. \A q \in Procs : ~Holds(q, c)'
    BY <1>2, <1>3, <2>1 DEF Holds
  <2> QED BY <2>2 DEF MappingInv
<1>6. ASSUME NEW d \in Blocks, d # c PROVE Holder'[d] = Holder[d]
  <2>1. \A q \in Procs : Holds(q, d)' <=> Holds(q, d)
    BY <1>1, <1>2, <1>3, <1>6 DEF Holds
  <2> QED BY <2>1, KeepsHolder
<1>7. SameContent
  BY <1>2, KeepsContent DEF SameContent, Valid
<1>8. Content' = Content /\ Holder' = [Holder EXCEPT ![c] = NoProc]
  <2>1. Content = [d \in Blocks |-> Content[d]] /\ Content' = [d \in Blocks |-> Content'[d]]
    BY SMTT(30) DEF Content
  <2>2. Holder = [d \in Blocks |-> Holder[d]] /\ Holder' = [d \in Blocks |-> Holder'[d]]
    BY SMTT(30) DEF Holder
  <2>3. Content' = Content
    BY <1>7, <2>1 DEF SameContent
  <2> QED BY <1>5, <1>6, <2>2, <2>3
<1>9. Store!Release(p, c)
  BY <1>4, <1>8 DEF Store!Release
<1> QED BY <1>9

\* Every step of the cache is a step of the store, or changes nothing of it.
LEMMA StepRefines == Mapped /\ [Next]_vars => [Store!Next]_(Store!vars)
<1> SUFFICES ASSUME Mapped, [Next]_vars PROVE [Store!Next]_(Store!vars)
  OBVIOUS
<1>1. CASE UNCHANGED vars
  <2>1. SameContent
    BY <1>1, KeepsContent DEF Mapped, SameContent, Valid, vars, bufVars
  <2>2. SameHolder
    BY <1>1, KeepsHolder DEF Mapped, SameHolder, Holds, vars, bufVars, callVars
  <2> QED BY <2>1, <2>2, SameStore
<1>2. ASSUME NEW p \in Procs, NEW c \in Blocks, bget(p, c) PROVE UNCHANGED Store!vars
  BY <1>2, BgetRefines
<1>3. ASSUME NEW p \in Procs, NEW v \in Vals, Modify(p, v) PROVE Store!Next
  BY <1>3, ModifyRefines DEF Store!Next
<1>4. ASSUME NEW p \in Procs, bread(p) PROVE Store!Next
  BY <1>4, BreadRefines DEF Store!Next
<1>5. ASSUME NEW p \in Procs, releasesleep(p) PROVE Store!Next
  BY <1>5, ReleasesleepRefines DEF Store!Next
<1>6. ASSUME NEW p \in Procs, acquiresleep(p) \/ brelse(p) \/ bwrite(p) \/ bpin(p) \/ bunpin(p)
      PROVE  UNCHANGED Store!vars
  BY <1>6, QuietRefines, BwriteRefines
<1> QED BY <1>1, <1>2, <1>3, <1>4, <1>5, <1>6 DEF Next

\* The initial states of the cache map to that of the store.
LEMMA InitRefines == Init => Store!Init
<1> SUFFICES ASSUME Init PROVE Store!Init
  OBVIOUS
<1>1. \A c \in Blocks : Cached(c) = {} /\ Holders(c) = {}
  BY SMTT(30), SMTT(60) DEF Init, Cached, Holders
<1> QED BY <1>1 DEF Init, Store!Init, Content, Holder

\* Through bget(), bread(), bwrite() and brelse() every block is a cell that
\* one process at a time holds and that keeps what was last put into it,
\* whatever is recycled meanwhile.
THEOREM CacheIsStore == Spec => IsStore
  BY InitRefines, StepRefines, MappingHolds, BcacheInvariant, PTL DEF Spec, Mapped, IsStore, Store!Spec
==============================================================================
