---------------------------- MODULE InodeProofs -----------------------------
(***************************************************************************)
(* For every number of processes, names, inodes and table entries: the     *)
(* inode table of Inode.tla has one current entry for each inode in use,   *)
(* nlink counts the names, no inode is freed while it is in use, and       *)
(* iput() never blocks on the sleep lock it takes under itable.lock.       *)
(***************************************************************************)
EXTENDS Inode, FiniteSetTheorems, TLAPS

\* Between ilock() and iunlock(), or on the way there.
Locking == {"load", "locked", "unlinked", "itrunc", "freed"}
ToLock == {"ilock", "load", "locked"}
Leaving == {"freed", "drop"}

RefSet(s) == {p \in Holding : ip[p] = s}
NamesOf(i) == {n \in Names : dir[n] = i}
Pending(i) == {p \in Holders(i) : pc[p] \in {"dirlink", "unlinked"}
                   \/ (goal[p] = "undo" /\ pc[p] \in ToLock)}

\* A process works on an entry of the table, whose ref counts it.
RefInv ==
    /\ \A p \in Holding : ip[p] \in Slots
    /\ \A s \in Slots : ref[s] = Cardinality(RefSet(s))
    /\ \A p \in Procs : pc[p] = "iget" => ip[p] \in Inums

\* An entry in use is for an inode that no other entry is for.
EntryInv ==
    \A s \in Slots : ref[s] > 0 =>
        /\ inum[s] \in Inums
        /\ \A t \in Slots : ref[t] > 0 /\ s # t => inum[s] # inum[t]

\* The sleep lock of an entry is held from ilock() to iunlock().
LockInv ==
    /\ \A p \in Procs : pc[p] \in Locking => lock[ip[p]] = p
    /\ \A s \in Slots : lock[s] # Nobody => ip[lock[s]] = s /\ pc[lock[s]] \in Locking

\* iput() has the entry locked and has put type = 0 on disk.
BeingFreed(s) == \E p \in Procs : lock[s] = p /\ pc[p] = "freed"

\* A valid entry agrees with an inode that is allocated, and whoever has it
\* locked goes by a valid one.
ValidInv ==
    /\ \A s \in Slots : ref[s] > 0 /\ valid[s] = 1 /\ ~BeingFreed(s) =>
         nlink[s] = dnlink[inum[s]] /\ type[s] = 1 /\ dtype[inum[s]] = 1
    /\ \A p \in Procs : pc[p] \in {"locked", "unlinked", "itrunc"} => valid[ip[p]] = 1
    /\ \A p \in Procs : pc[p] = "itrunc" => ref[ip[p]] = 1 /\ nlink[ip[p]] = 0

\* unlink() and create() keep the directory locked, so that the name is still
\* what they found.
DirInv ==
    /\ \A p \in Procs :
         pc[p] \in {"ialloc", "iget"} \/ (goal[p] \in {"unlink", "create"} /\ pc[p] \in ToLock)
           => dlock = p
    /\ \A p \in Procs : pc[p] \in {"ialloc", "iget"} => goal[p] = "create"
    /\ \A p \in Procs : goal[p] = "unlink" /\ pc[p] \in ToLock => dir[name[p]] = inum[ip[p]]
    /\ \A p \in Procs : goal[p] = "create" /\ pc[p] \in {"ialloc", "iget"} \cup ToLock => dir[name[p]] = 0

\* The inode that create() has allocated has no links, and nobody else is at it
\* but those that freed it before.
FreshInv ==
    /\ \A p \in Procs : pc[p] = "iget" =>
         /\ dtype[ip[p]] = 1 /\ dnlink[ip[p]] = 0
         /\ \A q \in Holders(ip[p]) : pc[q] \in Leaving
    /\ \A p \in Procs : goal[p] = "create" /\ pc[p] \in ToLock =>
         /\ dnlink[inum[ip[p]]] = 0
         /\ \A q \in Holders(inum[ip[p]]) : q = p \/ pc[q] \in Leaving

Inv ==
    /\ LinksCounted /\ InUseIsAllocated
    /\ RefInv /\ EntryInv /\ LockInv /\ ValidInv /\ DirInv /\ FreshInv
------------------------------------------------------------------------------
\* A nonempty set of naturals has a least member: where a loop stops that
\* looks for the first of something.
LEMMA NatLeast ==
  ASSUME NEW T, T \subseteq Nat, T # {}
  PROVE  \E x \in T : \A y \in T : x <= y
<1>1. PICK x \in T : \A y \in T : ~(<<y, x>> \in OpToRel(<, Nat))
  BY NatLessThanWellFounded, WFMin, Zenon
<1>2. \A y \in T : y < x => <<y, x>> \in OpToRel(<, Nat)
  BY DEF OpToRel
<1>3. \A y \in T : ~(y < x)
  BY <1>1, <1>2, Zenon
<1> QED BY <1>3

------------------------------------------------------------------------------
\* Steps that name no prover are found by Zenon.
USE ZenonT(60)

\* The first of a set of entries is one of them.
LEMMA MinOf ==
  ASSUME NEW S, S \subseteq Slots, S # {}
  PROVE  Min(S) \in S
<1>1. S \subseteq Nat
  BY InodeAssumption, SMTT(30) DEF Slots
<1> QED BY <1>1, NatLeast DEF Min

\* The counts of the model are of finite sets.
LEMMA Finite ==
  /\ IsFiniteSet(Holding) /\ \A s : IsFiniteSet(RefSet(s))
  /\ \A i : IsFiniteSet(NamesOf(i)) /\ IsFiniteSet(Pending(i))
<1>1. Holding \subseteq Procs
  BY DEF Holding
<1>2. \A s : RefSet(s) \subseteq Procs
  BY <1>1 DEF RefSet
<1>3. \A i : NamesOf(i) \subseteq Names /\ Pending(i) \subseteq Procs
  BY <1>1 DEF NamesOf, Pending, Holders
<1> QED BY <1>1, <1>2, <1>3, InodeAssumption, FS_Subset

\* What a process holds is an entry in use; the last reference is its own.
LEMMA HolderFacts ==
  ASSUME Inv, NEW p \in Holding
  PROVE  /\ p \in Procs /\ ip[p] \in Slots /\ ref[ip[p]] > 0 /\ inum[ip[p]] \in Inums
         /\ ref[ip[p]] = 1 => \A q \in Holding : inum[ip[q]] = inum[ip[p]] => q = p
         /\ \A q \in Holding : inum[ip[q]] = inum[ip[p]] <=> ip[q] = ip[p]
<1>1. p \in Procs /\ \A q \in Holding : ip[q] \in Slots /\ q \in RefSet(ip[q])
  BY DEF Holding, Inv, RefInv, RefSet
<1>2. \A q \in Holding : ref[ip[q]] > 0
  <2> SUFFICES ASSUME NEW q \in Holding PROVE ref[ip[q]] > 0
    OBVIOUS
  <2>1. Cardinality(RefSet(ip[q])) # 0 /\ Cardinality(RefSet(ip[q])) \in Nat
    BY <1>1, Finite, FS_EmptySet, FS_CardinalityType
  <2> QED BY <1>1, <2>1, SMTT(30) DEF Inv, RefInv
<1>3. \A q \in Holding : inum[ip[q]] \in Inums /\ (inum[ip[q]] = inum[ip[p]] <=> ip[q] = ip[p])
  BY <1>1, <1>2 DEF Inv, EntryInv
<1>4. ASSUME ref[ip[p]] = 1, NEW q \in Holding, ip[q] = ip[p]
      PROVE  q = p
  <2>1. Cardinality(RefSet(ip[p]) \ {p}) = Cardinality(RefSet(ip[p])) - 1 /\ IsFiniteSet(RefSet(ip[p]) \ {p})
    BY <1>1, Finite, FS_RemoveElement
  <2>2. Cardinality(RefSet(ip[p]) \ {p}) = 0
    BY <1>1, <1>4, <2>1, SMTT(30) DEF Inv, RefInv
  <2>3. RefSet(ip[p]) \ {p} = {}
    BY <2>1, <2>2, FS_EmptySet
  <2> QED BY <1>1, <1>4, <2>3
<1> QED BY <1>1, <1>2, <1>3, <1>4

\* An entry with ref = 0 is nobody's.
LEMMA UnusedFacts ==
  ASSUME Inv, NEW s \in Slots, ref[s] = 0
  PROVE  (\A p \in Holding : ip[p] # s) /\ lock[s] = Nobody
<1>1. \A p \in Holding : ip[p] # s
  BY HolderFacts, SMTT(30)
<1>2. \A p \in Procs : pc[p] \in Locking => p \in Holding
  BY DEF Holding, Locking
<1> QED BY <1>1, <1>2, SMTT(30) DEF Inv, LockInv, LinksCounted, TypeOK

\* LinksCounted, by name.
LEMMA LinksAre ==
  LinksCounted <=> /\ TypeOK
                   /\ \A i \in Inums : dtype[i] = 1 =>
                        dnlink[i] = Cardinality(NamesOf(i)) + Cardinality(Pending(i))
  BY DEF LinksCounted, NamesOf, Pending, ToLock

\* An inode without links has no names, and no call under way that counts one.
LEMMA NoLinks ==
  ASSUME Inv, NEW i \in Inums, dtype[i] = 1, dnlink[i] = 0
  PROVE  NamesOf(i) = {} /\ Pending(i) = {}
<1>1. Cardinality(NamesOf(i)) \in Nat /\ Cardinality(Pending(i)) \in Nat
  BY Finite, FS_CardinalityType
<1>2. Cardinality(NamesOf(i)) = 0 /\ Cardinality(Pending(i)) = 0
  BY <1>1, LinksAre, SMTT(30) DEF Inv
<1> QED BY <1>2, Finite, FS_EmptySet

\* An inode with a name, or with a link that is being made or taken away, has a
\* link count.
LEMMA SomeLinks ==
  ASSUME Inv, NEW i \in Inums, dtype[i] = 1, NamesOf(i) # {} \/ Pending(i) # {}
  PROVE  dnlink[i] \in Nat /\ dnlink[i] >= 1
<1>1. Cardinality(NamesOf(i)) \in Nat /\ Cardinality(Pending(i)) \in Nat
  BY Finite, FS_CardinalityType
<1>2. Cardinality(NamesOf(i)) # 0 \/ Cardinality(Pending(i)) # 0
  BY Finite, FS_EmptySet
<1> QED BY <1>1, <1>2, LinksAre, SMTT(30) DEF Inv

\* The initial state.
LEMMA InitInv == Init => Inv
<1> SUFFICES ASSUME Init PROVE Inv
  OBVIOUS
<1> USE InodeAssumption DEF Init
<1>1. TypeOK
  BY SMTT(30) DEF TypeOK
<1>2. Holding = {} /\ \A s : RefSet(s) = {}
  BY DEF Holding, RefSet
<1>3. LinksCounted
  BY <1>1, SMTT(30) DEF LinksCounted
<1>4. InUseIsAllocated
  BY <1>2 DEF InUseIsAllocated
<1>5. RefInv
  BY <1>2, FS_EmptySet DEF RefInv
<1>6. EntryInv /\ LockInv
  BY SMTT(30) DEF EntryInv, LockInv, Locking
<1>7. ValidInv /\ DirInv /\ FreshInv
  BY <1>2, SMTT(30) DEF ValidInv, DirInv, FreshInv, ToLock
<1> QED BY <1>3, <1>4, <1>5, <1>6, <1>7 DEF Inv
------------------------------------------------------------------------------
\* Whoever neither gets a reference nor drops one leaves the table as it is.
LEMMA StaysPut ==
  ASSUME Inv, NEW p \in Procs, NEW l, pc' = [pc EXCEPT ![p] = l], UNCHANGED <<inum, ref>>,
         p \in Holding <=> l \notin {"idle", "ialloc", "iget"},
         \A q \in Procs : q # p \/ p \in Holding => ip'[q] = ip[q],
         l = "iget" => ip'[p] \in Inums
  PROVE  /\ RefInv' /\ EntryInv' /\ Holding' = Holding
         /\ \A i : Holders(i)' = Holders(i)
<1>1. \A q \in Procs : q # p => pc'[q] = pc[q]
  BY DEF Inv, LinksCounted, TypeOK
<1>2. pc'[p] = l
  BY DEF Inv, LinksCounted, TypeOK
<1>3. Holding' = Holding
  BY <1>1, <1>2 DEF Holding
<1>4. \A q \in Holding : ip'[q] = ip[q]
  BY DEF Holding
<1>5. \A s : RefSet(s)' = RefSet(s)
  BY <1>3, <1>4 DEF RefSet
<1>6. \A i : Holders(i)' = Holders(i)
  BY <1>3, <1>4 DEF Holders
<1>7. RefInv'
  <2>1. \A q \in Holding' : ip'[q] \in Slots
    BY <1>3, <1>4 DEF Inv, RefInv
  <2>2. \A s \in Slots : ref'[s] = Cardinality(RefSet(s)')
    BY <1>5 DEF Inv, RefInv
  <2>3. \A q \in Procs : pc'[q] = "iget" => ip'[q] \in Inums
    BY <1>1, <1>2 DEF Inv, RefInv
  <2> QED BY <2>1, <2>2, <2>3 DEF RefInv
<1>8. EntryInv'
  BY DEF Inv, EntryInv
<1> QED BY <1>3, <1>6, <1>7, <1>8

\* A step of a process with a reference that changes neither the inodes on disk
\* nor the directory: what is left to show is about the entry itself.
LEMMA QuietStep ==
  ASSUME Inv, NEW p \in Holding, NEW l, pc' = [pc EXCEPT ![p] = l], l \notin {"idle", "ialloc", "iget"},
         UNCHANGED <<diskVars, dir, dlock, inum, ref, ip, name>>, TypeOK', panicked' \in {0, 3},
         \A q \in Procs : q # p => goal'[q] = goal[q],
         (l \in {"dirlink", "unlinked"} \/ (goal'[p] = "undo" /\ l \in ToLock))
           <=> (pc[p] \in {"dirlink", "unlinked"} \/ (goal[p] = "undo" /\ pc[p] \in ToLock)),
         goal'[p] \in {"unlink", "create"} /\ l \in ToLock => goal'[p] = goal[p] /\ pc[p] \in ToLock,
         pc[p] \in Leaving => l \in Leaving,
         LockInv', ValidInv'
  PROVE  Inv'
<1>1. p \in Procs /\ pc'[p] = l /\ \A q \in Procs : q # p => pc'[q] = pc[q]
  BY DEF Holding, Inv, LinksCounted, TypeOK
<1>2. RefInv' /\ EntryInv' /\ Holding' = Holding /\ \A i : Holders(i)' = Holders(i)
  BY <1>1, StaysPut
<1>3. \A i : Holders(i) \subseteq Procs
  BY DEF Holders, Holding
<1>4. \A i : Pending(i)' = Pending(i)
  BY <1>1, <1>2, <1>3, SMTT(30) DEF Pending
<1>5. LinksCounted'
  <2>1. \A i : NamesOf(i)' = NamesOf(i)
    BY DEF NamesOf
  <2>2. \A i \in Inums : dtype'[i] = 1 => dnlink'[i] = Cardinality(NamesOf(i)') + Cardinality(Pending(i)')
    BY <1>4, <2>1, LinksAre DEF Inv, diskVars
  <2> QED BY <2>2 DEF LinksCounted, NamesOf, Pending, ToLock
<1>6. InUseIsAllocated'
  <2>1. \A q \in Holding : pc'[q] \notin Leaving => pc[q] \notin Leaving
    BY <1>1 DEF Holding
  <2> QED BY <1>2, <2>1 DEF Inv, InUseIsAllocated, diskVars, Leaving
<1>7. DirInv'
  BY <1>1, SMTT(30), SMTT(60) DEF Inv, DirInv, ToLock
<1>8. FreshInv'
  BY <1>1, <1>2, <1>3, SMTT(30) DEF Inv, FreshInv, diskVars, ToLock
<1> QED BY <1>2, <1>5, <1>6, <1>7, <1>8 DEF Inv
\* A process with a reference decides what to do with it.
LEMMA UseInv ==
  ASSUME Inv, NEW p \in Procs, use(p)
  PROVE  Inv'
<1>1. pc[p] = "ref" /\ p \in Holding /\ UNCHANGED <<diskVars, dir, dlock, slotVars, ref, lock, ip, name, panicked>>
  BY DEF use, Holding
<1>2. PICK l \in {"ilock", "iput"} :
         /\ pc' = [pc EXCEPT ![p] = l]
         /\ (l = "ilock" /\ \E g \in {"use", "link"} : goal' = [goal EXCEPT ![p] = g]) \/ (l = "iput" /\ goal' = goal)
  BY DEF use, Goto, Aim
<1>3. TypeOK'
  BY <1>1, <1>2 DEF Inv, LinksCounted, TypeOK, diskVars, slotVars
<1>4. LockInv' /\ ValidInv'
  BY <1>1, <1>2, SMTT(30) DEF Inv, LinksCounted, TypeOK, LockInv, ValidInv, BeingFreed, Locking, slotVars, diskVars
<1>5. \A q \in Procs : q # p => goal'[q] = goal[q]
  BY <1>2 DEF Inv, LinksCounted, TypeOK
<1>6. l = "ilock" => goal'[p] \in {"use", "link"}
  BY <1>2 DEF Inv, LinksCounted, TypeOK
<1> QED BY <1>1, <1>2, <1>3, <1>4, <1>5, <1>6, QuietStep
        DEF slotVars, Inv, InUseIsAllocated, ToLock, Leaving

\* iunlock(): the entry is nobody's, and the other locks are as they were.
LEMMA UnlockKeeps ==
  ASSUME Inv, NEW p \in Procs, NEW l, pc[p] \in Locking, l \notin Locking,
         pc' = [pc EXCEPT ![p] = l], ip' = ip, lock' = [lock EXCEPT ![ip[p]] = Nobody]
  PROVE  LockInv'
<1>1. /\ pc'[p] = l /\ \A q \in Procs : q # p => pc'[q] = pc[q]
      /\ lock \in [Slots -> Procs \cup {Nobody}]
  BY DEF Inv, LinksCounted, TypeOK
<1>2. \A q \in Procs : pc[q] \in Locking => lock[ip[q]] = q /\ ip[q] \in Slots
  BY HolderFacts DEF Inv, LockInv, Locking, Holding
<1>3. lock'[ip[p]] = Nobody /\ \A t \in Slots : t # ip[p] => lock'[t] = lock[t]
  BY <1>1, <1>2
<1>4. ASSUME NEW q \in Procs, pc'[q] \in Locking PROVE lock'[ip'[q]] = q
  <2>1. q # p /\ pc[q] \in Locking
    BY <1>1, <1>4
  <2>2. ip[q] # ip[p] /\ ip[q] \in Slots /\ lock[ip[q]] = q
    BY <1>2, <2>1
  <2> QED BY <1>3, <2>2
<1>5. ASSUME NEW t \in Slots, lock'[t] # Nobody
      PROVE  ip'[lock'[t]] = t /\ pc'[lock'[t]] \in Locking
  <2>1. t # ip[p] /\ lock'[t] = lock[t] /\ lock[t] \in Procs
    BY <1>1, <1>3, <1>5
  <2>2. ip[lock[t]] = t /\ pc[lock[t]] \in Locking
    BY <1>5, <2>1 DEF Inv, LockInv
  <2> QED BY <1>1, <2>1, <2>2
<1> QED BY <1>4, <1>5 DEF LockInv

\* acquiresleep() of an entry that nobody has locked.
LEMMA LockKeeps ==
  ASSUME Inv, NEW p \in Holding, NEW l \in Locking, pc[p] \notin Locking, lock[ip[p]] = Nobody,
         pc' = [pc EXCEPT ![p] = l], ip' = ip, lock' = [lock EXCEPT ![ip[p]] = p]
  PROVE  LockInv'
<1>0. p \in Procs /\ ip[p] \in Slots
  BY HolderFacts
<1>1. /\ pc'[p] = l /\ \A q \in Procs : q # p => pc'[q] = pc[q]
      /\ lock \in [Slots -> Procs \cup {Nobody}]
  BY <1>0 DEF Inv, LinksCounted, TypeOK
<1>2. lock'[ip[p]] = p /\ \A t \in Slots : t # ip[p] => lock'[t] = lock[t]
  BY <1>0, <1>1
<1>3. ASSUME NEW q \in Procs, pc'[q] \in Locking PROVE lock'[ip'[q]] = q
  <2>1. CASE q = p
    BY <1>2, <2>1
  <2>2. CASE q # p
    <3>1. lock[ip[q]] = q /\ ip[q] \in Slots
      BY <1>1, <1>3, <2>2, HolderFacts DEF Inv, LockInv, Locking, Holding
    <3>2. ip[q] # ip[p]
      BY <3>1, InodeAssumption
    <3> QED BY <1>2, <3>1, <3>2
  <2> QED BY <2>1, <2>2
<1>4. ASSUME NEW t \in Slots, lock'[t] # Nobody
      PROVE  ip'[lock'[t]] = t /\ pc'[lock'[t]] \in Locking
  <2>1. CASE t = ip[p]
    BY <1>1, <1>2, <2>1
  <2>2. CASE t # ip[p]
    <3>1. lock'[t] = lock[t] /\ lock[t] \in Procs
      BY <1>1, <1>2, <1>4, <2>2
    <3>2. ip[lock[t]] = t /\ pc[lock[t]] \in Locking
      BY <1>4, <3>1 DEF Inv, LockInv
    <3>3. lock[t] # p
      BY <3>2
    <3> QED BY <1>1, <3>1, <3>2, <3>3
  <2> QED BY <2>1, <2>2
<1> QED BY <1>3, <1>4 DEF LockInv

\* ilock() gets the sleep lock,
LEMMA IlockInv ==
  ASSUME Inv, NEW p \in Procs, ilock(p)
  PROVE  Inv'
<1>1. /\ pc[p] = "ilock" /\ p \in Holding /\ lock[ip[p]] = Nobody
      /\ UNCHANGED <<diskVars, dir, dlock, slotVars, ref, locals, panicked>>
  BY DEF ilock, Holding
<1>2. PICK s \in Slots : s = ip[p]
  BY <1>1, HolderFacts
<1>3. PICK l \in {"load", "locked"} : pc' = [pc EXCEPT ![p] = l] /\ (l = "locked" => valid[s] # 0)
  BY <1>2 DEF ilock, Goto
<1>4. lock' = [lock EXCEPT ![s] = p]
  BY <1>2 DEF ilock
<1> USE DEF locals, slotVars, diskVars
<1>5. TypeOK'
  BY <1>1, <1>3, <1>4 DEF Inv, LinksCounted, TypeOK
<1>6. LockInv'
  <2>1. l \in Locking /\ pc[p] \notin Locking /\ ip' = ip /\ lock' = [lock EXCEPT ![ip[p]] = p]
    BY <1>1, <1>2, <1>4 DEF Locking
  <2> QED BY <1>1, <1>3, <2>1, LockKeeps
<1>7. ValidInv'
  BY <1>1, <1>2, <1>3, <1>4, InodeAssumption, SMTT(30), SMTT(60) DEF Inv, LinksCounted, TypeOK, ValidInv, BeingFreed
<1> QED BY <1>1, <1>3, <1>5, <1>6, <1>7, QuietStep DEF Inv, InUseIsAllocated, ToLock, Leaving

\* and reads the inode if the entry is not valid; the inode is allocated.
LEMMA IlockReadInv ==
  ASSUME Inv, NEW p \in Procs, ilock_read(p)
  PROVE  Inv'
<1>1. /\ pc[p] = "load" /\ p \in Holding /\ pc' = [pc EXCEPT ![p] = "locked"]
      /\ UNCHANGED <<diskVars, dir, dlock, inum, ref, lock, locals>>
  BY DEF ilock_read, Holding, Goto
<1>2. PICK s \in Slots, i \in Inums : s = ip[p] /\ i = inum[s]
  BY <1>1, HolderFacts
<1>3. dtype[i] = 1 /\ lock[s] = p
  BY <1>1, <1>2 DEF Inv, InUseIsAllocated, LockInv, Locking
<1>4. /\ type' = [type EXCEPT ![s] = 1] /\ nlink' = [nlink EXCEPT ![s] = dnlink[i]]
      /\ valid' = [valid EXCEPT ![s] = 1] /\ panicked' = 0
  BY <1>2, <1>3 DEF ilock_read
<1> USE DEF locals, diskVars
<1>5. TypeOK'
  BY <1>1, <1>4, SMTT(30), SMTT(60) DEF Inv, LinksCounted, TypeOK
<1>6. LockInv'
  BY <1>1, SMTT(30), SMTT(60) DEF Inv, LinksCounted, TypeOK, LockInv, Locking
<1>7. ValidInv'
  BY <1>1, <1>2, <1>3, <1>4, SMTT(30), SMTT(60) DEF Inv, LinksCounted, TypeOK, ValidInv, BeingFreed, LockInv, Locking
<1> QED BY <1>1, <1>4, <1>5, <1>6, <1>7, QuietStep DEF ToLock, Leaving

\* The inode is read, and unlocked.
LEMMA ReadInv ==
  ASSUME Inv, NEW p \in Procs, read(p)
  PROVE  Inv'
<1>1. /\ pc[p] = "locked" /\ goal[p] = "use" /\ p \in Holding /\ pc' = [pc EXCEPT ![p] = "ref"]
      /\ UNCHANGED <<diskVars, dir, dlock, slotVars, ref, locals, panicked>>
  BY DEF read, Using, Holding, Goto
<1>2. PICK s \in Slots : s = ip[p]
  BY <1>1, HolderFacts
<1>3. lock' = [lock EXCEPT ![s] = Nobody] /\ lock[s] = p
  BY <1>1, <1>2 DEF read, iunlock, Inv, LockInv, Locking
<1> USE DEF locals, slotVars, diskVars
<1>4. TypeOK'
  BY <1>1, <1>3 DEF Inv, LinksCounted, TypeOK
<1>5. LockInv'
  <2>1. "ref" \notin Locking /\ pc[p] \in Locking /\ ip' = ip /\ lock' = [lock EXCEPT ![ip[p]] = Nobody]
    BY <1>1, <1>2, <1>3 DEF Locking
  <2> QED BY <1>1, <2>1, UnlockKeeps
<1>6. ValidInv'
  BY <1>1, <1>2, <1>3, InodeAssumption, SMTT(30), SMTT(60) DEF Inv, LinksCounted, TypeOK, ValidInv, BeingFreed
<1> QED BY <1>1, <1>4, <1>5, <1>6, QuietStep DEF Inv, InUseIsAllocated, ToLock, Leaving

\* iput() finds that it has the last reference and that nobody has the lock.
LEMMA IputLocksInv ==
  ASSUME Inv, NEW p \in Procs, pc[p] = "iput", LastOf(ip[p]), lock[ip[p]] = Nobody,
         lock' = [lock EXCEPT ![ip[p]] = p], Goto(p, "itrunc"),
         UNCHANGED <<ref, dlock, locals, diskVars, dir, slotVars, panicked>>
  PROVE  Inv'
<1>1. p \in Holding /\ pc' = [pc EXCEPT ![p] = "itrunc"]
  BY DEF Holding, Goto
<1>2. PICK s \in Slots : s = ip[p]
  BY <1>1, HolderFacts
<1>3. ref[s] = 1 /\ valid[s] = 1 /\ nlink[s] = 0 /\ lock' = [lock EXCEPT ![s] = p] /\ lock[s] = Nobody
  BY <1>2 DEF LastOf
<1> USE DEF locals, slotVars, diskVars
<1>4. TypeOK'
  <2>1. lock' \in [Slots -> Procs \cup {Nobody}]
    BY <1>3 DEF Inv, LinksCounted, TypeOK
  <2>2. pc' \in [Procs -> {"idle", "ialloc", "iget", "ref", "ilock", "load", "locked", "dirlink",
                         "unlinked", "iput", "itrunc", "freed", "drop"}]
    BY <1>1 DEF Inv, LinksCounted, TypeOK
  <2> QED BY <2>1, <2>2 DEF Inv, LinksCounted, TypeOK
<1>5. LockInv'
  <2>1. "itrunc" \in Locking /\ pc[p] \notin Locking /\ ip' = ip /\ lock' = [lock EXCEPT ![ip[p]] = p] /\ lock[ip[p]] = Nobody
    BY <1>1, <1>2, <1>3 DEF Locking
  <2> QED BY <1>1, <2>1, LockKeeps
<1>6. ValidInv'
  BY <1>1, <1>2, <1>3, InodeAssumption, SMTT(30), SMTT(60) DEF Inv, LinksCounted, TypeOK, ValidInv, BeingFreed
<1> QED BY <1>1, <1>4, <1>5, <1>6, QuietStep DEF Inv, InUseIsAllocated, ToLock, Leaving

\* iput() marks the entry of the inode it has freed invalid, and unlocks it.
LEMMA IputUnlockInv ==
  ASSUME Inv, NEW p \in Procs, iput_unlock(p)
  PROVE  Inv'
<1>1. /\ pc[p] = "freed" /\ p \in Holding /\ pc' = [pc EXCEPT ![p] = "drop"]
      /\ UNCHANGED <<diskVars, dir, dlock, inum, type, nlink, ref, locals, panicked>>
  BY DEF iput_unlock, Holding, Goto
<1>2. PICK s \in Slots : s = ip[p]
  BY <1>1, HolderFacts
<1>3. lock' = [lock EXCEPT ![s] = Nobody] /\ lock[s] = p /\ valid' = [valid EXCEPT ![s] = 0]
  BY <1>1, <1>2 DEF iput_unlock, Invalid, iunlock, Inv, LockInv, Locking
<1> USE DEF locals, diskVars
<1>4. TypeOK'
  BY <1>1, <1>3 DEF Inv, LinksCounted, TypeOK
<1>5. LockInv'
  <2>1. "drop" \notin Locking /\ pc[p] \in Locking /\ ip' = ip /\ lock' = [lock EXCEPT ![ip[p]] = Nobody]
    BY <1>1, <1>2, <1>3 DEF Locking
  <2> QED BY <1>1, <2>1, UnlockKeeps
<1>6. ValidInv'
  BY <1>1, <1>2, <1>3, InodeAssumption, SMTT(30), SMTT(60) DEF Inv, LinksCounted, TypeOK, ValidInv, BeingFreed, LockInv, Locking
<1> QED BY <1>1, <1>4, <1>5, <1>6, QuietStep DEF Inv, InUseIsAllocated, ToLock, Leaving
------------------------------------------------------------------------------
\* A process changes the link count of the inode it has locked, in memory and
\* on disk, and unlocks it: nobody else goes by the old count.
LEMMA LinkStep ==
  ASSUME Inv, NEW p \in Procs, NEW k \in Nat, NEW l \in {"dirlink", "iput", "ref"}, pc[p] \in {"locked", "unlinked"},
         SetLinks(p, k), iunlock(p), Goto(p, l), UNCHANGED <<dtype, inum, valid, type, ref, locals, panicked>>,
         dir' \in [Names -> Inums \cup {0}], dlock' \in Procs \cup {Nobody}, DirInv',
         \A n \in Names : dir'[n] \in {dir[n], inum[ip[p]]},
         \A j \in Inums : j # inum[ip[p]] => NamesOf(j)' = NamesOf(j),
         k = Cardinality(NamesOf(inum[ip[p]])') + Cardinality(Pending(inum[ip[p]])')
  PROVE  Inv'
<1> USE DEF locals
<1>1. p \in Holding /\ pc' = [pc EXCEPT ![p] = l] /\ pc'[p] = l /\ \A q \in Procs : q # p => pc'[q] = pc[q]
  BY DEF Holding, Goto, Inv, LinksCounted, TypeOK
<1>2. PICK s \in Slots, i \in Inums : s = ip[p] /\ i = inum[s] /\ ref[s] > 0
  BY <1>1, HolderFacts
<1>3. /\ nlink' = [nlink EXCEPT ![s] = k] /\ dnlink' = [dnlink EXCEPT ![i] = k]
      /\ lock' = [lock EXCEPT ![s] = Nobody] /\ lock[s] = p /\ dtype[i] = 1
  BY <1>1, <1>2 DEF SetLinks, iunlock, Inv, LockInv, Locking, InUseIsAllocated
<1>4. RefInv' /\ EntryInv' /\ Holding' = Holding /\ \A j : Holders(j)' = Holders(j)
  BY <1>1, StaysPut
<1>5. TypeOK'
  <2>1. dnlink' \in [Inums -> Nat] /\ nlink' \in [Slots -> Nat]
    BY <1>3 DEF Inv, LinksCounted, TypeOK
  <2>2. lock' \in [Slots -> Procs \cup {Nobody}]
    BY <1>3 DEF Inv, LinksCounted, TypeOK
  <2>3. pc' \in [Procs -> {"idle", "ialloc", "iget", "ref", "ilock", "load", "locked", "dirlink",
                         "unlinked", "iput", "itrunc", "freed", "drop"}]
    BY <1>1 DEF Inv, LinksCounted, TypeOK
  <2> QED BY <2>1, <2>2, <2>3 DEF Inv, LinksCounted, TypeOK
<1>6. LockInv'
  <2>1. l \notin Locking /\ pc[p] \in Locking /\ ip' = ip /\ lock' = [lock EXCEPT ![ip[p]] = Nobody]
    BY <1>1, <1>2, <1>3 DEF Locking
  <2> QED BY <1>1, <2>1, UnlockKeeps
<1>7. ValidInv'
  <2>1. \A q \in Procs : q # p /\ pc[q] \in Locking => ip[q] # s
    BY <1>3 DEF Inv, LockInv
  <2>2. \A t \in Slots : t # s /\ ref[t] > 0 => inum[t] # i /\ inum[t] \in Inums
    BY <1>2 DEF Inv, EntryInv
  <2>3. \A t \in Slots : BeingFreed(t) => BeingFreed(t)'
    BY <1>1, <1>2, <1>3, InodeAssumption DEF BeingFreed, Inv, LinksCounted, TypeOK
  <2>4. ~BeingFreed(s)
    BY <1>1, <1>3 DEF BeingFreed
  <2>5. \A t \in Slots : ref'[t] > 0 /\ valid'[t] = 1 /\ ~BeingFreed(t)' =>
           nlink'[t] = dnlink'[inum'[t]] /\ type'[t] = 1 /\ dtype'[inum'[t]] = 1
    BY <1>2, <1>3, <2>2, <2>3, <2>4 DEF Inv, ValidInv, LinksCounted, TypeOK
  <2>6. \A q \in Procs : pc'[q] \in {"locked", "unlinked", "itrunc"} => q # p /\ pc[q] = pc'[q] /\ ip[q] # s
    BY <1>1, <2>1 DEF Locking
  <2> QED BY <1>3, <2>5, <2>6, SMTT(30), SMTT(60) DEF Inv, ValidInv, LinksCounted, TypeOK
<1>8. FreshInv'
  <2>1. p \in Holders(i) /\ pc[p] \notin Leaving /\ \A j : Holders(j) \subseteq Procs
    BY <1>1, <1>2 DEF Holders, Holding, Leaving
  <2>2. \A q \in Procs : pc'[q] = "iget" => q # p /\ pc[q] = "iget" /\ ip[q] # i /\ ip[q] \in Inums
    BY <1>1, <2>1 DEF Inv, FreshInv, RefInv
  <2>3. \A q \in Procs : goal[q] = "create" /\ pc'[q] \in ToLock =>
           q # p /\ pc'[q] = pc[q] /\ inum[ip[q]] # i /\ inum[ip[q]] \in Inums
    <3> SUFFICES ASSUME NEW q \in Procs, goal[q] = "create", pc'[q] \in ToLock
                 PROVE  q # p /\ pc'[q] = pc[q] /\ inum[ip[q]] # i /\ inum[ip[q]] \in Inums
      OBVIOUS
    <3>1. q # p /\ pc'[q] = pc[q] /\ q \in Holding
      BY <1>1 DEF ToLock, Holding
    <3> QED BY <2>1, <3>1, HolderFacts DEF Inv, FreshInv
  <2>4. \A q \in Procs : pc[q] \in Leaving => q # p /\ pc'[q] = pc[q]
    BY <1>1, <2>1
  <2>5. \A q \in Procs : pc'[q] = "iget" =>
         /\ dtype'[ip[q]] = 1 /\ dnlink'[ip[q]] = 0
         /\ \A r \in Holders(ip[q]) : pc'[r] \in Leaving
    BY <1>3, <1>4, <2>1, <2>2, <2>4, SMTT(30), SMTT(60) DEF Inv, FreshInv, LinksCounted, TypeOK
  <2>6. \A q \in Procs : goal[q] = "create" /\ pc'[q] \in ToLock =>
         /\ dnlink'[inum[ip[q]]] = 0
         /\ \A r \in Holders(inum[ip[q]]) : r = q \/ pc'[r] \in Leaving
    BY <1>3, <1>4, <2>1, <2>3, <2>4 DEF Inv, FreshInv, LinksCounted, TypeOK
  <2> QED BY <1>4, <2>5, <2>6 DEF FreshInv
<1>9. LinksCounted'
  <2>1. \A j \in Inums : j # i => Pending(j)' = Pending(j)
    <3>1. \A j \in Inums : j # i => p \notin Holders(j) /\ Holders(j) \subseteq Procs
      BY <1>2 DEF Holders, Holding
    <3> QED BY <1>1, <1>4, <3>1 DEF Pending
  <2>2. \A j \in Inums : dtype'[j] = 1 => dnlink'[j] = Cardinality(NamesOf(j)') + Cardinality(Pending(j)')
    BY <1>2, <1>3, <2>1, LinksAre DEF Inv, TypeOK
  <2> QED BY <1>5, <2>2 DEF LinksCounted, NamesOf, Pending, ToLock
<1>10. InUseIsAllocated'
  <2>1. \A q \in Holding : pc'[q] \notin Leaving => pc[q] \notin Leaving
    BY <1>1 DEF Holding, Leaving
  <2> QED BY <1>2, <1>3, <1>4, <2>1 DEF Inv, InUseIsAllocated, Leaving
<1> QED BY <1>4, <1>6, <1>7, <1>8, <1>9, <1>10 DEF Inv

\* What the holder of the lock sees: the entry is valid and current.
LEMMA LockedSees ==
  ASSUME Inv, NEW p \in Procs, pc[p] \in {"locked", "unlinked", "itrunc"}
  PROVE  /\ p \in Holding /\ ip[p] \in Slots /\ inum[ip[p]] \in Inums /\ dtype[inum[ip[p]]] = 1
         /\ nlink[ip[p]] = dnlink[inum[ip[p]]] /\ nlink[ip[p]] \in Nat /\ lock[ip[p]] = p
         /\ nlink[ip[p]] = Cardinality(NamesOf(inum[ip[p]])) + Cardinality(Pending(inum[ip[p]]))
         /\ Cardinality(NamesOf(inum[ip[p]])) \in Nat /\ Cardinality(Pending(inum[ip[p]])) \in Nat
<1>1. p \in Holding /\ pc[p] \in Locking
  BY DEF Holding, Locking
<1>2. PICK s \in Slots, i \in Inums : s = ip[p] /\ i = inum[s] /\ ref[s] > 0
  BY <1>1, HolderFacts
<1>3. lock[s] = p /\ ~BeingFreed(s) /\ valid[s] = 1
  BY <1>1, <1>2 DEF Inv, LockInv, BeingFreed, ValidInv
<1>4. nlink[s] = dnlink[i] /\ dtype[i] = 1 /\ nlink[s] \in Nat
  BY <1>2, <1>3 DEF Inv, ValidInv, LinksCounted, TypeOK
<1>5. dnlink[i] = Cardinality(NamesOf(i)) + Cardinality(Pending(i))
      /\ Cardinality(NamesOf(i)) \in Nat /\ Cardinality(Pending(i)) \in Nat
  BY <1>4, LinksAre, Finite, FS_CardinalityType DEF Inv
<1> QED BY <1>1, <1>2, <1>3, <1>4, <1>5
\* A call that changes the link count by taking itself into or out of the calls
\* under way, with the directory as it is.
LEMMA CountStep ==
  ASSUME Inv, NEW p \in Procs, NEW k, NEW l \in {"dirlink", "iput"}, pc[p] \in {"locked", "unlinked"},
         SetLinks(p, k), iunlock(p), Goto(p, l),
         UNCHANGED <<dtype, dir, dlock, inum, valid, type, ref, locals, panicked>>,
         \/ l = "dirlink" /\ p \notin Pending(inum[ip[p]]) /\ k = nlink[ip[p]] + 1
         \/ l = "iput" /\ p \in Pending(inum[ip[p]]) /\ k = nlink[ip[p]] - 1
         \/ l = "iput" /\ p \notin Pending(inum[ip[p]]) /\ k = nlink[ip[p]]
  PROVE  Inv'
<1> USE DEF locals
<1>1. PICK i \in Inums : i = inum[ip[p]]
  BY LockedSees
<1>2. /\ p \in Holding /\ nlink[ip[p]] = Cardinality(NamesOf(i)) + Cardinality(Pending(i))
      /\ Cardinality(NamesOf(i)) \in Nat /\ Cardinality(Pending(i)) \in Nat
  BY <1>1, LockedSees
<1>3. pc' = [pc EXCEPT ![p] = l] /\ pc'[p] = l /\ \A q \in Procs : q # p => pc'[q] = pc[q]
  BY DEF Goto, Inv, LinksCounted, TypeOK
<1>4. \A j : Holders(j)' = Holders(j) /\ Holders(j) \subseteq Procs
  BY <1>2, <1>3, StaysPut DEF Holders, Holding
<1>5. p \in Holders(i)
  BY <1>1, <1>2 DEF Holders
<1>6. Cardinality(Pending(i)') = k - Cardinality(NamesOf(i)) /\ k \in Nat
  <2>1. CASE l = "dirlink"
    <3>1. Pending(i)' = Pending(i) \cup {p}
      BY <1>3, <1>4, <1>5, <2>1 DEF Pending
    <3>2. Cardinality(Pending(i)') = Cardinality(Pending(i)) + 1
      BY <1>1, <2>1, <3>1, Finite, FS_AddElement
    <3>3. k = nlink[ip[p]] + 1
      BY <2>1
    <3> QED BY <1>2, <3>2, <3>3, SMTT(30)
  <2>2. CASE l = "iput"
    <3>1. Pending(i)' = Pending(i) \ {p}
      BY <1>3, <1>4, <1>5, <2>2 DEF Pending, ToLock
    <3>2. Cardinality(Pending(i)') = IF p \in Pending(i) THEN Cardinality(Pending(i)) - 1 ELSE Cardinality(Pending(i))
      BY <3>1, Finite, FS_RemoveElement
    <3>3. p \in Pending(i) => Cardinality(Pending(i)) >= 1
      <4> SUFFICES ASSUME p \in Pending(i) PROVE Cardinality(Pending(i)) # 0
        BY <1>2, SMTT(30)
      <4> QED BY Finite, FS_EmptySet
    <3> QED BY <1>1, <1>2, <2>2, <3>2, <3>3, SMTT(30)
  <2> QED BY <2>1, <2>2
<1>7. DirInv'
  BY <1>3 DEF Inv, DirInv, ToLock
<1>8. \A j : NamesOf(j)' = NamesOf(j)
  BY DEF NamesOf
<1>9. dir' \in [Names -> Inums \cup {0}] /\ dlock' \in Procs \cup {Nobody}
  BY DEF Inv, LinksCounted, TypeOK
<1>10. k = Cardinality(NamesOf(i)') + Cardinality(Pending(i)')
  BY <1>2, <1>6, <1>8, SMTT(30)
<1> QED BY <1>1, <1>6, <1>7, <1>8, <1>9, <1>10, LinkStep

\* sys_link() counts the link it is about to make.
LEMMA SysLinkInv ==
  ASSUME Inv, NEW p \in Procs, sys_link(p)
  PROVE  Inv'
<1>1. pc[p] = "locked" /\ goal[p] = "link"
  BY DEF sys_link, Using
<1>2. p \notin Pending(inum[ip[p]])
  BY <1>1 DEF Pending
<1> QED BY <1>1, <1>2, CountStep DEF sys_link

\* sys_link() takes the link back.
LEMMA LinkBadInv ==
  ASSUME Inv, NEW p \in Procs, link_bad(p)
  PROVE  Inv'
<1>1. pc[p] = "locked" /\ goal[p] = "undo"
  BY DEF link_bad, Using
<1>2. p \in Pending(inum[ip[p]])
  BY <1>1, LockedSees DEF Pending, Holders, ToLock
<1> QED BY <1>1, <1>2, CountStep DEF link_bad, Down

\* sys_unlink() counts the link down that it has taken away.
LEMMA UnlinkNlinkInv ==
  ASSUME Inv, NEW p \in Procs, unlink_nlink(p)
  PROVE  Inv'
<1>1. pc[p] = "unlinked"
  BY DEF unlink_nlink
<1>2. p \in Pending(inum[ip[p]])
  BY <1>1, LockedSees DEF Pending, Holders
<1> QED BY <1>1, <1>2, CountStep DEF unlink_nlink, Down

\* create() gives the inode its name, or gives it up.
LEMMA CreateLinkInv ==
  ASSUME Inv, NEW p \in Procs, create_link(p)
  PROVE  Inv'
<1> USE DEF locals
<1>1. /\ pc[p] = "locked" /\ goal[p] = "create" /\ iunlock(p)
      /\ UNCHANGED <<dtype, inum, valid, type, ref, locals, panicked>>
  BY DEF create_link, Using
<1>2. PICK i \in Inums : i = inum[ip[p]]
  BY <1>1, LockedSees
<1>3. p \in Holding /\ dtype[i] = 1 /\ nlink[ip[p]] = dnlink[i]
  BY <1>1, <1>2, LockedSees
<1>4. dnlink[i] = 0 /\ dir[name[p]] = 0 /\ dlock = p /\ name[p] \in Names
  BY <1>1, <1>2 DEF Inv, FreshInv, DirInv, ToLock, LinksCounted, TypeOK
<1>5. NamesOf(i) = {} /\ Pending(i) = {}
  BY <1>3, <1>4, NoLinks
<1>6. CASE SetLinks(p, 0) /\ Goto(p, "iput") /\ UNCHANGED <<dir, dlock>>
  BY <1>1, <1>2, <1>3, <1>4, <1>5, <1>6, CountStep
<1>7. CASE /\ SetLinks(p, 1) /\ Goto(p, "ref")
           /\ dir' = [dir EXCEPT ![name[p]] = i] /\ dlock' = Nobody
  <2>1. pc' = [pc EXCEPT ![p] = "ref"] /\ pc'[p] = "ref" /\ \A q \in Procs : q # p => pc'[q] = pc[q]
    BY <1>7 DEF Goto, Inv, LinksCounted, TypeOK
  <2>2. dir' \in [Names -> Inums \cup {0}] /\ dlock' \in Procs \cup {Nobody}
        /\ (\A n \in Names : dir'[n] \in {dir[n], i}) /\ dir'[name[p]] = i
        /\ \A n \in Names : n # name[p] => dir'[n] = dir[n]
    BY <1>4, <1>7 DEF Inv, LinksCounted, TypeOK
  <2>3. DirInv'
    BY <1>1, <1>4, <1>7, <2>1 DEF Inv, DirInv, ToLock
  <2>4. \A j \in Inums : j # i => NamesOf(j)' = NamesOf(j)
    <3>1. \A j \in Inums : j # 0
      BY SMTT(30), SMTT(60) DEF Inums
    <3> QED BY <1>4, <2>2, <3>1 DEF NamesOf
  <2>5. NamesOf(i)' = {name[p]}
    BY <1>4, <1>5, <2>2, SMTT(30), SMTT(60) DEF NamesOf
  <2>6. Pending(i)' = {}
    <3>1. Holders(i)' = Holders(i) /\ Holders(i) \subseteq Procs
      BY <1>3, <2>1, <1>1, StaysPut DEF Holders, Holding
    <3>2. \A q \in Holders(i) : q \in Pending(i)' => q \in Pending(i)
      BY <1>1, <2>1, <3>1 DEF Pending, ToLock
    <3>3. Pending(i)' \subseteq Holders(i)
      BY <3>1 DEF Pending
    <3> QED BY <1>5, <3>2, <3>3
  <2>7. Cardinality(NamesOf(i)') = 1 /\ Cardinality(Pending(i)') = 0
    BY <2>5, <2>6, FS_EmptySet, FS_Singleton
  <2> QED BY <1>1, <1>2, <1>7, <2>2, <2>3, <2>4, <2>7, LinkStep, SMTT(30), SMTT(60)
<1> QED BY <1>1, <1>2, <1>6, <1>7 DEF create_link
------------------------------------------------------------------------------
\* A step that changes the directory, while nobody else has it locked, and the
\* calls under way with it.
LEMMA NameStep ==
  ASSUME Inv, NEW p \in Holding, NEW l \in {"unlinked", "iput"}, pc' = [pc EXCEPT ![p] = l],
         pc[p] \in {"locked", "dirlink"}, l = "unlinked" <=> pc[p] = "locked", dlock \in {p, Nobody},
         UNCHANGED <<diskVars, slotVars, ref, lock, locals>>, panicked' \in {0, 3},
         dlock' = Nobody, dir' \in [Names -> Inums \cup {0}],
         \A n \in Names : dir'[n] \in {0, dir[n], inum[ip[p]]},
         \A j \in Inums : j # inum[ip[p]] => NamesOf(j)' = NamesOf(j),
         Cardinality(NamesOf(inum[ip[p]])) + Cardinality(Pending(inum[ip[p]]))
           = Cardinality(NamesOf(inum[ip[p]])') + Cardinality(Pending(inum[ip[p]])')
  PROVE  Inv'
<1> USE DEF locals, slotVars, diskVars
<1>1. p \in Procs /\ pc'[p] = l /\ \A q \in Procs : q # p => pc'[q] = pc[q]
  BY DEF Holding, Inv, LinksCounted, TypeOK
<1>2. PICK i \in Inums : i = inum[ip[p]]
  BY HolderFacts
<1>3. RefInv' /\ EntryInv' /\ Holding' = Holding /\ \A j : Holders(j)' = Holders(j) /\ Holders(j) \subseteq Procs
  BY <1>1, StaysPut DEF Holders, Holding
<1>4. TypeOK'
  <2>1. pc' \in [Procs -> {"idle", "ialloc", "iget", "ref", "ilock", "load", "locked", "dirlink",
                         "unlinked", "iput", "itrunc", "freed", "drop"}]
    BY DEF Inv, LinksCounted, TypeOK
  <2> QED BY <2>1, SMTT(30), SMTT(60) DEF Inv, LinksCounted, TypeOK
<1>5. LockInv' /\ ValidInv'
  BY <1>1, SMTT(30), SMTT(60) DEF Inv, LinksCounted, TypeOK, LockInv, ValidInv, BeingFreed, Locking
<1>6. \A q \in Procs : /\ pc'[q] \notin {"ialloc", "iget"}
                       /\ ~(goal'[q] \in {"unlink", "create"} /\ pc'[q] \in ToLock)
  BY <1>1, InodeAssumption DEF Inv, DirInv, ToLock
<1>7. DirInv' /\ FreshInv'
  BY <1>6 DEF DirInv, FreshInv
<1>8. LinksCounted'
  <2>1. \A j \in Inums : j # i => Pending(j)' = Pending(j)
    <3>1. \A j \in Inums : j # i => p \notin Holders(j)
      BY <1>2 DEF Holders
    <3> QED BY <1>1, <1>3, <3>1 DEF Pending
  <2>2. \A j \in Inums : dtype'[j] = 1 => dnlink'[j] = Cardinality(NamesOf(j)') + Cardinality(Pending(j)')
    BY <1>2, <2>1, LinksAre DEF Inv
  <2> QED BY <1>4, <2>2 DEF LinksCounted, NamesOf, Pending, ToLock
<1>9. InUseIsAllocated'
  <2>1. \A q \in Holding : pc'[q] \notin Leaving => pc[q] \notin Leaving
    BY <1>1 DEF Holding, Leaving
  <2>2. dtype[i] = 1
    BY <1>2 DEF Inv, InUseIsAllocated
  <2> QED BY <1>2, <1>3, <2>1, <2>2 DEF Inv, InUseIsAllocated, Leaving
<1> QED BY <1>3, <1>5, <1>7, <1>8, <1>9 DEF Inv

\* sys_unlink() clears the entry it found, which still names the inode.
LEMMA UnlinkEntryInv ==
  ASSUME Inv, NEW p \in Procs, unlink_entry(p)
  PROVE  Inv'
<1>1. /\ pc[p] = "locked" /\ goal[p] = "unlink" /\ pc' = [pc EXCEPT ![p] = "unlinked"]
      /\ dir' = [dir EXCEPT ![name[p]] = 0] /\ dlock' = Nobody
      /\ UNCHANGED <<diskVars, slotVars, ref, lock, locals>>
  BY DEF unlink_entry, Using, Goto
<1>2. PICK i \in Inums : i = inum[ip[p]]
  BY <1>1, LockedSees
<1>3. /\ p \in Holding /\ nlink[ip[p]] = Cardinality(NamesOf(i)) + Cardinality(Pending(i))
      /\ Cardinality(NamesOf(i)) \in Nat /\ Cardinality(Pending(i)) \in Nat
  BY <1>1, <1>2, LockedSees
<1>4. name[p] \in Names /\ dir[name[p]] = i /\ dlock = p /\ i # 0
  BY <1>1, <1>2, SMTT(30), SMTT(60) DEF Inv, DirInv, ToLock, LinksCounted, TypeOK, Inums
<1>5. name[p] \in NamesOf(i)
  BY <1>4 DEF NamesOf
<1>6. Cardinality(NamesOf(i)) >= 1
  <2>1. Cardinality(NamesOf(i)) # 0
    BY <1>5, Finite, FS_EmptySet
  <2> QED BY <1>3, <2>1, SMTT(30)
<1>7. panicked' = 0
  BY <1>3, <1>6, SMTT(30), SMTT(60) DEF unlink_entry
<1>8. dir' \in [Names -> Inums \cup {0}] /\ dir'[name[p]] = 0 /\ \A n \in Names : n # name[p] => dir'[n] = dir[n]
  BY <1>1, <1>4 DEF Inv, LinksCounted, TypeOK
<1>9. \A j \in Inums : j # i => NamesOf(j)' = NamesOf(j)
  <2>1. \A j \in Inums : j # 0
    BY SMTT(30) DEF Inums
  <2> QED BY <1>4, <1>8, <2>1 DEF NamesOf
<1>10. Cardinality(NamesOf(i)') = Cardinality(NamesOf(i)) - 1
  <2>1. NamesOf(i)' = NamesOf(i) \ {name[p]}
    BY <1>4, <1>8, SMTT(30), SMTT(60) DEF NamesOf
  <2> QED BY <1>5, <2>1, Finite, FS_RemoveElement
<1>11. Cardinality(Pending(i)') = Cardinality(Pending(i)) + 1
  <2>1. pc'[p] = "unlinked" /\ \A q \in Procs : q # p => pc'[q] = pc[q]
    BY <1>1 DEF Inv, LinksCounted, TypeOK
  <2>2. Holders(i)' = Holders(i) /\ Holders(i) \subseteq Procs /\ p \in Holders(i)
    BY <1>1, <1>2, <1>3, StaysPut DEF Holders, Holding, slotVars, locals
  <2>3. Pending(i)' = Pending(i) \cup {p} /\ p \notin Pending(i)
    BY <1>1, <2>1, <2>2 DEF Pending, ToLock, locals
  <2> QED BY <2>3, Finite, FS_AddElement
<1>12. Cardinality(NamesOf(i)) + Cardinality(Pending(i)) = Cardinality(NamesOf(i)') + Cardinality(Pending(i)')
  BY <1>3, <1>10, <1>11, SMTT(30), SMTT(60)
<1> QED BY <1>1, <1>2, <1>3, <1>4, <1>7, <1>8, <1>9, <1>12, NameStep DEF slotVars, locals

\* sys_link() makes the link, or sees that it cannot.
LEMMA LinkDirlinkInv ==
  ASSUME Inv, NEW p \in Procs, link_dirlink(p)
  PROVE  Inv'
<1>1. /\ pc[p] = "dirlink" /\ p \in Holding /\ dlock = Nobody
      /\ UNCHANGED <<diskVars, dlock, slotVars, ref, lock, ip, name, panicked>>
  BY DEF link_dirlink, Holding
<1>2. PICK i \in Inums : i = inum[ip[p]]
  BY <1>1, HolderFacts
<1>3. CASE Aim(p, "undo") /\ Goto(p, "ilock") /\ UNCHANGED dir
  <2> USE <1>3 DEF Aim, Goto, diskVars, slotVars
  <2>1. TypeOK'
    <3>1. pc' \in [Procs -> {"idle", "ialloc", "iget", "ref", "ilock", "load", "locked", "dirlink",
                           "unlinked", "iput", "itrunc", "freed", "drop"}]
      BY DEF Inv, LinksCounted, TypeOK
    <3>2. goal' \in [Procs -> {"use", "link", "undo", "unlink", "create"}]
      BY DEF Inv, LinksCounted, TypeOK
    <3> QED BY <1>1, <3>1, <3>2 DEF Inv, LinksCounted, TypeOK
  <2>2. LockInv' /\ ValidInv'
    BY <1>1, SMTT(30), SMTT(60) DEF Inv, LinksCounted, TypeOK, LockInv, ValidInv, BeingFreed, Locking
  <2>3. goal'[p] = "undo" /\ \A q \in Procs : q # p => goal'[q] = goal[q]
    BY DEF Inv, LinksCounted, TypeOK
  <2> QED BY <1>1, <2>1, <2>2, <2>3, QuietStep DEF Inv, InUseIsAllocated, ToLock, Leaving
<1>4. ASSUME NEW n \in Names, dir[n] = 0, dir' = [dir EXCEPT ![n] = i], Goto(p, "iput"), UNCHANGED goal
      PROVE  Inv'
  <2>1. pc' = [pc EXCEPT ![p] = "iput"] /\ pc'[p] = "iput" /\ \A q \in Procs : q # p => pc'[q] = pc[q]
    BY <1>4 DEF Goto, Inv, LinksCounted, TypeOK
  <2>2. dir' \in [Names -> Inums \cup {0}] /\ dir'[n] = i /\ \A m \in Names : m # n => dir'[m] = dir[m]
    BY <1>4 DEF Inv, LinksCounted, TypeOK
  <2>3. \A j \in Inums : j # 0
    BY SMTT(30) DEF Inums
  <2>4. \A j \in Inums : j # i => NamesOf(j)' = NamesOf(j)
    BY <1>4, <2>2, <2>3 DEF NamesOf
  <2>5. Cardinality(NamesOf(i)') = Cardinality(NamesOf(i)) + 1
    <3>1. NamesOf(i)' = NamesOf(i) \cup {n} /\ n \notin NamesOf(i)
      BY <1>4, <2>2, <2>3 DEF NamesOf
    <3> QED BY <3>1, Finite, FS_AddElement
  <2>6. Cardinality(Pending(i)') = Cardinality(Pending(i)) - 1
    <3>1. Holders(i)' = Holders(i) /\ Holders(i) \subseteq Procs /\ p \in Holders(i)
      BY <1>1, <1>2, <2>1, StaysPut DEF Holders, Holding, slotVars
    <3>2. Pending(i)' = Pending(i) \ {p} /\ p \in Pending(i)
      BY <1>1, <1>4, <2>1, <3>1 DEF Pending, ToLock
    <3> QED BY <3>2, Finite, FS_RemoveElement
  <2>7. Cardinality(NamesOf(i)) \in Nat /\ Cardinality(Pending(i)) \in Nat
    BY Finite, FS_CardinalityType
  <2>8. Cardinality(NamesOf(i)) + Cardinality(Pending(i)) = Cardinality(NamesOf(i)') + Cardinality(Pending(i)')
    BY <2>5, <2>6, <2>7, SMTT(30), SMTT(60)
  <2>9. panicked' \in {0, 3}
    BY <1>1 DEF Inv, InUseIsAllocated
  <2> QED BY <1>1, <1>2, <1>4, <2>1, <2>2, <2>4, <2>8, <2>9, NameStep DEF slotVars, locals
<1> QED BY <1>2, <1>3, <1>4 DEF link_dirlink
------------------------------------------------------------------------------
\* iput() frees the inode on disk: it has no name, and nobody else holds it.
LEMMA IputFreeInv ==
  ASSUME Inv, NEW p \in Procs, iput_free(p)
  PROVE  Inv'
<1> USE DEF locals
<1>1. /\ pc[p] = "itrunc" /\ p \in Holding /\ pc' = [pc EXCEPT ![p] = "freed"]
      /\ UNCHANGED <<dir, dlock, inum, valid, nlink, ref, lock, locals, panicked>>
  BY DEF iput_free, Holding, Goto
<1>2. PICK s \in Slots, i \in Inums : s = ip[p] /\ i = inum[s] /\ ref[s] > 0
  BY <1>1, HolderFacts
<1>3. ref[s] = 1 /\ nlink[s] = 0 /\ lock[s] = p /\ dtype[i] = 1 /\ dnlink[i] = 0
  BY <1>1, <1>2, LockedSees DEF Inv, ValidInv
<1>4. type' = [type EXCEPT ![s] = 0] /\ dtype' = [dtype EXCEPT ![i] = 0] /\ dnlink' = [dnlink EXCEPT ![i] = 0]
  BY <1>2, <1>3 DEF iput_free
<1>5. dnlink' = dnlink /\ pc'[p] = "freed" /\ \A q \in Procs : q # p => pc'[q] = pc[q]
  BY <1>1, <1>3, <1>4, SMTT(30), SMTT(60) DEF Inv, LinksCounted, TypeOK
<1>6. RefInv' /\ EntryInv' /\ Holding' = Holding /\ \A j : Holders(j)' = Holders(j) /\ Holders(j) \subseteq Procs
  BY <1>1, StaysPut DEF Holders, Holding
<1>7. \A q \in Holding : inum[ip[q]] = i => q = p
  BY <1>1, <1>2, <1>3, HolderFacts
<1>8. NamesOf(i) = {}
  BY <1>3, NoLinks
<1>9. TypeOK'
  <2>1. pc' \in [Procs -> {"idle", "ialloc", "iget", "ref", "ilock", "load", "locked", "dirlink",
                         "unlinked", "iput", "itrunc", "freed", "drop"}]
    BY <1>1 DEF Inv, LinksCounted, TypeOK
  <2>2. type' \in [Slots -> {0, 1}] /\ dtype' \in [Inums -> {0, 1}]
    BY <1>4 DEF Inv, LinksCounted, TypeOK
  <2> QED BY <1>1, <1>5, <2>1, <2>2 DEF Inv, LinksCounted, TypeOK
<1>10. LockInv'
  BY <1>1, <1>5, SMTT(30), SMTT(60) DEF Inv, LockInv, Locking, LinksCounted, TypeOK
<1>11. ValidInv'
  <2>1. BeingFreed(s)' /\ \A t \in Slots : BeingFreed(t) => BeingFreed(t)'
    BY <1>1, <1>3, <1>5 DEF BeingFreed
  <2>2. \A t \in Slots : t # s /\ ref[t] > 0 => inum[t] # i /\ inum[t] \in Inums
    BY <1>2 DEF Inv, EntryInv
  <2>3. \A t \in Slots : ref'[t] > 0 /\ valid'[t] = 1 /\ ~BeingFreed(t)' =>
           nlink'[t] = dnlink'[inum'[t]] /\ type'[t] = 1 /\ dtype'[inum'[t]] = 1
    <3> SUFFICES ASSUME NEW t \in Slots, ref[t] > 0, valid[t] = 1, ~BeingFreed(t)'
                 PROVE  nlink'[t] = dnlink'[inum'[t]] /\ type'[t] = 1 /\ dtype'[inum'[t]] = 1
      BY <1>1
    <3>1. t # s /\ ~BeingFreed(t) /\ inum[t] # i /\ inum[t] \in Inums
      BY <2>1, <2>2
    <3>2. nlink[t] = dnlink[inum[t]] /\ type[t] = 1 /\ dtype[inum[t]] = 1
      BY <3>1 DEF Inv, ValidInv
    <3>3. type'[t] = type[t] /\ dtype'[inum[t]] = dtype[inum[t]]
      BY <1>4, <3>1 DEF Inv, LinksCounted, TypeOK
    <3> QED BY <1>1, <1>5, <3>2, <3>3
  <2> QED BY <1>1, <1>5, <2>3 DEF Inv, ValidInv
<1>12. DirInv'
  BY <1>1, <1>5 DEF Inv, DirInv, ToLock
<1>13. FreshInv'
  <2>1. p \in Holders(i) /\ pc[p] \notin Leaving
    BY <1>1, <1>2 DEF Holders, Leaving
  <2>2. \A q \in Procs : pc[q] = "iget" => ip[q] # i /\ ip[q] \in Inums
    BY <2>1 DEF Inv, FreshInv, RefInv
  <2>3. \A q \in Procs : pc[q] \in Leaving => pc'[q] \in Leaving
    BY <1>5 DEF Leaving
  <2>4. \A q \in Procs : pc'[q] \in ToLock \cup {"iget"} => pc'[q] = pc[q]
    BY <1>5 DEF ToLock
  <2>5. \A q \in Procs : pc'[q] = "iget" => dtype'[ip[q]] = 1
    BY <1>4, <2>2, <2>4 DEF Inv, FreshInv, LinksCounted, TypeOK
  <2> QED BY <1>1, <1>5, <1>6, <2>3, <2>4, <2>5 DEF Inv, FreshInv
<1>14. LinksCounted'
  <2>1. \A j : Pending(j)' = Pending(j) /\ NamesOf(j)' = NamesOf(j)
    BY <1>1, <1>5, <1>6 DEF Pending, NamesOf, ToLock
  <2>2. \A j \in Inums : dtype'[j] = 1 => dnlink'[j] = Cardinality(NamesOf(j)') + Cardinality(Pending(j)')
    BY <1>4, <1>5, <2>1, LinksAre DEF Inv, TypeOK
  <2> QED BY <1>9, <2>2 DEF LinksCounted, NamesOf, Pending, ToLock
<1>15. InUseIsAllocated'
  <2>1. \A n \in Names : dir[n] # i
    BY <1>8 DEF NamesOf
  <2>2. \A n \in Names : dir'[n] # 0 => dtype'[dir'[n]] = 1
    BY <1>1, <1>4, <2>1 DEF Inv, InUseIsAllocated, LinksCounted, TypeOK
  <2>3. \A q \in Holding : inum[ip[q]] \in Inums
    BY HolderFacts
  <2>4. \A q \in Holding : pc'[q] \notin {"freed", "drop"} => q # p /\ pc'[q] = pc[q] /\ inum[ip[q]] # i
    BY <1>5, <1>7 DEF Holding
  <2>5. \A q \in Holding : pc'[q] \notin {"freed", "drop"} => dtype'[inum[ip[q]]] = 1
    BY <1>4, <2>3, <2>4 DEF Inv, InUseIsAllocated, LinksCounted, TypeOK
  <2> QED BY <1>1, <1>6, <2>2, <2>5 DEF Inv, InUseIsAllocated
<1> QED BY <1>6, <1>10, <1>11, <1>12, <1>13, <1>14, <1>15 DEF Inv

\* A step of create() before it has a reference, which leaves the table alone.
LEMMA NoRefStep ==
  ASSUME Inv, NEW p \in Procs, p \notin Holding, NEW l \in {"idle", "ialloc", "iget"}, pc' = [pc EXCEPT ![p] = l],
         UNCHANGED <<dir, slotVars, ref, lock>>, panicked' \in {0, 3},
         \A q \in Procs : q # p => ip'[q] = ip[q] /\ goal'[q] = goal[q] /\ name'[q] = name[q],
         l = "iget" => ip'[p] \in Inums, TypeOK'
  PROVE  /\ RefInv' /\ EntryInv' /\ LockInv' /\ Holding' = Holding
         /\ \A q \in Holding : q \in Procs /\ q # p /\ pc'[q] = pc[q] /\ ip'[q] = ip[q] /\ goal'[q] = goal[q]
         /\ \A i : Holders(i)' = Holders(i) /\ Pending(i)' = Pending(i) /\ NamesOf(i)' = NamesOf(i)
         /\ \A s \in Slots : BeingFreed(s)' <=> BeingFreed(s)
<1> USE DEF slotVars
<1>1. pc'[p] = l /\ \A q \in Procs : q # p => pc'[q] = pc[q]
  BY DEF Inv, LinksCounted, TypeOK
<1>2. RefInv' /\ EntryInv' /\ Holding' = Holding /\ \A i : Holders(i)' = Holders(i)
  BY StaysPut
<1>3. \A q \in Holding : q \in Procs /\ q # p /\ pc'[q] = pc[q] /\ ip'[q] = ip[q] /\ goal'[q] = goal[q]
  BY <1>1 DEF Holding
<1>4. \A i : Pending(i)' = Pending(i)
  <2>1. \A i : Holders(i) \subseteq Holding
    BY DEF Holders
  <2> QED BY <1>2, <1>3, <2>1 DEF Pending
<1>5. \A i : NamesOf(i)' = NamesOf(i)
  BY DEF NamesOf
<1>6. \A q \in Procs : pc[q] \in Locking \/ pc'[q] \in Locking => q \in Holding
  BY <1>1 DEF Locking, Holding
<1>7. LockInv'
  <2>1. \A q \in Procs : pc'[q] \in Locking => lock'[ip'[q]] = q
    BY <1>3, <1>6 DEF Inv, LockInv
  <2>2. \A s \in Slots : lock'[s] # Nobody => lock[s] \in Procs /\ ip[lock[s]] = s /\ pc[lock[s]] \in Locking
    BY SMTT(30), SMTT(60) DEF Inv, LockInv, LinksCounted, TypeOK
  <2>3. \A s \in Slots : lock'[s] # Nobody => ip'[lock'[s]] = s /\ pc'[lock'[s]] \in Locking
    BY <1>3, <1>6, <2>2, SMTT(30), SMTT(60)
  <2> QED BY <2>1, <2>3 DEF LockInv
<1>8. \A s \in Slots : BeingFreed(s)' <=> BeingFreed(s)
  BY <1>1, <1>3, <1>6 DEF BeingFreed, Locking
<1> QED BY <1>2, <1>3, <1>4, <1>5, <1>7, <1>8

\* Nothing that a valid entry says changes while the table and the disk do not.
LEMMA ValidKeeps ==
  ASSUME Inv, UNCHANGED <<dnlink, dtype, inum, valid, nlink, type, ref>>,
         \A s \in Slots : BeingFreed(s)' <=> BeingFreed(s),
         \A q \in Procs : pc'[q] \in {"locked", "unlinked", "itrunc"} => pc'[q] = pc[q] /\ ip'[q] = ip[q]
  PROVE  ValidInv'
<1>1. ASSUME NEW s \in Slots, ref'[s] > 0, valid'[s] = 1, ~BeingFreed(s)'
      PROVE  nlink'[s] = dnlink'[inum'[s]] /\ type'[s] = 1 /\ dtype'[inum'[s]] = 1
  <2>1. ref[s] > 0 /\ valid[s] = 1 /\ ~BeingFreed(s)
    BY <1>1
  <2> QED BY <2>1 DEF Inv, ValidInv
<1>2. ASSUME NEW q \in Procs, pc'[q] \in {"locked", "unlinked", "itrunc"} PROVE valid'[ip'[q]] = 1
  <2>1. pc'[q] = pc[q] /\ ip'[q] = ip[q]
    BY <1>2
  <2> QED BY <1>2, <2>1 DEF Inv, ValidInv
<1>3. ASSUME NEW q \in Procs, pc'[q] = "itrunc" PROVE ref'[ip'[q]] = 1 /\ nlink'[ip'[q]] = 0
  <2>1. pc'[q] = pc[q] /\ ip'[q] = ip[q]
    BY <1>3
  <2> QED BY <1>3, <2>1 DEF Inv, ValidInv
<1> QED BY <1>1, <1>2, <1>3 DEF ValidInv

\* Nobody has the directory when create() locks it.
LEMMA CreateInv ==
  ASSUME Inv, NEW p \in Procs, NEW n \in Names, create(p, n)
  PROVE  Inv'
<1> USE DEF slotVars, diskVars
<1>1. /\ pc[p] = "idle" /\ dlock = Nobody /\ dir[n] = 0 /\ dlock' = p /\ pc' = [pc EXCEPT ![p] = "ialloc"]
      /\ name' = [name EXCEPT ![p] = n] /\ goal' = [goal EXCEPT ![p] = "create"]
      /\ UNCHANGED <<diskVars, dir, slotVars, ref, lock, ip, panicked>>
  BY DEF create, Aim, Goto
<1>2. TypeOK'
  <2>1. pc' \in [Procs -> {"idle", "ialloc", "iget", "ref", "ilock", "load", "locked", "dirlink",
                         "unlinked", "iput", "itrunc", "freed", "drop"}]
    BY <1>1 DEF Inv, LinksCounted, TypeOK
  <2>2. goal' \in [Procs -> {"use", "link", "undo", "unlink", "create"}] /\ name' \in [Procs -> Names]
    BY <1>1 DEF Inv, LinksCounted, TypeOK
  <2> QED BY <1>1, <2>1, <2>2 DEF Inv, LinksCounted, TypeOK
<1>3. /\ p \notin Holding /\ panicked' \in {0, 3}
      /\ pc'[p] = "ialloc" /\ goal'[p] = "create" /\ name'[p] = n
      /\ \A q \in Procs : q # p => pc'[q] = pc[q] /\ goal'[q] = goal[q] /\ name'[q] = name[q]
  BY <1>1 DEF Holding, Inv, InUseIsAllocated, LinksCounted, TypeOK
<1>4. /\ RefInv' /\ EntryInv' /\ LockInv' /\ Holding' = Holding
      /\ \A q \in Holding : q \in Procs /\ q # p /\ pc'[q] = pc[q] /\ ip'[q] = ip[q]
      /\ \A i : Holders(i)' = Holders(i) /\ Pending(i)' = Pending(i) /\ NamesOf(i)' = NamesOf(i)
      /\ \A s \in Slots : BeingFreed(s)' <=> BeingFreed(s)
  BY <1>1, <1>2, <1>3, NoRefStep
<1>5. ValidInv'
  <2>1. \A q \in Procs : pc'[q] \in {"locked", "unlinked", "itrunc"} => pc'[q] = pc[q] /\ ip'[q] = ip[q]
    BY <1>1, <1>3
  <2> QED BY <1>1, <1>4, <2>1, ValidKeeps
<1>6. \A q \in Procs : q # p => /\ pc'[q] \notin {"ialloc", "iget"}
                                /\ ~(goal'[q] \in {"unlink", "create"} /\ pc'[q] \in ToLock)
  BY <1>1, <1>3, InodeAssumption DEF Inv, DirInv
<1>7. DirInv' /\ FreshInv'
  BY <1>1, <1>3, <1>6 DEF DirInv, FreshInv, ToLock
<1>8. InUseIsAllocated'
  BY <1>1, <1>3, <1>4 DEF Inv, InUseIsAllocated
<1>9. LinksCounted'
  <2>1. \A i \in Inums : dtype'[i] = 1 => dnlink'[i] = Cardinality(NamesOf(i)') + Cardinality(Pending(i)')
    BY <1>1, <1>4, LinksAre DEF Inv
  <2> QED BY <1>2, <2>1 DEF LinksCounted, NamesOf, Pending, ToLock
<1> QED BY <1>4, <1>5, <1>7, <1>8, <1>9 DEF Inv
\* ialloc() marks a free inode: it has no name, and whoever still has its entry
\* is about to drop it.
LEMMA IallocInv ==
  ASSUME Inv, NEW p \in Procs, ialloc(p)
  PROVE  Inv'
<1> USE DEF slotVars, diskVars
<1>1. /\ pc[p] = "ialloc" /\ UNCHANGED <<dir, slotVars, ref, lock, panicked>>
      /\ p \notin Holding /\ panicked' \in {0, 3} /\ dlock = p /\ goal[p] = "create" /\ dir[name[p]] = 0
  BY DEF ialloc, Holding, Inv, InUseIsAllocated, DirInv
<1>2. \A q \in Procs : q # p => /\ pc[q] \notin {"ialloc", "iget"}
                                /\ ~(goal[q] \in {"unlink", "create"} /\ pc[q] \in ToLock)
  BY <1>1 DEF Inv, DirInv
<1>3. CASE /\ dlock' = Nobody /\ Goto(p, "idle") /\ Aim(p, "use") /\ name' = [name EXCEPT ![p] = AnyName]
           /\ UNCHANGED <<diskVars, ip>>
  <2>1. TypeOK'
    <3>1. pc' \in [Procs -> {"idle", "ialloc", "iget", "ref", "ilock", "load", "locked", "dirlink",
                           "unlinked", "iput", "itrunc", "freed", "drop"}]
      BY <1>3 DEF Inv, LinksCounted, TypeOK, Goto
    <3>2. goal' \in [Procs -> {"use", "link", "undo", "unlink", "create"}]
      BY <1>3 DEF Inv, LinksCounted, TypeOK, Aim
    <3>3. AnyName \in Names
      BY InodeAssumption DEF AnyName
    <3>4. name' \in [Procs -> Names]
      BY <1>3, <3>3 DEF Inv, LinksCounted, TypeOK
    <3> QED BY <1>1, <1>3, <3>1, <3>2, <3>4 DEF Inv, LinksCounted, TypeOK
  <2>2. /\ pc' = [pc EXCEPT ![p] = "idle"] /\ pc'[p] = "idle"
        /\ \A q \in Procs : q # p => pc'[q] = pc[q] /\ goal'[q] = goal[q] /\ name'[q] = name[q]
    BY <1>3 DEF Goto, Aim, Inv, LinksCounted, TypeOK
  <2>3. /\ RefInv' /\ EntryInv' /\ LockInv' /\ Holding' = Holding
        /\ \A q \in Holding : q \in Procs /\ q # p /\ pc'[q] = pc[q] /\ ip'[q] = ip[q]
        /\ \A i : Holders(i)' = Holders(i) /\ Pending(i)' = Pending(i) /\ NamesOf(i)' = NamesOf(i)
        /\ \A s \in Slots : BeingFreed(s)' <=> BeingFreed(s)
    BY <1>1, <1>3, <2>1, <2>2, NoRefStep
  <2>4. ValidInv'
    <3>1. \A q \in Procs : pc'[q] \in {"locked", "unlinked", "itrunc"} => pc'[q] = pc[q] /\ ip'[q] = ip[q]
      BY <1>3, <2>2
    <3> QED BY <1>1, <1>3, <2>3, <3>1, ValidKeeps
  <2>5. DirInv' /\ FreshInv'
    BY <1>2, <2>2 DEF DirInv, FreshInv, ToLock
  <2>6. InUseIsAllocated'
    BY <1>1, <1>3, <2>3 DEF Inv, InUseIsAllocated
  <2>7. \A i \in Inums : dtype'[i] = 1 => dnlink'[i] = Cardinality(NamesOf(i)') + Cardinality(Pending(i)')
    BY <1>3, <2>3, LinksAre DEF Inv
  <2>8. LinksCounted'
    BY <2>1, <2>7 DEF LinksCounted, NamesOf, Pending, ToLock
  <2> QED BY <2>3, <2>4, <2>5, <2>6, <2>8 DEF Inv
<1>4. ASSUME NEW i \in Inums, dtype[i] = 0, dtype' = [dtype EXCEPT ![i] = 1], dnlink' = [dnlink EXCEPT ![i] = 0],
             ip' = [ip EXCEPT ![p] = i], Goto(p, "iget"), UNCHANGED <<dlock, name, goal>>
      PROVE  Inv'
  <2>1. TypeOK'
    <3>1. pc' \in [Procs -> {"idle", "ialloc", "iget", "ref", "ilock", "load", "locked", "dirlink",
                           "unlinked", "iput", "itrunc", "freed", "drop"}]
      BY <1>4 DEF Inv, LinksCounted, TypeOK, Goto
    <3>2. dtype' \in [Inums -> {0, 1}] /\ dnlink' \in [Inums -> Nat] /\ ip' \in [Procs -> Slots \cup Inums \cup {0}]
      BY <1>4 DEF Inv, LinksCounted, TypeOK
    <3> QED BY <1>1, <1>4, <3>1, <3>2 DEF Inv, LinksCounted, TypeOK
  <2>2. /\ pc' = [pc EXCEPT ![p] = "iget"] /\ pc'[p] = "iget" /\ ip'[p] = i
        /\ \A q \in Procs : q # p => pc'[q] = pc[q] /\ ip'[q] = ip[q]
        /\ dtype'[i] = 1 /\ dnlink'[i] = 0
        /\ \A j \in Inums : j # i => dtype'[j] = dtype[j] /\ dnlink'[j] = dnlink[j]
    BY <1>4 DEF Goto, Inv, LinksCounted, TypeOK
  <2>3. /\ RefInv' /\ EntryInv' /\ LockInv' /\ Holding' = Holding
        /\ \A q \in Holding : q \in Procs /\ q # p /\ pc'[q] = pc[q] /\ ip'[q] = ip[q]
        /\ \A j : Holders(j)' = Holders(j) /\ Pending(j)' = Pending(j) /\ NamesOf(j)' = NamesOf(j)
        /\ \A s \in Slots : BeingFreed(s)' <=> BeingFreed(s)
    BY <1>1, <1>4, <2>1, <2>2, NoRefStep
  <2>4. \A q \in Holders(i) : q \in Holding /\ pc[q] \in Leaving
    BY <1>4, SMTT(30), SMTT(60) DEF Inv, InUseIsAllocated, Leaving, Holders
  <2>5. NamesOf(i) = {} /\ Pending(i) = {}
    <3>1. i # 0 /\ 0 # 1
      BY SMTT(30) DEF Inums
    <3>2. \A n \in Names : dir[n] # i
      BY <1>4, <3>1 DEF Inv, InUseIsAllocated
    <3> QED BY <2>4, <3>2 DEF NamesOf, Pending, Leaving, ToLock
  <2>6. ValidInv'
    <3>1. \A s \in Slots : ref[s] > 0 /\ valid[s] = 1 /\ ~BeingFreed(s) => inum[s] # i /\ inum[s] \in Inums
      <4>1. dtype[i] # 1
        BY <1>4, SMTT(30)
      <4> QED BY <4>1 DEF Inv, ValidInv, EntryInv
    <3>2. \A s \in Slots : ref'[s] > 0 /\ valid'[s] = 1 /\ ~BeingFreed(s)' =>
             nlink'[s] = dnlink'[inum'[s]] /\ type'[s] = 1 /\ dtype'[inum'[s]] = 1
      <4> SUFFICES ASSUME NEW s \in Slots, ref[s] > 0, valid[s] = 1, ~BeingFreed(s)'
                   PROVE  nlink'[s] = dnlink'[inum'[s]] /\ type'[s] = 1 /\ dtype'[inum'[s]] = 1
        BY <1>1
      <4>1. ~BeingFreed(s) /\ inum[s] # i /\ inum[s] \in Inums
        BY <2>3, <3>1
      <4>2. nlink[s] = dnlink[inum[s]] /\ type[s] = 1 /\ dtype[inum[s]] = 1
        BY <4>1 DEF Inv, ValidInv
      <4> QED BY <1>1, <2>2, <4>1, <4>2
    <3>3. \A q \in Procs : pc'[q] \in {"locked", "unlinked", "itrunc"} => pc'[q] = pc[q] /\ ip'[q] = ip[q]
      BY <2>2
    <3>4. ASSUME NEW q \in Procs, pc'[q] \in {"locked", "unlinked", "itrunc"} PROVE valid'[ip'[q]] = 1
      <4>1. pc'[q] = pc[q] /\ ip'[q] = ip[q] /\ valid' = valid
        BY <1>1, <3>3, <3>4
      <4> QED BY <3>4, <4>1 DEF Inv, ValidInv
    <3>5. ASSUME NEW q \in Procs, pc'[q] = "itrunc" PROVE ref'[ip'[q]] = 1 /\ nlink'[ip'[q]] = 0
      <4>1. pc'[q] = pc[q] /\ ip'[q] = ip[q] /\ ref' = ref /\ nlink' = nlink
        BY <1>1, <3>3, <3>5
      <4> QED BY <3>5, <4>1 DEF Inv, ValidInv
    <3> QED BY <3>2, <3>4, <3>5 DEF ValidInv
  <2>7. DirInv'
    BY <1>1, <1>2, <1>4, <2>2 DEF DirInv, ToLock
  <2>8. FreshInv'
    <3>1. \A q \in Procs : pc'[q] = "iget" => q = p
      BY <1>2, <2>2
    <3>2. \A q \in Procs : ~(goal'[q] = "create" /\ pc'[q] \in ToLock)
      BY <1>2, <1>4, <2>2 DEF ToLock
    <3>3. \A q \in Holders(i)' : pc'[q] \in Leaving
      BY <2>3, <2>4
    <3> QED BY <2>2, <3>1, <3>2, <3>3 DEF FreshInv
  <2>9. InUseIsAllocated'
    <3>1. \A n \in Names : dir[n] \in Inums \cup {0}
      BY DEF Inv, LinksCounted, TypeOK
    <3>2. \A q \in Holding : inum[ip[q]] \in Inums
      BY HolderFacts
    <3>3. \A j \in Inums : dtype[j] = 1 => dtype'[j] = 1
      BY <2>2
    <3>4. \A n \in Names : dir'[n] # 0 => dtype'[dir'[n]] = 1
      BY <1>1, <3>1, <3>3 DEF Inv, InUseIsAllocated
    <3>5. \A q \in Holding' : pc'[q] \notin {"freed", "drop"} => dtype'[inum'[ip'[q]]] = 1
      BY <1>1, <2>3, <3>2, <3>3 DEF Inv, InUseIsAllocated
    <3> QED BY <1>1, <3>4, <3>5 DEF Inv, InUseIsAllocated
  <2>10. \A j \in Inums : dtype'[j] = 1 => dnlink'[j] = Cardinality(NamesOf(j)') + Cardinality(Pending(j)')
    <3>1. Cardinality(NamesOf(i)') = 0 /\ Cardinality(Pending(i)') = 0
      BY <2>3, <2>5, FS_EmptySet
    <3> QED BY <2>2, <2>3, <3>1, LinksAre, SMTT(30) DEF Inv
  <2>11. LinksCounted'
    BY <2>1, <2>10 DEF LinksCounted, NamesOf, Pending, ToLock
  <2> QED BY <2>3, <2>6, <2>7, <2>8, <2>9, <2>11 DEF Inv
<1> QED BY <1>3, <1>4 DEF ialloc
------------------------------------------------------------------------------
\* iget() found the entry of inode i, or took an unused one: s.
Got(p, i, l, s) ==
    /\ pc' = [pc EXCEPT ![p] = l] /\ ip' = [ip EXCEPT ![p] = s] /\ UNCHANGED panicked
    /\ \/ /\ ref[s] > 0 /\ inum[s] = i
          /\ ref' = [ref EXCEPT ![s] = @ + 1] /\ UNCHANGED <<inum, valid>>
       \/ /\ ref[s] = 0 /\ \A t \in Slots : ref[t] > 0 => inum[t] # i
          /\ ref' = [ref EXCEPT ![s] = @ + 1] /\ inum' = [inum EXCEPT ![s] = i]
          /\ valid' = [valid EXCEPT ![s] = 0]

\* The three ways out of iget().
LEMMA IgetCases ==
  ASSUME Inv, NEW p \in Procs, NEW i \in Inums, NEW l, iget(p, i, l)
  PROVE  \/ \E s \in Slots : Got(p, i, l, s)
         \/ panicked' = 3 /\ UNCHANGED <<ref, inum, valid, ip, pc>>
<1> USE DEF Got, iget, Goto
<1>0. ref \in [Slots -> Nat]
  BY DEF Inv, LinksCounted, TypeOK
<1>1. CASE Found(i) # {}
  <2>1. PICK s \in Found(i) : s = Min(Found(i))
    BY <1>1, MinOf DEF Found, Entries
  <2>2. s \in Slots /\ ref[s] > 0 /\ inum[s] = i
    BY <2>1 DEF Found, Entries
  <2>3. Got(p, i, l, s)
    BY <1>1, <2>1, <2>2
  <2> QED BY <2>2, <2>3
<1>2. CASE Found(i) = {} /\ Unused # {}
  <2>1. PICK s \in Unused : s = Min(Unused)
    BY <1>2, MinOf DEF Unused
  <2>2. s \in Slots /\ ref[s] = 0 /\ \A t \in Slots : ref[t] > 0 => inum[t] # i
    BY <1>2, <2>1 DEF Found, Entries, Unused
  <2>3. ref' = [ref EXCEPT ![s] = 1] /\ [ref EXCEPT ![s] = 1] = [ref EXCEPT ![s] = @ + 1]
    BY <1>0, <1>2, <2>1, <2>2, SMTT(30), SMTT(60)
  <2>4. Got(p, i, l, s)
    BY <1>2, <2>1, <2>2, <2>3 DEF Invalid
  <2> QED BY <2>2, <2>4
<1>3. CASE Found(i) = {} /\ Unused = {}
  BY <1>3
<1> QED BY <1>1, <1>2, <1>3

\* A process gets a reference: the entry counts it, and is for inode i alone.
LEMMA GotTable ==
  ASSUME Inv, NEW p \in Procs, p \notin Holding, NEW i \in Inums, NEW l \in {"ref", "ilock"}, NEW s \in Slots,
         Got(p, i, l, s)
  PROVE  /\ RefInv' /\ EntryInv' /\ Holding' = Holding \cup {p}
         /\ pc'[p] = l /\ ip'[p] = s /\ inum'[s] = i /\ \A q \in Procs : q # p => pc'[q] = pc[q] /\ ip'[q] = ip[q]
         /\ \A q \in Holding : q \in Procs /\ q # p /\ inum'[ip'[q]] = inum[ip[q]]
         /\ Holders(i)' = Holders(i) \cup {p}
         /\ \A j : j # i => Holders(j)' = Holders(j)
<1> USE DEF Got
<1>1. /\ pc \in [Procs -> {"idle", "ialloc", "iget", "ref", "ilock", "load", "locked", "dirlink",
                         "unlinked", "iput", "itrunc", "freed", "drop"}]
      /\ ip \in [Procs -> Slots \cup Inums \cup {0}] /\ inum \in [Slots -> Inums \cup {0}] /\ ref \in [Slots -> Nat]
  BY DEF Inv, LinksCounted, TypeOK
<1>2. pc'[p] = l /\ ip'[p] = s /\ inum'[s] = i /\ \A q \in Procs : q # p => pc'[q] = pc[q] /\ ip'[q] = ip[q]
  BY <1>1
<1>3. Holding' = Holding \cup {p}
  BY <1>2 DEF Holding
<1>4. \A q \in Holding : q \in Procs /\ q # p /\ ip[q] \in Slots /\ ref[ip[q]] > 0
  BY HolderFacts DEF Holding
<1>5. \A t \in Slots : (t # s => inum'[t] = inum[t] /\ ref'[t] = ref[t]) /\ ref'[s] = ref[s] + 1
                       /\ (ref[s] > 0 => inum'[s] = inum[s])
  BY <1>1, SMTT(30)
<1>6. \A q \in Holding : inum'[ip'[q]] = inum[ip[q]]
  BY <1>2, <1>4, <1>5
<1>7. Holders(i)' = Holders(i) \cup {p} /\ \A j : j # i => Holders(j)' = Holders(j)
  BY <1>2, <1>3, <1>6, SMTT(30), SMTT(60) DEF Holders
<1>8. RefInv'
  <2>1. \A q \in Holding' : ip'[q] \in Slots
    BY <1>2, <1>3, <1>4
  <2>2. \A t \in Slots : t # s => RefSet(t)' = RefSet(t)
    BY <1>2, <1>3, <1>4 DEF RefSet
  <2>3. RefSet(s)' = RefSet(s) \cup {p} /\ p \notin RefSet(s)
    BY <1>2, <1>3, <1>4, SMTT(30) DEF RefSet
  <2>4. Cardinality(RefSet(s)') = Cardinality(RefSet(s)) + 1
    BY <2>3, Finite, FS_AddElement
  <2>5. \A t \in Slots : ref'[t] = Cardinality(RefSet(t)')
    BY <1>5, <2>2, <2>4 DEF Inv, RefInv
  <2>6. \A q \in Procs : pc'[q] = "iget" => ip'[q] \in Inums
    BY <1>2 DEF Inv, RefInv
  <2> QED BY <2>1, <2>5, <2>6 DEF RefInv
<1>9. EntryInv'
  BY <1>1, <1>2, <1>5, SMTT(30), SMTT(60) DEF Inv, EntryInv
<1> QED BY <1>2, <1>3, <1>4, <1>6, <1>7, <1>8, <1>9

\* What a process that gets a reference leaves to show: that nobody is freeing
\* the inode, and what holds of the directory.
LEMMA GotInv ==
  ASSUME Inv, NEW p \in Procs, p \notin Holding, NEW i \in Inums, NEW l \in {"ref", "ilock"}, NEW s \in Slots,
         Got(p, i, l, s), dtype[i] = 1, \A q \in Holders(i) : pc[q] # "itrunc",
         UNCHANGED <<diskVars, dir, type, nlink, lock>>, dlock' \in Procs \cup {Nobody},
         name' \in [Procs -> Names], goal' \in [Procs -> {"use", "link", "undo", "unlink", "create"}],
         \A q \in Procs : q # p => goal'[q] = goal[q], l = "ilock" => goal'[p] # "undo",
         DirInv', FreshInv'
  PROVE  Inv'
<1> USE DEF diskVars
<1>1. /\ RefInv' /\ EntryInv' /\ Holding' = Holding \cup {p}
      /\ pc'[p] = l /\ ip'[p] = s /\ inum'[s] = i /\ (\A q \in Procs : q # p => pc'[q] = pc[q] /\ ip'[q] = ip[q])
      /\ (\A q \in Holding : q \in Procs /\ q # p /\ inum'[ip'[q]] = inum[ip[q]])
      /\ Holders(i)' = Holders(i) \cup {p}
      /\ \A j : j # i => Holders(j)' = Holders(j)
  BY GotTable, SMTT(30), SMTT(60)
<1>2. TypeOK'
  <2>1. pc' \in [Procs -> {"idle", "ialloc", "iget", "ref", "ilock", "load", "locked", "dirlink",
                         "unlinked", "iput", "itrunc", "freed", "drop"}]
    BY DEF Got, Inv, LinksCounted, TypeOK
  <2>2. ip' \in [Procs -> Slots \cup Inums \cup {0}] /\ panicked' \in 0 .. 3
    BY DEF Got, Inv, LinksCounted, TypeOK
  <2>3. ref' \in [Slots -> Nat] /\ inum' \in [Slots -> Inums \cup {0}] /\ valid' \in [Slots -> {0, 1}]
    <3>1. ref \in [Slots -> Nat] /\ inum \in [Slots -> Inums \cup {0}] /\ valid \in [Slots -> {0, 1}]
      BY DEF Inv, LinksCounted, TypeOK
    <3>2. ref[s] + 1 \in Nat
      BY <3>1, SMTT(30)
    <3> QED BY <3>1, <3>2 DEF Got
  <2> QED BY <2>1, <2>2, <2>3 DEF Inv, LinksCounted, TypeOK
<1>3. \A q \in Procs : pc'[q] \in Locking \/ pc[q] \in Locking => q \in Holding /\ q # p
  BY <1>1 DEF Locking, Holding
<1>4. LockInv'
  <2>1. \A q \in Procs : pc'[q] \in Locking => lock'[ip'[q]] = q
    BY <1>1, <1>3 DEF Inv, LockInv
  <2>2. \A t \in Slots : lock'[t] # Nobody => lock[t] \in Procs /\ ip[lock[t]] = t /\ pc[lock[t]] \in Locking
    BY SMTT(30) DEF Inv, LockInv, LinksCounted, TypeOK
  <2>3. \A t \in Slots : lock'[t] # Nobody => ip'[lock'[t]] = t /\ pc'[lock'[t]] \in Locking
    BY <1>1, <1>3, <2>2
  <2> QED BY <2>1, <2>3 DEF LockInv
<1>5. ValidInv'
  <2>1. \A t \in Slots : BeingFreed(t) => BeingFreed(t)'
    BY <1>1, <1>3 DEF BeingFreed, Locking
  <2>2. \A t \in Slots : t # s => inum'[t] = inum[t] /\ ref'[t] = ref[t] /\ valid'[t] = valid[t]
    BY DEF Got, Inv, LinksCounted, TypeOK
  <2>3. valid'[s] = 1 => ref[s] > 0 /\ inum'[s] = inum[s] /\ valid'[s] = valid[s]
    BY SMTT(30) DEF Got, Inv, LinksCounted, TypeOK
  <2>4. \A t \in Slots : ref'[t] > 0 /\ valid'[t] = 1 /\ ~BeingFreed(t)' =>
           nlink'[t] = dnlink'[inum'[t]] /\ type'[t] = 1 /\ dtype'[inum'[t]] = 1
    <3> SUFFICES ASSUME NEW t \in Slots, ref'[t] > 0, valid'[t] = 1, ~BeingFreed(t)'
                 PROVE  nlink'[t] = dnlink'[inum'[t]] /\ type'[t] = 1 /\ dtype'[inum'[t]] = 1
      OBVIOUS
    <3>1. ref[t] > 0 /\ valid[t] = 1 /\ inum'[t] = inum[t] /\ ~BeingFreed(t)
      BY <2>1, <2>2, <2>3
    <3>2. nlink[t] = dnlink[inum[t]] /\ type[t] = 1 /\ dtype[inum[t]] = 1
      BY <3>1 DEF Inv, ValidInv
    <3> QED BY <3>1, <3>2
  <2>5. \A q \in Holding : ip[q] = s => ref[s] > 0 /\ inum[s] = i /\ valid'[s] = valid[s]
    <3> SUFFICES ASSUME NEW q \in Holding, ip[q] = s PROVE ref[s] > 0 /\ inum[s] = i /\ valid'[s] = valid[s]
      OBVIOUS
    <3>1. ref[s] > 0 /\ ref[s] # 0
      BY HolderFacts, SMTT(30), SMTT(60) DEF Inv, LinksCounted, TypeOK
    <3> QED BY <3>1 DEF Got
  <2>6. \A q \in Holding : pc[q] = "itrunc" => ip[q] # s
    BY <2>5 DEF Holders
  <2>7. \A q \in Procs : pc'[q] \in {"locked", "unlinked", "itrunc"} =>
           q \in Holding /\ q # p /\ pc'[q] = pc[q] /\ ip'[q] = ip[q] /\ ip[q] \in Slots
    BY <1>1, <1>3, HolderFacts DEF Locking
  <2>8. \A q \in Procs : pc'[q] \in {"locked", "unlinked", "itrunc"} => valid'[ip'[q]] = 1
    <3> SUFFICES ASSUME NEW q \in Procs, pc'[q] \in {"locked", "unlinked", "itrunc"} PROVE valid'[ip'[q]] = 1
      OBVIOUS
    <3>1. q \in Holding /\ ip'[q] = ip[q] /\ ip[q] \in Slots /\ pc[q] \in {"locked", "unlinked", "itrunc"}
      BY <2>7
    <3>2. valid[ip[q]] = 1
      BY <3>1 DEF Inv, ValidInv
    <3>3. valid'[ip[q]] = valid[ip[q]]
      BY <2>2, <2>5, <3>1
    <3> QED BY <3>1, <3>2, <3>3
  <2>9. \A q \in Procs : pc'[q] = "itrunc" => ref'[ip'[q]] = 1 /\ nlink'[ip'[q]] = 0
    <3> SUFFICES ASSUME NEW q \in Procs, pc'[q] = "itrunc" PROVE ref'[ip'[q]] = 1 /\ nlink'[ip'[q]] = 0
      OBVIOUS
    <3>1. q \in Holding /\ ip'[q] = ip[q] /\ ip[q] \in Slots /\ pc[q] = "itrunc" /\ ip[q] # s
      BY <2>6, <2>7
    <3>2. ref[ip[q]] = 1 /\ nlink[ip[q]] = 0
      BY <3>1 DEF Inv, ValidInv
    <3>3. ref'[ip[q]] = ref[ip[q]] /\ nlink' = nlink
      BY <1>1, <2>2, <3>1
    <3> QED BY <3>1, <3>2, <3>3
  <2> QED BY <2>4, <2>8, <2>9 DEF ValidInv
<1>6. InUseIsAllocated'
  <2>1. panicked' = panicked
    BY DEF Got
  <2>2. \A q \in Holding : pc[q] \notin Leaving => dtype'[inum'[ip'[q]]] = 1
    BY <1>1 DEF Inv, InUseIsAllocated, Leaving
  <2>3. \A q \in Holding' : pc'[q] \notin Leaving => dtype'[inum'[ip'[q]]] = 1
    BY <1>1, <2>2
  <2>4. panicked \in {0, 3} /\ \A n \in Names : dir[n] # 0 => dtype[dir[n]] = 1
    BY DEF Inv, InUseIsAllocated
  <2> QED BY <2>1, <2>3, <2>4 DEF InUseIsAllocated, Leaving
<1>7. \A j : Pending(j)' = Pending(j) /\ NamesOf(j)' = NamesOf(j)
  <2>1. \A j : Holders(j) \subseteq Procs \ {p}
    BY <1>1 DEF Holders
  <2>2. \A j : NamesOf(j)' = NamesOf(j)
    BY DEF NamesOf
  <2>3. \A j : j # i => Pending(j)' = Pending(j)
    <3> SUFFICES ASSUME NEW j, j # i PROVE Pending(j)' = Pending(j)
      OBVIOUS
    <3>1. Holders(j)' = Holders(j) /\ \A q \in Holders(j) : pc'[q] = pc[q] /\ goal'[q] = goal[q]
      BY <1>1, <2>1
    <3> QED BY <3>1 DEF Pending
  <2>4. Pending(i)' = Pending(i)
    <3>1. ~(pc'[p] \in {"dirlink", "unlinked"} \/ (goal'[p] = "undo" /\ pc'[p] \in ToLock))
      BY <1>1 DEF ToLock
    <3>2. \A q \in Holders(i) : pc'[q] = pc[q] /\ goal'[q] = goal[q]
      BY <1>1, <2>1
    <3>3. Holders(i)' = Holders(i) \cup {p}
      BY <1>1
    <3>4. p \notin Holders(i)
      BY <2>1
    <3> QED BY <3>1, <3>2, <3>3, <3>4 DEF Pending
  <2> QED BY <2>2, <2>3, <2>4
<1>8. \A j \in Inums : dtype'[j] = 1 => dnlink'[j] = Cardinality(NamesOf(j)') + Cardinality(Pending(j)')
  BY <1>7, LinksAre DEF Inv
<1>9. LinksCounted'
  BY <1>2, <1>8 DEF LinksCounted, NamesOf, Pending, ToLock
<1> QED BY <1>1, <1>4, <1>5, <1>6, <1>9 DEF Inv
\* iget() panics: the table is full, and the caller has no reference.
LEMMA PanicInv ==
  ASSUME Inv, NEW p \in Procs, pc[p] \in {"idle", "iget"}, panicked' = 3,
         UNCHANGED <<diskVars, dir, slotVars, ref, lock, pc, ip>>,
         dlock' \in Procs \cup {Nobody}, dlock' = dlock \/ dlock = Nobody,
         name' \in [Procs -> Names], goal' \in [Procs -> {"use", "link", "undo", "unlink", "create"}],
         \A q \in Procs : q # p \/ pc[p] = "iget" => goal'[q] = goal[q] /\ name'[q] = name[q]
  PROVE  Inv'
<1> USE DEF diskVars, slotVars
<1>1. TypeOK'
  BY SMTT(30), SMTT(60) DEF Inv, LinksCounted, TypeOK
<1>2. p \notin Holding /\ pc' = [pc EXCEPT ![p] = pc[p]] /\ (pc[p] = "iget" => ip'[p] \in Inums)
  BY DEF Holding, Inv, LinksCounted, TypeOK, RefInv
<1>3. /\ RefInv' /\ EntryInv' /\ LockInv' /\ Holding' = Holding
      /\ \A i : Holders(i)' = Holders(i) /\ Pending(i)' = Pending(i) /\ NamesOf(i)' = NamesOf(i)
      /\ \A s \in Slots : BeingFreed(s)' <=> BeingFreed(s)
  BY <1>1, <1>2, NoRefStep
<1>4. ValidInv' /\ InUseIsAllocated'
  BY <1>3 DEF Inv, ValidInv, InUseIsAllocated
<1>5. DirInv'
  <2>1. \A q \in Procs : pc[q] \in {"ialloc", "iget"} \cup ToLock => goal'[q] = goal[q] /\ name'[q] = name[q]
    BY DEF ToLock
  <2>2. \A q \in Procs : dlock = q => dlock' = q
    BY InodeAssumption
  <2>3. \A q \in Procs :
          pc'[q] \in {"ialloc", "iget"} \/ (goal'[q] \in {"unlink", "create"} /\ pc'[q] \in ToLock) => dlock' = q
    BY <2>1, <2>2 DEF Inv, DirInv
  <2>4. \A q \in Procs : pc'[q] \in {"ialloc", "iget"} => goal'[q] = "create"
    BY <2>1 DEF Inv, DirInv
  <2>5. \A q \in Procs : goal'[q] = "unlink" /\ pc'[q] \in ToLock => dir'[name'[q]] = inum'[ip'[q]]
    BY <2>1 DEF Inv, DirInv
  <2>6. \A q \in Procs : goal'[q] = "create" /\ pc'[q] \in {"ialloc", "iget"} \cup ToLock => dir'[name'[q]] = 0
    BY <2>1 DEF Inv, DirInv
  <2> QED BY <2>3, <2>4, <2>5, <2>6 DEF DirInv
<1>6. FreshInv'
  BY <1>3, SMTT(30) DEF Inv, FreshInv, ToLock
<1>7. \A j \in Inums : dtype'[j] = 1 => dnlink'[j] = Cardinality(NamesOf(j)') + Cardinality(Pending(j)')
  BY <1>3, LinksAre DEF Inv
<1>8. LinksCounted'
  BY <1>1, <1>7 DEF LinksCounted, NamesOf, Pending, ToLock
<1> QED BY <1>3, <1>4, <1>5, <1>6, <1>8 DEF Inv

\* The inode that a name stands for is allocated, has links, and nobody is
\* freeing it.
LEMMA NamedInode ==
  ASSUME Inv, NEW n \in Names, dir[n] # 0
  PROVE  /\ dir[n] \in Inums /\ dtype[dir[n]] = 1 /\ dnlink[dir[n]] # 0
         /\ \A q \in Holders(dir[n]) : pc[q] # "itrunc"
<1>1. PICK i \in Inums : i = dir[n]
  BY DEF Inv, LinksCounted, TypeOK
<1>2. dtype[i] = 1 /\ n \in NamesOf(i)
  BY <1>1 DEF Inv, InUseIsAllocated, NamesOf
<1>3. dnlink[i] # 0
  BY <1>2, SomeLinks, SMTT(30), SMTT(60)
<1>4. ASSUME NEW q \in Holders(i), pc[q] = "itrunc"
      PROVE  FALSE
  <2>1. q \in Procs /\ inum[ip[q]] = i
    BY DEF Holders, Holding
  <2>2. nlink[ip[q]] = 0 /\ nlink[ip[q]] = dnlink[i]
    BY <1>4, <2>1, LockedSees DEF Inv, ValidInv
  <2> QED BY <1>3, <2>2
<1> QED BY <1>1, <1>2, <1>3, <1>4

\* namei() gets a reference to the inode of a name.
LEMMA NameiInv ==
  ASSUME Inv, NEW p \in Procs, NEW n \in Names, namei(p, n)
  PROVE  Inv'
<1>1. /\ pc[p] = "idle" /\ dir[n] # 0 /\ iget(p, dir[n], "ref") /\ p \notin Holding
      /\ UNCHANGED <<diskVars, dir, dlock, type, nlink, lock, name, goal>>
  BY DEF namei, Holding
<1>2. PICK i \in Inums : i = dir[n] /\ dtype[i] = 1 /\ dnlink[i] # 0 /\ \A q \in Holders(i) : pc[q] # "itrunc"
  BY <1>1, NamedInode
<1>3. /\ dlock \in Procs \cup {Nobody} /\ name \in [Procs -> Names]
      /\ goal \in [Procs -> {"use", "link", "undo", "unlink", "create"}]
  BY DEF Inv, LinksCounted, TypeOK
<1>4. CASE panicked' = 3 /\ UNCHANGED <<ref, inum, valid, ip, pc>>
  BY <1>1, <1>3, <1>4, PanicInv DEF slotVars
<1>5. ASSUME NEW s \in Slots, Got(p, i, "ref", s)
      PROVE  Inv'
  <2>1. /\ pc'[p] = "ref" /\ (\A q \in Procs : q # p => pc'[q] = pc[q] /\ ip'[q] = ip[q])
        /\ (\A q \in Holding : q \in Procs /\ q # p /\ inum'[ip'[q]] = inum[ip[q]])
        /\ \A j : j # i => Holders(j)' = Holders(j)
    BY <1>1, <1>5, GotTable
  <2>2. \A q \in Procs : pc'[q] \in ToLock => q \in Holding /\ pc'[q] = pc[q]
    BY <2>1 DEF ToLock, Holding
  <2>3. DirInv'
    BY <1>1, <2>1, <2>2 DEF Inv, DirInv
  <2>4. \A q \in Procs : pc'[q] = "iget" => pc[q] = "iget" /\ q # p /\ ip'[q] = ip[q] /\ ip[q] # i
    BY <1>2, <2>1, SMTT(30) DEF Inv, FreshInv
  <2>5. \A q \in Procs : goal[q] = "create" /\ pc'[q] \in ToLock => inum[ip[q]] # i
    BY <1>2, <2>2 DEF Inv, FreshInv
  <2>6. \A j : \A q \in Holders(j) : q \in Procs /\ pc'[q] = pc[q]
    BY <2>1 DEF Holders
  <2>7. FreshInv'
    <3>1. ASSUME NEW q \in Procs, pc'[q] = "iget"
          PROVE  /\ dtype'[ip'[q]] = 1 /\ dnlink'[ip'[q]] = 0
                 /\ \A r \in Holders(ip[q])' : pc'[r] \in Leaving
      <4>1. PICK j : j = ip[q]
        OBVIOUS
      <4>2. dtype[j] = 1 /\ dnlink[j] = 0 /\ (\A r \in Holders(j) : pc[r] \in Leaving) /\ j # i /\ ip'[q] = j
        BY <2>4, <3>1, <4>1 DEF Inv, FreshInv
      <4>3. Holders(ip[q])' = Holders(j)
        BY <2>1, <4>2
      <4> QED BY <1>1, <2>6, <4>2, <4>3 DEF diskVars
    <3>2. ASSUME NEW q \in Procs, goal'[q] = "create", pc'[q] \in ToLock
          PROVE  /\ dnlink'[inum'[ip'[q]]] = 0
                 /\ \A r \in Holders(inum[ip[q]])' : r = q \/ pc'[r] \in Leaving
      <4>1. PICK j : j = inum[ip[q]]
        OBVIOUS
      <4>2. dnlink[j] = 0 /\ (\A r \in Holders(j) : r = q \/ pc[r] \in Leaving) /\ j # i /\ inum'[ip'[q]] = j
        BY <1>1, <2>1, <2>2, <2>5, <3>2, <4>1 DEF Inv, FreshInv
      <4>3. Holders(inum[ip[q]])' = Holders(j)
        BY <2>1, <4>2
      <4> QED BY <1>1, <2>6, <4>2, <4>3, SMTT(30), SMTT(60) DEF diskVars
    <3> QED BY <3>1, <3>2 DEF FreshInv
  <2> QED BY <1>1, <1>2, <1>3, <1>5, <2>3, <2>7, GotInv
<1> QED BY <1>1, <1>2, <1>4, <1>5, IgetCases

\* sys_unlink() gets one, with the directory locked.
LEMMA SysUnlinkInv ==
  ASSUME Inv, NEW p \in Procs, NEW n \in Names, sys_unlink(p, n)
  PROVE  Inv'
<1>1. /\ pc[p] = "idle" /\ dir[n] # 0 /\ iget(p, dir[n], "ilock") /\ p \notin Holding /\ dlock = Nobody /\ dlock' = p
      /\ name' = [name EXCEPT ![p] = n] /\ goal' = [goal EXCEPT ![p] = "unlink"]
      /\ UNCHANGED <<diskVars, dir, type, nlink, lock>>
  BY DEF sys_unlink, Holding, Aim
<1>2. PICK i \in Inums : i = dir[n] /\ dtype[i] = 1 /\ \A q \in Holders(i) : pc[q] # "itrunc"
  BY <1>1, NamedInode
<1>3. /\ name' \in [Procs -> Names] /\ goal' \in [Procs -> {"use", "link", "undo", "unlink", "create"}]
      /\ goal'[p] = "unlink" /\ name'[p] = n
      /\ \A q \in Procs : q # p => goal'[q] = goal[q] /\ name'[q] = name[q]
  BY <1>1 DEF Inv, LinksCounted, TypeOK
<1>4. CASE panicked' = 3 /\ UNCHANGED <<ref, inum, valid, ip, pc>>
  BY <1>1, <1>3, <1>4, PanicInv DEF slotVars
<1>5. ASSUME NEW s \in Slots, Got(p, i, "ilock", s)
      PROVE  Inv'
  <2>1. pc'[p] = "ilock" /\ ip'[p] = s /\ inum'[s] = i /\ \A q \in Procs : q # p => pc'[q] = pc[q]
    BY <1>1, <1>5, GotTable
  <2>2. \A q \in Procs : q # p => /\ pc'[q] \notin {"ialloc", "iget"}
                                  /\ ~(goal'[q] \in {"unlink", "create"} /\ pc'[q] \in ToLock)
    BY <1>1, <1>3, <2>1, InodeAssumption DEF Inv, DirInv
  <2>3. DirInv' /\ FreshInv'
    BY <1>1, <1>2, <1>3, <2>1, <2>2 DEF DirInv, FreshInv
  <2> QED BY <1>1, <1>2, <1>3, <1>5, <2>3, GotInv
<1> QED BY <1>1, <1>2, <1>4, <1>5, IgetCases

\* ialloc() gets one to the inode it has marked.
LEMMA IallocGetInv ==
  ASSUME Inv, NEW p \in Procs, ialloc_get(p)
  PROVE  Inv'
<1>1. /\ pc[p] = "iget" /\ iget(p, ip[p], "ilock") /\ p \notin Holding
      /\ UNCHANGED <<diskVars, dir, dlock, type, nlink, lock, name, goal>>
  BY DEF ialloc_get, Holding
<1>2. PICK i \in Inums : i = ip[p]
  BY <1>1 DEF Inv, RefInv
<1>3. /\ dtype[i] = 1 /\ dnlink[i] = 0 /\ (\A q \in Holders(i) : pc[q] \in Leaving) /\ dlock = p
      /\ goal[p] = "create" /\ dir[name[p]] = 0
  BY <1>1, <1>2 DEF Inv, FreshInv, DirInv
<1>4. /\ dlock \in Procs \cup {Nobody} /\ name \in [Procs -> Names]
      /\ goal \in [Procs -> {"use", "link", "undo", "unlink", "create"}]
  BY DEF Inv, LinksCounted, TypeOK
<1>5. CASE panicked' = 3 /\ UNCHANGED <<ref, inum, valid, ip, pc>>
  BY <1>1, <1>4, <1>5, PanicInv DEF slotVars
<1>6. ASSUME NEW s \in Slots, Got(p, i, "ilock", s)
      PROVE  Inv'
  <2>1. /\ pc'[p] = "ilock" /\ ip'[p] = s /\ inum'[s] = i /\ (\A q \in Procs : q # p => pc'[q] = pc[q])
        /\ (\A q \in Holding : q \in Procs /\ q # p) /\ Holders(i)' = Holders(i) \cup {p}
    BY <1>1, <1>6, GotTable
  <2>2. \A q \in Procs : q # p => /\ pc'[q] \notin {"ialloc", "iget"}
                                  /\ ~(goal'[q] \in {"unlink", "create"} /\ pc'[q] \in ToLock)
    BY <1>1, <1>3, <2>1 DEF Inv, DirInv
  <2>3. DirInv'
    BY <1>1, <1>3, <2>1, <2>2 DEF DirInv
  <2>4. \A q \in Holders(i)' : q = p \/ pc'[q] \in Leaving
    BY <1>3, <2>1 DEF Holders
  <2>5. FreshInv'
    BY <1>1, <1>3, <2>1, <2>2, <2>4 DEF FreshInv, diskVars
  <2>6. \A q \in Holders(i) : pc[q] # "itrunc"
    BY <1>3 DEF Leaving
  <2> QED BY <1>1, <1>3, <1>4, <1>6, <2>3, <2>5, <2>6, GotInv
<1> QED BY <1>1, <1>2, <1>5, <1>6, IgetCases
------------------------------------------------------------------------------
\* A reference is dropped, by a process that has nothing locked.
LEMMA DroppedInv ==
  ASSUME Inv, NEW p \in Procs, pc[p] \in {"iput", "drop"}, Dropped(p),
         UNCHANGED <<diskVars, dir, slotVars, lock, panicked>>
  PROVE  Inv'
<1> USE DEF diskVars, slotVars
<1>1. /\ p \in Holding /\ pc' = [pc EXCEPT ![p] = "idle"] /\ ip' = [ip EXCEPT ![p] = 0]
      /\ name' = [name EXCEPT ![p] = AnyName] /\ goal' = [goal EXCEPT ![p] = "use"]
      /\ dlock' = IF dlock = p THEN Nobody ELSE dlock
  BY DEF Dropped, Goto, Aim, Holding
<1>2. PICK s \in Slots, i \in Inums : s = ip[p] /\ i = inum[s] /\ ref[s] > 0
  BY <1>1, HolderFacts
<1>3. ref' = [ref EXCEPT ![s] = @ - 1]
  BY <1>2 DEF Dropped
<1>4. TypeOK'
  <2>1. pc' \in [Procs -> {"idle", "ialloc", "iget", "ref", "ilock", "load", "locked", "dirlink",
                         "unlinked", "iput", "itrunc", "freed", "drop"}]
    BY <1>1 DEF Inv, LinksCounted, TypeOK
  <2>2. ip' \in [Procs -> Slots \cup Inums \cup {0}] /\ goal' \in [Procs -> {"use", "link", "undo", "unlink", "create"}]
    BY <1>1 DEF Inv, LinksCounted, TypeOK
  <2>3. AnyName \in Names
    BY InodeAssumption DEF AnyName
  <2>4. name' \in [Procs -> Names] /\ dlock' \in Procs \cup {Nobody}
    BY <1>1, <2>3 DEF Inv, LinksCounted, TypeOK
  <2>5. ref' \in [Slots -> Nat]
    <3>1. ref \in [Slots -> Nat]
      BY DEF Inv, LinksCounted, TypeOK
    <3>2. ref[s] - 1 \in Nat
      BY <1>2, <3>1, SMTT(30), SMTT(60)
    <3> QED BY <1>3, <3>1, <3>2
  <2> QED BY <2>1, <2>2, <2>4, <2>5 DEF Inv, LinksCounted, TypeOK
<1>5. /\ pc'[p] = "idle" /\ goal'[p] = "use" /\ ref'[s] = ref[s] - 1
      /\ \A q \in Procs : q # p => pc'[q] = pc[q] /\ ip'[q] = ip[q] /\ goal'[q] = goal[q] /\ name'[q] = name[q]
      /\ \A t \in Slots : ref[t] \in Nat /\ (t # s => ref'[t] = ref[t])
  BY <1>1, <1>3 DEF Inv, LinksCounted, TypeOK
<1>6. Holding' = Holding \ {p} /\ Holding \subseteq Procs
  BY <1>5 DEF Holding
<1>7. \A j : Holders(j)' = Holders(j) \ {p} /\ Holders(j) \subseteq Procs
  BY <1>5, <1>6 DEF Holders
<1>8. RefInv'
  <2>1. \A q \in Holding' : ip'[q] \in Slots
    BY <1>5, <1>6 DEF Inv, RefInv
  <2>2. \A t \in Slots : t # s => RefSet(t)' = RefSet(t)
    BY <1>2, <1>5, <1>6 DEF RefSet
  <2>3. RefSet(s)' = RefSet(s) \ {p} /\ p \in RefSet(s)
    BY <1>1, <1>2, <1>5, <1>6 DEF RefSet
  <2>4. Cardinality(RefSet(s)') = Cardinality(RefSet(s)) - 1
    BY <2>3, Finite, FS_RemoveElement
  <2>5. \A t \in Slots : ref'[t] = Cardinality(RefSet(t)')
    BY <1>5, <2>2, <2>4 DEF Inv, RefInv
  <2>6. \A q \in Procs : pc'[q] = "iget" => ip'[q] \in Inums
    BY <1>5 DEF Inv, RefInv
  <2> QED BY <2>1, <2>5, <2>6 DEF RefInv
<1>9. \A t \in Slots : ref'[t] > 0 => ref[t] > 0
  BY <1>2, <1>5
<1>10. EntryInv'
  BY <1>9 DEF Inv, EntryInv
<1>11. LockInv'
  <2>1. pc[p] \notin Locking /\ pc'[p] \notin Locking
    BY <1>5 DEF Locking
  <2>2. \A q \in Procs : pc'[q] \in Locking => lock'[ip'[q]] = q
    BY <1>5, <2>1 DEF Inv, LockInv
  <2>3. \A t \in Slots : lock'[t] # Nobody => lock[t] \in Procs /\ ip[lock[t]] = t /\ pc[lock[t]] \in Locking
    BY SMTT(30), SMTT(60) DEF Inv, LockInv, LinksCounted, TypeOK
  <2>4. \A t \in Slots : lock'[t] # Nobody => ip'[lock'[t]] = t /\ pc'[lock'[t]] \in Locking
    BY <1>5, <2>1, <2>3
  <2> QED BY <2>2, <2>4 DEF LockInv
<1>12. ValidInv'
  <2>1. \A t \in Slots : BeingFreed(t) => BeingFreed(t)'
    BY <1>5 DEF BeingFreed
  <2>2. \A q \in Procs : pc'[q] \in {"locked", "unlinked", "itrunc"} => q # p /\ pc'[q] = pc[q] /\ ip'[q] = ip[q]
    BY <1>5
  <2>3. \A q \in Procs : pc[q] = "itrunc" => ip[q] # s /\ ip[q] \in Slots
    <3> SUFFICES ASSUME NEW q \in Procs, pc[q] = "itrunc" PROVE ip[q] # s /\ ip[q] \in Slots
      OBVIOUS
    <3>1. q \in Holding /\ q # p /\ ref[ip[q]] = 1
      BY DEF Holding, Inv, ValidInv
    <3> QED BY <1>1, <1>2, <3>1, HolderFacts
  <2>4. \A t \in Slots : ref'[t] > 0 /\ valid'[t] = 1 /\ ~BeingFreed(t)' =>
           nlink'[t] = dnlink'[inum'[t]] /\ type'[t] = 1 /\ dtype'[inum'[t]] = 1
    BY <1>9, <2>1 DEF Inv, ValidInv
  <2>5. \A q \in Procs : pc'[q] \in {"locked", "unlinked", "itrunc"} => valid'[ip'[q]] = 1
    BY <2>2 DEF Inv, ValidInv
  <2>6. \A q \in Procs : pc'[q] = "itrunc" => ref'[ip'[q]] = 1 /\ nlink'[ip'[q]] = 0
    <3> SUFFICES ASSUME NEW q \in Procs, pc'[q] = "itrunc" PROVE ref'[ip'[q]] = 1 /\ nlink'[ip'[q]] = 0
      OBVIOUS
    <3>1. pc[q] = "itrunc" /\ ip'[q] = ip[q] /\ ip[q] # s /\ ip[q] \in Slots
      BY <2>2, <2>3
    <3>2. ref[ip[q]] = 1 /\ nlink[ip[q]] = 0
      BY <3>1 DEF Inv, ValidInv
    <3> QED BY <1>1, <1>5, <3>1, <3>2
  <2> QED BY <2>4, <2>5, <2>6 DEF ValidInv
<1>13. DirInv'
  <2>1. \A q \in Procs : pc'[q] \in {"ialloc", "iget"} \cup ToLock =>
          q # p /\ pc'[q] = pc[q] /\ ip'[q] = ip[q] /\ goal'[q] = goal[q] /\ name'[q] = name[q]
    BY <1>5 DEF ToLock
  <2>2. \A q \in Procs : q # p /\ dlock = q => dlock' = q
    BY <1>1
  <2>3. \A q \in Procs :
          pc'[q] \in {"ialloc", "iget"} \/ (goal'[q] \in {"unlink", "create"} /\ pc'[q] \in ToLock) => dlock' = q
    BY <2>1, <2>2 DEF Inv, DirInv
  <2>4. \A q \in Procs : pc'[q] \in {"ialloc", "iget"} => goal'[q] = "create"
    BY <2>1 DEF Inv, DirInv
  <2>5. dir' = dir /\ inum' = inum
    BY <1>1
  <2>6. ASSUME NEW q \in Procs, goal'[q] = "unlink", pc'[q] \in ToLock
        PROVE  dir'[name'[q]] = inum'[ip'[q]]
    <3>1. pc'[q] = pc[q] /\ ip'[q] = ip[q] /\ goal'[q] = goal[q] /\ name'[q] = name[q]
      BY <2>1, <2>6
    <3>2. dir[name[q]] = inum[ip[q]]
      BY <2>6, <3>1 DEF Inv, DirInv
    <3> QED BY <2>5, <3>1, <3>2
  <2>7. ASSUME NEW q \in Procs, goal'[q] = "create", pc'[q] \in {"ialloc", "iget"} \cup ToLock
        PROVE  dir'[name'[q]] = 0
    <3>1. pc'[q] = pc[q] /\ goal'[q] = goal[q] /\ name'[q] = name[q]
      BY <2>1, <2>7
    <3>2. dir[name[q]] = 0
      BY <2>7, <3>1 DEF Inv, DirInv
    <3> QED BY <2>5, <3>1, <3>2
  <2> QED BY <2>3, <2>4, <2>6, <2>7 DEF DirInv
<1>14. FreshInv'
  <2>1. \A q \in Procs : pc'[q] \in {"iget"} \cup ToLock =>
          q # p /\ pc'[q] = pc[q] /\ ip'[q] = ip[q] /\ goal'[q] = goal[q]
    BY <1>5 DEF ToLock
  <2>2. \A j : \A q \in Holders(j)' : q \in Holders(j) /\ pc'[q] = pc[q]
    BY <1>5, <1>7
  <2>3. ASSUME NEW q \in Procs, pc'[q] = "iget"
        PROVE  dtype'[ip'[q]] = 1 /\ dnlink'[ip'[q]] = 0 /\ \A r \in Holders(ip[q])' : pc'[r] \in Leaving
    <3>1. pc[q] = "iget" /\ ip'[q] = ip[q]
      BY <2>1, <2>3
    <3>2. dtype[ip[q]] = 1 /\ dnlink[ip[q]] = 0 /\ \A r \in Holders(ip[q]) : pc[r] \in Leaving
      BY <3>1 DEF Inv, FreshInv
    <3>3. Holders(ip[q])' = Holders(ip[q]) \ {p}
      BY <1>7, <3>1
    <3> QED BY <2>2, <3>1, <3>2, <3>3
  <2>4. ASSUME NEW q \in Procs, goal'[q] = "create", pc'[q] \in ToLock
        PROVE  dnlink'[inum'[ip'[q]]] = 0 /\ \A r \in Holders(inum[ip[q]])' : r = q \/ pc'[r] \in Leaving
    <3>1. pc[q] \in ToLock /\ goal[q] = "create" /\ ip'[q] = ip[q]
      BY <2>1, <2>4
    <3>2. dnlink[inum[ip[q]]] = 0 /\ \A r \in Holders(inum[ip[q]]) : r = q \/ pc[r] \in Leaving
      BY <3>1 DEF Inv, FreshInv
    <3>3. Holders(inum[ip[q]])' = Holders(inum[ip[q]]) \ {p}
      BY <1>7, <3>1
    <3> QED BY <2>2, <3>1, <3>2, <3>3
  <2> QED BY <2>3, <2>4 DEF FreshInv
<1>15. InUseIsAllocated'
  BY <1>5, <1>6 DEF Inv, InUseIsAllocated
<1>16. \A j : Pending(j)' = Pending(j) /\ NamesOf(j)' = NamesOf(j)
  <2>1. \A j : NamesOf(j)' = NamesOf(j)
    BY DEF NamesOf
  <2> QED BY <1>5, <1>7, <2>1 DEF Pending, ToLock
<1>17. \A j \in Inums : dtype'[j] = 1 => dnlink'[j] = Cardinality(NamesOf(j)') + Cardinality(Pending(j)')
  BY <1>16, LinksAre DEF Inv
<1>18. LinksCounted'
  BY <1>4, <1>17 DEF LinksCounted, NamesOf, Pending, ToLock
<1> QED BY <1>8, <1>10, <1>11, <1>12, <1>13, <1>14, <1>15, <1>18 DEF Inv

\* iput() frees the inode with its last reference, or only drops this one.
LEMMA IputInv ==
  ASSUME Inv, NEW p \in Procs, iput(p) \/ iput_drop(p)
  PROVE  Inv'
<1>1. CASE iput_drop(p)
  BY <1>1, DroppedInv DEF iput_drop
<1>2. CASE iput(p) /\ LastOf(ip[p])
  BY <1>2, IputLocksInv DEF iput
<1>3. CASE iput(p) /\ ~LastOf(ip[p])
  BY <1>3, DroppedInv DEF iput
<1> QED BY <1>1, <1>2, <1>3

\* Every step keeps the invariant.
LEMMA NextInv == Inv /\ [Next]_vars => Inv'
<1> SUFFICES ASSUME Inv, [Next]_vars PROVE Inv'
  OBVIOUS
<1>1. CASE UNCHANGED vars
  <2> USE <1>1 DEF vars, diskVars, slotVars, locals
  <2>1. Holding' = Holding /\ (\A i : Holders(i)' = Holders(i)) /\ (\A s : RefSet(s)' = RefSet(s))
        /\ \A s \in Slots : BeingFreed(s)' <=> BeingFreed(s)
    BY DEF Holding, Holders, RefSet, BeingFreed
  <2>2. LinksCounted'
    BY <2>1, SMTT(30), SMTT(60) DEF Inv, LinksCounted, TypeOK
  <2>3. InUseIsAllocated' /\ RefInv' /\ EntryInv' /\ LockInv'
    BY <2>1 DEF Inv, InUseIsAllocated, RefInv, EntryInv, LockInv
  <2>4. ValidInv' /\ DirInv' /\ FreshInv'
    BY <2>1 DEF Inv, ValidInv, DirInv, FreshInv
  <2> QED BY <2>2, <2>3, <2>4 DEF Inv
<1>2. ASSUME NEW p \in Procs, NEW n \in Names, namei(p, n) \/ sys_unlink(p, n) \/ create(p, n)
      PROVE  Inv'
  BY <1>2, NameiInv, SysUnlinkInv, CreateInv
<1>3. ASSUME NEW p \in Procs, use(p) \/ ialloc(p) \/ ialloc_get(p) \/ ilock(p) \/ ilock_read(p) \/ read(p)
      PROVE  Inv'
  BY <1>3, UseInv, IallocInv, IallocGetInv, IlockInv, IlockReadInv, ReadInv
<1>4. ASSUME NEW p \in Procs,
             sys_link(p) \/ link_dirlink(p) \/ link_bad(p) \/ unlink_entry(p) \/ unlink_nlink(p) \/ create_link(p)
      PROVE  Inv'
  BY <1>4, SysLinkInv, LinkDirlinkInv, LinkBadInv, UnlinkEntryInv, UnlinkNlinkInv, CreateLinkInv
<1>5. ASSUME NEW p \in Procs, iput(p) \/ iput_free(p) \/ iput_unlock(p) \/ iput_drop(p)
      PROVE  Inv'
  BY <1>5, IputInv, IputFreeInv, IputUnlockInv
<1> QED BY <1>1, <1>2, <1>3, <1>4, <1>5 DEF Next

\* The inductive invariant of the inode table.
THEOREM InodeInvariant == Spec => []Inv
<1> QED BY InitInv, NextInv, PTL DEF Spec
------------------------------------------------------------------------------
\* One entry for an inode, whose ref is right, and whose fields are those of the
\* inode on disk whenever the entry is valid.
THEOREM OneCurrentEntry == Spec => []EntriesCurrent
<1>1. Inv => EntriesCurrent
  <2> SUFFICES ASSUME Inv PROVE EntriesCurrent
    OBVIOUS
  <2>1. \A s, t \in Slots : ref[s] > 0 /\ ref[t] > 0 /\ s # t => inum[s] # inum[t]
    BY DEF Inv, EntryInv
  <2>2. \A s \in Slots : ref[s] = Cardinality({p \in Holding : ip[p] = s})
    BY DEF Inv, RefInv, RefSet
  <2>3. \A s \in Slots : (\A p \in Procs : lock[s] = p => pc[p] # "freed") => ~BeingFreed(s)
    BY DEF BeingFreed
  <2> QED BY <2>1, <2>2, <2>3 DEF EntriesCurrent, Inv, ValidInv
<1> QED BY <1>1, InodeInvariant, PTL

\* nlink is the number of names, and of links being made or taken away.
THEOREM NlinkCounts == Spec => []LinksCounted
<1> QED BY InodeInvariant, PTL DEF Inv

\* No inode is freed that has a name or that a process works on.
THEOREM NoFreeInUse == Spec => []InUseIsAllocated
<1> QED BY InodeInvariant, PTL DEF Inv

\* The acquiresleep() that iput() makes while it holds itable.lock never waits.
THEOREM IputNeverBlocks == Spec => []IputWontBlock
<1>1. Inv => IputWontBlock
  <2> SUFFICES ASSUME Inv, NEW p \in Procs, pc[p] = "iput", LastOf(ip[p]) PROVE lock[ip[p]] = Nobody
    BY DEF IputWontBlock
  <2>1. p \in Holding /\ ref[ip[p]] = 1
    BY DEF Holding, LastOf
  <2>2. PICK s \in Slots : s = ip[p]
    BY <2>1, HolderFacts
  <2>3. lock[s] # Nobody => lock[s] \in Procs /\ ip[lock[s]] = s /\ pc[lock[s]] \in Locking
    BY SMTT(30), SMTT(60) DEF Inv, LockInv, LinksCounted, TypeOK
  <2>4. lock[s] # Nobody => lock[s] \in Holding /\ lock[s] # p
    BY <2>3 DEF Locking, Holding
  <2> QED BY <2>1, <2>2, <2>3, <2>4, HolderFacts
<1> QED BY <1>1, InodeInvariant, PTL
==============================================================================
