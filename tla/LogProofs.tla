------------------------------ MODULE LogProofs ------------------------------
(***************************************************************************)
(* Proofs about Log, for any threads, blocks, contents and sizes: LogInv   *)
(* is an inductive invariant, and from it the properties that Log's runs   *)
(* check on a small instance.                                              *)
(***************************************************************************)
EXTENDS Log, FiniteSetTheorems, TLAPS

\* The counting of log.outstanding: begin_op() adds one call, end_op() takes
\* one away, every other step of a call keeps it.
LEMMA ActiveFinite == IsFiniteSet(Active)
  BY LogAssumption, FS_Subset DEF Active

LEMMA InitInv == Init => LogInv
<1> SUFFICES ASSUME Init PROVE LogInv
  OBVIOUS
<1> USE LogAssumption DEF Init
<1>1. TypeOK
  BY DEF TypeOK, Slots, Stages, InOp
<1>2. HeadersFit
  BY DEF HeadersFit, NoDup
<1>3. CallsCounted
  <2>1. Active = {}
    BY DEF Active, InOp
  <2> QED
    BY <2>1, FS_EmptySet DEF CallsCounted
<1>4. Progress
  BY DEF Progress
<1>5. DirtyIsPinned /\ PinsBalance
  BY DEF DirtyIsPinned, PinsBalance
<1> QED
  BY <1>1, <1>2, <1>3, <1>4, <1>5 DEF LogInv

\* A call that begins is counted once.
LEMMA CountUp ==
  ASSUME NEW p \in Procs, p \notin Active, outstanding = Cardinality(Active),
         Active' = Active \cup {p}
  PROVE  outstanding + 1 = Cardinality(Active')
  BY ActiveFinite, FS_AddElement, Zenon

\* A call that ends is no longer counted, and it was counted before.
LEMMA CountDown ==
  ASSUME NEW p \in Procs, p \in Active, outstanding = Cardinality(Active),
         Active' = Active \ {p}
  PROVE  /\ outstanding - 1 = Cardinality(Active')
         /\ outstanding \in Nat \ {0}
<1>1. Cardinality(Active) \in Nat
  BY ActiveFinite, FS_CardinalityType
<1>2. Cardinality(Active') = Cardinality(Active) - 1
  BY ActiveFinite, FS_RemoveElement
<1>3. Cardinality(Active) # 0
  BY ActiveFinite, FS_EmptySet
<1> QED
  BY <1>1, <1>2, <1>3

\* begin_op() keeps LogInv.
LEMMA BeginInv == ASSUME LogInv, NEW p \in Procs, begin_op(p) PROVE LogInv'
<1>a. outstanding \in Nat /\ (outstanding' = outstanding \/ outstanding' = outstanding + 1)
  BY Zenon DEF LogInv, TypeOK, begin_op
<1>b. outstanding' \in Nat /\ (outstanding' = 0 => outstanding = 0)
  BY <1>a
<1> USE LogAssumption DEF LogInv, begin_op, diskVars, commitVars
<1>1. TypeOK'
  <2>1. CASE committing = 1 \/ LogFull
    BY <2>1, Zenon DEF TypeOK, InOp
  <2>2. CASE ~(committing = 1 \/ LogFull)
    <3>2. wrote' \in [Procs -> SUBSET Blocks]
      BY <2>2, Zenon DEF TypeOK
    <3>3. pc' \in [Procs -> {"idle", "begin", "sleeping", "commit"} \cup InOp]
      BY <2>2, ZenonT(30) DEF TypeOK, InOp
    <3> QED
      BY <1>b, <3>2, <3>3, Zenon DEF TypeOK
  <2> QED
    BY <2>1, <2>2
<1>2. HeadersFit'
  BY DEF HeadersFit, NoDup, Slots
<1>3. CallsCounted'
  <2>1. CASE committing = 1 \/ LogFull
    <3>1. Active' = Active
      BY <2>1, Zenon DEF Active, InOp, TypeOK
    <3> QED
      BY <2>1, <3>1, ZenonT(30) DEF CallsCounted, Up, TypeOK
  <2>2. CASE ~(committing = 1 \/ LogFull)
    <3>1. p \notin Active /\ Active' = Active \cup {p}
      BY <2>2, ZenonT(30) DEF Active, InOp, TypeOK
    <3>2. outstanding + 1 = Cardinality(Active')
      BY <3>1, CountUp DEF CallsCounted
    <3> QED
      BY <2>2, <3>2, Zenon DEF CallsCounted, Up, TypeOK
  <2> QED
    BY <2>1, <2>2
<1>4. Progress'
  <2>1. Content' = Content
    BY DEF Content
  <2> QED
    BY <2>1, <1>b DEF Progress
<1>5. DirtyIsPinned' /\ PinsBalance'
  BY DEF DirtyIsPinned, PinsBalance, Running, Logged, Up
<1> QED
  BY <1>1, <1>2, <1>3, <1>4, <1>5 DEF LogInv

\* bread() keeps LogInv: what it brings into the cache is the home block.
LEMMA BreadInv == ASSUME LogInv, NEW p \in Procs, NEW b \in Blocks, bread(p, b) PROVE LogInv'
<1> USE LogAssumption DEF LogInv, bread, diskVars, commitVars, logVars
<1>1. TypeOK'
  BY Zenon DEF TypeOK, InOp
<1>2. HeadersFit'
  BY DEF HeadersFit, NoDup, Slots
<1>3. CallsCounted'
  <2>1. Active' = Active
    BY Zenon DEF Active, InOp, TypeOK
  <2> QED
    BY <2>1, Zenon DEF CallsCounted, Up, TypeOK
<1>4. Progress'
  <2>1. Content' = Content
    BY Zenon DEF Content, TypeOK
  <2> QED
    BY <2>1 DEF Progress
<1>5. DirtyIsPinned' /\ PinsBalance'
  BY DEF DirtyIsPinned, PinsBalance, Running, Logged, Up, TypeOK
<1> QED
  BY <1>1, <1>2, <1>3, <1>4, <1>5 DEF LogInv

\* brelse() keeps LogInv.
LEMMA BrelseInv == ASSUME LogInv, NEW p \in Procs, brelse(p) PROVE LogInv'
<1> USE LogAssumption DEF LogInv, brelse, diskVars, commitVars, logVars
<1>1. TypeOK'
  BY Zenon DEF TypeOK, InOp
<1>2. HeadersFit'
  BY DEF HeadersFit, NoDup, Slots
<1>3. CallsCounted'
  <2>1. Active' = Active
    BY Zenon DEF Active, InOp, TypeOK
  <2> QED
    BY <2>1, Zenon DEF CallsCounted, Up, TypeOK
<1>4. Progress'
  <2>1. Content' = Content
    BY Zenon DEF Content, TypeOK
  <2> QED
    BY <2>1 DEF Progress
<1>5. DirtyIsPinned' /\ PinsBalance'
  BY DEF DirtyIsPinned, PinsBalance, Running, Logged, Up, TypeOK
<1> QED
  BY <1>1, <1>2, <1>3, <1>4, <1>5, Zenon DEF LogInv

\* Recycling keeps LogInv: an unpinned buffer holds what the disk holds.
LEMMA RecycleInv == ASSUME LogInv, NEW b \in Blocks, Recycle(b) PROVE LogInv'
<1> USE LogAssumption DEF LogInv, Recycle, diskVars, commitVars, logVars, threadVars
<1>0. cache[b] = disk[b]
  BY DEF DirtyIsPinned, TypeOK, Running
<1>1. TypeOK'
  BY Zenon DEF TypeOK, InOp
<1>2. HeadersFit'
  BY DEF HeadersFit, NoDup, Slots
<1>3. CallsCounted'
  BY Zenon DEF CallsCounted, Up, TypeOK, Active
<1>4. Progress'
  <2>1. Content' = Content
    BY <1>0, Zenon DEF Content, TypeOK
  <2> QED
    BY <2>1 DEF Progress
<1>5. DirtyIsPinned' /\ PinsBalance'
  BY DEF DirtyIsPinned, PinsBalance, Running, Logged, Up, TypeOK
<1> QED
  BY <1>1, <1>2, <1>3, <1>4, <1>5 DEF LogInv

\* While a call is active no commit or recovery is under way.
LEMMA ActiveMeansQuiet ==
  ASSUME LogInv, NEW p \in Procs, pc[p] \in InOp
  PROVE  stage = "none" /\ committing = 0 /\ outstanding >= 1
<1>1. p \in Active
  BY DEF Active
<1>2. outstanding >= 1
  <2>1. Cardinality(Active) # 0
    BY <1>1, ActiveFinite, FS_EmptySet
  <2>2. outstanding \in Nat /\ outstanding = Cardinality(Active)
    BY Zenon DEF LogInv, CallsCounted, TypeOK
  <2> QED
    BY <2>1, <2>2
<1>3. /\ committing \in {0, 1} /\ (~Up \/ committing = 1 => outstanding = 0)
      /\ (committing = 1 <=> stage \in {"write_log", "write_head", "install", "erase", "done"})
      /\ stage \in Stages
  BY Zenon DEF LogInv, CallsCounted, TypeOK
<1>4. Up /\ committing = 0
  BY <1>2, <1>3
<1> QED
  BY <1>2, <1>3, <1>4 DEF Up, Stages

\* log_write() keeps LogInv: the block it makes dirty is in the log and pinned.
LEMMA LogWriteInv == ASSUME LogInv, NEW p \in Procs, NEW v \in Vals, log_write(p, v) PROVE LogInv'
<1> DEFINE b == buf[p]
<1>1. stage = "none" /\ outstanding >= 1 /\ pc[p] = "hold" /\ Running
  BY ActiveMeansQuiet, Zenon DEF log_write, InOp
<1>2. b \in Blocks
  BY <1>1 DEF LogInv, CallsCounted
<1>3. Active' = Active
  BY <1>1, Zenon DEF Active, log_write, InOp, LogInv, TypeOK
<1>4. CallsCounted'
  BY <1>1, <1>3, Zenon DEF CallsCounted, LogInv, TypeOK, log_write, commitVars, Up
<1>5. CASE TooBig
  <2> USE <1>1, <1>2, <1>5, LogAssumption DEF LogInv, log_write, diskVars, commitVars
  <2>1. TypeOK'
    BY Zenon DEF TypeOK
  <2>2. HeadersFit'
    BY Zenon DEF HeadersFit, NoDup, Slots
  <2>3. Progress'
    BY Zenon DEF Progress, TypeOK
  <2>4. DirtyIsPinned' /\ PinsBalance'
    BY Zenon DEF DirtyIsPinned, PinsBalance, Running, Up
  <2> QED
    BY <2>1, <2>2, <2>3, <2>4, <1>4, Zenon
<1>6. CASE ~TooBig
  <2>1. /\ lh' = Absorb(b) /\ pin' = PinLogged(b) /\ cache' = [cache EXCEPT ![b] = v]
        /\ pc' = [pc EXCEPT ![p] = "logged"]
        /\ wrote' = [wrote EXCEPT ![p] = @ \cup {b}]
        /\ UNCHANGED <<disk, dlog, dhead, outstanding, committing, buf, stage, tail, panicked, crashes>>
    <3>1. ~(TooBig \/ outstanding < 1)
      <4>1. outstanding \in Nat
        BY Zenon DEF LogInv, TypeOK
      <4> QED
        BY <4>1, <1>1, <1>6
    <3> QED
      BY <3>1 DEF log_write, diskVars, commitVars
  <2>h. lh \in Seq(Blocks) /\ pin \in [Blocks -> Nat]
    BY Zenon DEF LogInv, TypeOK
  <2>2. Len(lh) \in Nat /\ DOMAIN lh = 1 .. Len(lh) /\ Len(lh) < LogBlocks - 1 /\ LogBlocks \in Nat
    <3>1. ~(Len(lh) >= LogBlocks - 1)
      BY <1>6 DEF TooBig
    <3> QED
      BY <2>h, <3>1, LogAssumption
  <2>3. lh' \in Seq(Blocks)
    BY <1>2, <2>1, <2>h DEF Absorb
  <2>4. TypeOK'
    <3>1. pin' \in [Blocks -> Nat]
      BY <2>1, <2>h, <1>2 DEF PinLogged
    <3> QED
      BY <2>1, <2>3, <1>2, <3>1, Zenon DEF LogInv, TypeOK, InOp
  <2>5. CASE b \in Logged
    <3>1. lh' = lh /\ pin' = pin
      BY <2>1, <2>5, <1>2, Zenon DEF Absorb, PinLogged, LogInv, TypeOK
    <3>2. HeadersFit'
      BY <3>1, <2>1, Zenon DEF HeadersFit, NoDup, Slots, LogInv
    <3>3. Progress'
      BY <1>1, <3>1, <2>1, Zenon DEF LogInv, Progress
    <3>4. PinsBalance'
      BY <1>1, <3>1, <2>1 DEF LogInv, PinsBalance, Up
    <3>5. DirtyIsPinned'
      <4>1. pin[b] > 0
        <5>1. Up /\ \E i \in DOMAIN lh : lh[i] = b /\ (stage = "install" => i >= tail)
          BY <1>1, <2>5 DEF Up, Logged
        <5>2. pin[b] = 1
          BY <5>1, <1>2 DEF LogInv, PinsBalance
        <5> QED
          BY <5>2
      <4>2. Logged' = Logged
        BY <3>1 DEF Logged
      <4>3. \A c \in Blocks : cache[c] \notin {NotCached, disk[c]} => c \in Logged /\ pin[c] > 0
        BY Zenon DEF LogInv, DirtyIsPinned, log_write
      <4>4. cache \in [Blocks -> Vals \cup {NotCached}]
        BY Zenon DEF LogInv, TypeOK
      <4>5. ASSUME NEW c \in Blocks, cache'[c] \notin {NotCached, disk[c]}
            PROVE  c \in Logged /\ pin[c] > 0
        <5>1. CASE c = b
          BY <5>1, <4>1, <2>5
        <5>2. CASE c # b
          BY <5>2, <4>3, <4>4, <4>5, <2>1, Zenon
        <5> QED
          BY <5>1, <5>2
      <4> QED
        BY <4>2, <4>5, <3>1, <2>1, Zenon DEF DirtyIsPinned
    <3> QED
      BY <3>2, <3>3, <3>4, <3>5, <2>4, <1>4 DEF LogInv
  <2>6. CASE b \notin Logged
    <3>1. /\ lh' = Append(lh, b)
          /\ pin' = [pin EXCEPT ![b] = @ + 1]
      BY <2>1, <2>6, <1>2, Zenon DEF Absorb, PinLogged, LogInv, TypeOK
    <3>2. /\ DOMAIN lh' = 1 .. Len(lh) + 1
          /\ \A i \in DOMAIN lh : lh'[i] = lh[i]
          /\ lh'[Len(lh) + 1] = b
      BY <3>1, <2>2, <2>h, <1>2
    <3>3. HeadersFit'
      <4>1. NoDup(lh)'
        BY <3>2, <2>2, <2>6 DEF HeadersFit, NoDup, Logged, LogInv
      <4>2. DOMAIN lh' \subseteq Slots
        BY <3>2, <2>2 DEF Slots
      <4> QED
        BY <4>1, <4>2, <2>1 DEF HeadersFit, LogInv, NoDup, Slots
    <3>4. Progress'
      BY <1>1, <2>1 DEF LogInv, Progress
    <3>5. pin[b] = 0
      BY <1>1, <1>2, <2>6, Zenon DEF LogInv, PinsBalance, Logged
    <3>6. PinsBalance'
      <4> SUFFICES ASSUME NEW c \in Blocks
                   PROVE  pin'[c] = IF \E i \in DOMAIN lh' : lh'[i] = c THEN 1 ELSE 0
        BY <1>1, <2>1 DEF PinsBalance, Up
      <4>1. (\E i \in DOMAIN lh' : lh'[i] = c) <=> c = b \/ \E i \in DOMAIN lh : lh[i] = c
        BY <3>2, <2>2
      <4>2. pin[c] = IF \E i \in DOMAIN lh : lh[i] = c THEN 1 ELSE 0
        BY <1>1 DEF LogInv, PinsBalance, Up
      <4> QED
        BY <4>1, <4>2, <3>1, <3>5, <1>2, <2>h, SMTT(30), SMTT(60)
    <3>7. DirtyIsPinned'
      <4> SUFFICES ASSUME NEW c \in Blocks, cache'[c] \notin {NotCached, disk[c]}
                   PROVE  c \in Logged' /\ pin'[c] > 0
        BY <2>1, SMTT(30), SMTT(60) DEF DirtyIsPinned
      <4>1. \E i \in DOMAIN lh' : lh'[i] = c
        <5>1. CASE c = b
          BY <5>1, <3>2, <2>2
        <5>2. CASE c # b
          <6>1. c \in Logged
            BY <5>2, <1>1, <1>2, <2>1, Zenon DEF LogInv, DirtyIsPinned, TypeOK
          <6> QED
            BY <6>1, <3>2, <2>2 DEF Logged
        <5> QED
          BY <5>1, <5>2
      <4>2. pin'[c] = 1
        BY <4>1, <3>6, <1>1, <2>1, Zenon DEF PinsBalance, Up
      <4> QED
        BY <4>1, <4>2, SMTT(30), SMTT(60) DEF Logged
    <3> QED
      BY <3>3, <3>4, <3>6, <3>7, <2>4, <1>4, SMTT(30), SMTT(60) DEF LogInv
  <2> QED
    BY <2>5, <2>6
<1> QED
  BY <1>5, <1>6

\* end_op() keeps LogInv: a commit starts only when no call is left.
LEMMA EndOpInv == ASSUME LogInv, NEW p \in Procs, end_op(p) PROVE LogInv'
<1>1. stage = "none" /\ committing = 0 /\ outstanding >= 1 /\ pc[p] = "op"
  BY ActiveMeansQuiet DEF end_op, InOp
<1>2. /\ UNCHANGED <<disk, dlog, dhead, cache, pin, lh, buf, wrote, panicked, crashes>>
      /\ outstanding' = outstanding - 1
  BY <1>1 DEF end_op, diskVars
<1>3. Active' = Active \ {p}
  <2>1. pc \in [Procs -> {"idle", "begin", "sleeping", "commit"} \cup InOp]
    BY Zenon DEF LogInv, TypeOK
  <2>2. \/ pc' = [pc EXCEPT ![p] = "commit"]
        \/ pc' = wakeup([pc EXCEPT ![p] = "idle"])
    BY <1>1 DEF end_op
  <2> QED
    BY <2>1, <2>2 DEF Active, wakeup, InOp
<1>4. outstanding' = Cardinality(Active') /\ outstanding' \in Nat
  <2>1. p \in Active
    BY <1>1 DEF Active, InOp
  <2> QED
    BY <2>1, <1>1, <1>2, <1>3, CountDown DEF LogInv, CallsCounted
<1>5. Content' = Content
  BY <1>2 DEF Content
<1>6. HeadersFit'
  BY <1>2 DEF LogInv, HeadersFit, NoDup, Slots
<1>7. CASE outstanding = 1
  <2>1. /\ committing' = 1 /\ tail' = 1 /\ outstanding' = 0
        /\ pc' = [pc EXCEPT ![p] = "commit"]
        /\ stage' = IF lh = <<>> THEN "done" ELSE "write_log"
    BY <1>1, <1>2, <1>7 DEF end_op
  <2>2. TypeOK'
    <3>1. stage' \in Stages
      BY <2>1 DEF Stages
    <3>2. pc' \in [Procs -> {"idle", "begin", "sleeping", "commit"} \cup InOp]
      BY <2>1, Zenon DEF LogInv, TypeOK
    <3>3. tail' \in Nat \ {0} /\ committing' \in {0, 1}
      BY <2>1
    <3> QED
      BY <3>1, <3>2, <3>3, <1>2, <1>4, Zenon DEF LogInv, TypeOK
  <2>3. CallsCounted'
    BY <2>1, <1>2, <1>4, Zenon DEF LogInv, CallsCounted, TypeOK
  <2>4. Progress'
    <3>1. dhead' = <<>> /\ (lh # <<>> => 1 \in DOMAIN lh)
      <4>1. lh \in Seq(Blocks)
        BY Zenon DEF LogInv, TypeOK
      <4>2. lh # <<>> => 1 \in DOMAIN lh
        BY <4>1
      <4> QED
        BY <4>2, <1>1, <1>2 DEF LogInv, Progress
    <3>2. \A i \in DOMAIN lh : ~(i < 1)
      <4>1. lh \in Seq(Blocks)
        BY Zenon DEF LogInv, TypeOK
      <4> QED
        BY <4>1
    <3> QED
      BY <2>1, <3>1, <3>2, <1>2, <1>5, Zenon DEF Progress
  <2>5. DirtyIsPinned' /\ PinsBalance'
    BY <2>1, <1>1, <1>2, Zenon DEF LogInv, DirtyIsPinned, PinsBalance, Running, Logged, Up
  <2> QED
    BY <2>2, <2>3, <2>4, <2>5, <1>6, Zenon DEF LogInv
<1>8. CASE outstanding # 1
  <2>1. /\ UNCHANGED <<committing, stage, tail>>
        /\ pc' = wakeup([pc EXCEPT ![p] = "idle"])
    BY <1>1, <1>8 DEF end_op
  <2>2. TypeOK'
    BY <2>1, <1>2, <1>4, Zenon DEF LogInv, TypeOK, wakeup
  <2>3. CallsCounted'
    BY <2>1, <1>1, <1>2, <1>4, Zenon DEF LogInv, CallsCounted, TypeOK, wakeup, Up
  <2>4. Progress'
    <3>0. outstanding \in Nat
      BY Zenon DEF LogInv, TypeOK
    <3>1. outstanding' # 0
      BY <3>0, <1>2, <1>8
    <3> QED
      BY <2>1, <1>1, <1>2, <3>1, Zenon DEF LogInv, Progress
  <2>5. DirtyIsPinned' /\ PinsBalance'
    BY <2>1, <1>1, <1>2, Zenon DEF LogInv, DirtyIsPinned, PinsBalance, Running, Logged, Up
  <2> QED
    BY <2>2, <2>3, <2>4, <2>5, <1>6 DEF LogInv
<1> QED
  BY <1>7, <1>8

\* write_log() keeps LogInv: one more log block holds what the cache holds.
LEMMA WriteLogInv == ASSUME LogInv, write_log PROVE LogInv'
<1>1. /\ stage = "write_log" /\ Running
      /\ dlog' = [dlog EXCEPT ![tail] = Content[lh[tail]]]
      /\ cache' = [cache EXCEPT ![lh[tail]] = Content[lh[tail]]]
      /\ UNCHANGED <<disk, dhead, pin, lh, outstanding, committing, pc, buf, wrote, panicked, crashes>>
      /\ \/ tail < Len(lh) /\ tail' = tail + 1 /\ stage' = "write_log"
         \/ ~(tail < Len(lh)) /\ tail' = 1 /\ stage' = "write_head"
  BY DEF write_log, Then, logVars, threadVars
<1>2. /\ lh \in Seq(Blocks) /\ tail \in DOMAIN lh /\ tail \in Nat \ {0} /\ DOMAIN lh \subseteq Slots
      /\ dlog \in [Slots -> Vals] /\ dhead = <<>> /\ disk \in [Blocks -> Vals]
      /\ cache \in [Blocks -> Vals \cup {NotCached}] /\ NotCached \notin Vals
  BY <1>1, LogAssumption, Zenon DEF LogInv, TypeOK, HeadersFit, Progress
<1>3. /\ DOMAIN lh = 1 .. Len(lh) /\ Len(lh) \in Nat /\ lh[tail] \in Blocks
      /\ \A i \in DOMAIN lh : lh[i] \in Blocks
  BY <1>2
<1>4. Content' = Content /\ Content[lh[tail]] \in Vals
  BY <1>1, <1>2, <1>3 DEF Content
<1>5. TypeOK'
  <2>1. tail' \in Nat \ {0}
    BY <1>1, <1>2
  <2>2. stage' \in Stages
    BY <1>1 DEF Stages
  <2>3. dlog' \in [Slots -> Vals]
    BY <1>1, <1>2, <1>4
  <2>4. cache' \in [Blocks -> Vals \cup {NotCached}]
    BY <1>1, <1>2, <1>4, Zenon
  <2> QED
    BY <1>1, <2>1, <2>2, <2>3, <2>4, Zenon DEF LogInv, TypeOK
<1>6. HeadersFit'
  BY <1>1 DEF LogInv, HeadersFit, NoDup, Slots
<1>7. CallsCounted'
  <2>1. Active' = Active
    BY <1>1 DEF Active
  <2>2. committing = 1 /\ outstanding = 0
    BY <1>1 DEF LogInv, CallsCounted
  <2> QED
    BY <1>1, <2>1, <2>2 DEF LogInv, CallsCounted
<1>8. Progress'
  <2>1. \A i \in DOMAIN lh : i < tail => dlog[i] = Content[lh[i]]
    BY <1>1, SMTT(30), SMTT(60) DEF LogInv, Progress
  <2>2. \A i \in DOMAIN lh : i <= tail => dlog'[i] = Content[lh[i]]
    BY <2>1, <1>1, <1>2, <1>3, SMTT(30), SMTT(60)
  <2>3. CASE tail < Len(lh) /\ tail' = tail + 1 /\ stage' = "write_log"
    <3>1. tail' \in DOMAIN lh /\ \A i \in DOMAIN lh : i < tail' => i <= tail
      BY <2>3, <1>2, <1>3
    <3> QED
      BY <2>2, <2>3, <3>1, <1>1, <1>2, <1>4 DEF Progress
  <2>4. CASE ~(tail < Len(lh)) /\ tail' = 1 /\ stage' = "write_head"
    <3>1. \A i \in DOMAIN lh : i <= tail
      BY <2>4, <1>2, <1>3, SMTT(30), SMTT(60)
    <3> QED
      BY <2>2, <2>4, <3>1, <1>1, <1>2, <1>4, Zenon DEF Progress
  <2> QED
    BY <2>3, <2>4, <1>1, SMTT(30), SMTT(60)
<1>9. PinsBalance'
  BY <1>1, SMTT(30), SMTT(60) DEF LogInv, PinsBalance, Up
<1>10. DirtyIsPinned'
  <2>1. \A b \in Blocks : cache'[b] \notin {NotCached, disk[b]} => cache[b] \notin {NotCached, disk[b]}
    BY <1>1, <1>2, <1>3, Zenon DEF Content
  <2> QED
    BY <2>1, <1>1 DEF LogInv, DirtyIsPinned, Logged, Running
<1> QED
  BY <1>5, <1>6, <1>7, <1>8, <1>9, <1>10, Zenon DEF LogInv

\* write_head() keeps LogInv: the log on the disk is complete when its header
\* is written.
LEMMA WriteHeadInv == ASSUME LogInv, write_head PROVE LogInv'
<1>1. /\ stage = "write_head" /\ stage' = "install" /\ dhead' = lh
      /\ UNCHANGED <<disk, dlog, cache, pin, lh, outstanding, committing, pc, buf, wrote,
                     tail, panicked, crashes>>
  BY DEF write_head, Then, logVars, threadVars
<1>2. tail = 1 /\ Content' = Content /\ lh \in Seq(Blocks)
  BY <1>1, Zenon DEF LogInv, Progress, Content, TypeOK
<1>3. \A i \in DOMAIN lh : ~(i < tail) /\ i >= tail
  BY <1>2
<1>4. TypeOK'
  <2>1. stage' \in Stages
    BY <1>1 DEF Stages
  <2> QED
    BY <1>1, <2>1, Zenon DEF LogInv, TypeOK
<1>5. HeadersFit'
  BY <1>1 DEF LogInv, HeadersFit, NoDup, Slots
<1>6. CallsCounted'
  <2>1. Active' = Active
    BY <1>1 DEF Active
  <2>2. committing = 1 /\ outstanding = 0
    BY <1>1, Zenon DEF LogInv, CallsCounted
  <2> QED
    BY <1>1, <2>1, <2>2 DEF LogInv, CallsCounted
<1>7. Progress'
  BY <1>1, <1>2, <1>3, Zenon DEF LogInv, Progress
<1>8. PinsBalance'
  BY <1>1, <1>3 DEF LogInv, PinsBalance, Up
<1>9. DirtyIsPinned'
  BY <1>1, Zenon DEF LogInv, DirtyIsPinned, Logged, Running
<1> QED
  BY <1>4, <1>5, <1>6, <1>7, <1>8, <1>9, SMTT(30), SMTT(60) DEF LogInv

\* install_trans() keeps LogInv, in commit() and in recovery: one more home
\* block holds what its log block holds.
LEMMA InstallInv == ASSUME LogInv, install_trans PROVE LogInv'
<1> DEFINE b == lh[tail]
<1>1. /\ stage \in {"install", "recover_install"} /\ tail <= Len(lh) /\ Running
      /\ disk' = [disk EXCEPT ![b] = dlog[tail]]
      /\ cache' = [cache EXCEPT ![b] = dlog[tail]]
      /\ pin' = Unpinned(b)
      /\ tail' = tail + 1
      /\ UNCHANGED <<dlog, dhead, lh, outstanding, committing, pc, buf, wrote, stage, panicked, crashes>>
  BY DEF install_trans, logVars, threadVars
<1>2. /\ lh \in Seq(Blocks) /\ tail \in Nat \ {0} /\ DOMAIN lh \subseteq Slots /\ NoDup(lh)
      /\ dlog \in [Slots -> Vals] /\ lh = dhead /\ disk \in [Blocks -> Vals]
      /\ cache \in [Blocks -> Vals \cup {NotCached}] /\ NotCached \notin Vals
      /\ pin \in [Blocks -> Nat]
  BY <1>1, LogAssumption, Zenon DEF LogInv, TypeOK, HeadersFit, Progress
<1>3. /\ DOMAIN lh = 1 .. Len(lh) /\ Len(lh) \in Nat /\ tail \in DOMAIN lh /\ b \in Blocks
      /\ \A i \in DOMAIN lh : lh[i] \in Blocks
      /\ \A i \in DOMAIN lh : i # tail => lh[i] # b
  BY <1>1, <1>2 DEF NoDup
<1>4. dlog[tail] \in Vals
  BY <1>2, <1>3
<1>5. \A c \in Blocks : pin'[c] = IF stage = "install" /\ c = b THEN 0 ELSE pin[c]
  <2>1. stage = "install" => pin[b] = 1
    <3>1. tail \in DOMAIN lh /\ lh[tail] = b /\ tail >= tail
      BY <1>2, <1>3
    <3> QED
      BY <3>1, <1>3 DEF LogInv, PinsBalance, Up
  <2> QED
    BY <2>1, <1>1, <1>2, <1>3 DEF Unpinned
<1>6. TypeOK'
  <2>1. tail' \in Nat \ {0}
    BY <1>1, <1>2
  <2>2. disk' \in [Blocks -> Vals] /\ cache' \in [Blocks -> Vals \cup {NotCached}]
    BY <1>1, <1>2, <1>4, Zenon
  <2>3. pin' \in [Blocks -> Nat]
    BY <1>1, <1>2, <1>3, <1>5 DEF Unpinned
  <2> QED
    BY <1>1, <2>1, <2>2, <2>3, Zenon DEF LogInv, TypeOK
<1>7. HeadersFit'
  BY <1>1 DEF LogInv, HeadersFit, NoDup, Slots
<1>8. CallsCounted'
  <2>1. Active' = Active
    BY <1>1 DEF Active
  <2> QED
    BY <1>1, <2>1 DEF LogInv, CallsCounted, Up
<1>9. Progress'
  <2>1. \A i \in DOMAIN lh : i < tail => disk[lh[i]] = dlog[i]
    BY <1>1 DEF LogInv, Progress
  <2>2. \A i \in DOMAIN lh : i < tail' => i < tail \/ i = tail
    BY <1>1, <1>2, <1>3
  <2>3. \A i \in DOMAIN lh : i < tail' => disk'[lh[i]] = dlog[i]
    BY <2>1, <2>2, <1>1, <1>2, <1>3
  <2>4. stage = "install" => \A i \in DOMAIN lh : dlog[i] = Content[lh[i]]
    BY DEF LogInv, Progress
  <2>5. stage = "install" => Content' = Content
    <3> SUFFICES ASSUME stage = "install" PROVE Content' = Content
      OBVIOUS
    <3>1. Content[b] = dlog[tail]
      BY <2>4, <1>3
    <3>2. ASSUME NEW c \in Blocks PROVE Content'[c] = Content[c]
      BY <3>1, <1>1, <1>2, <1>3, <1>4, Zenon DEF Content
    <3> QED
      BY <3>2 DEF Content
  <2> QED
    BY <2>3, <2>4, <2>5, <1>1, <1>2, ZenonT(60) DEF Progress
<1>10. PinsBalance'
  <2> SUFFICES ASSUME NEW c \in Blocks
               PROVE  pin'[c] = IF stage = "install" /\ \E i \in DOMAIN lh : lh[i] = c /\ i >= tail'
                                THEN 1 ELSE 0
    BY <1>1 DEF PinsBalance, Up
  <2>1. pin[c] = IF stage = "install" /\ \E i \in DOMAIN lh : lh[i] = c /\ i >= tail
                 THEN 1 ELSE 0
    BY <1>1 DEF LogInv, PinsBalance, Up
  <2>2. \A i \in DOMAIN lh : i >= tail <=> i = tail \/ i >= tail'
    BY <1>1, <1>2, <1>3
  <2>3. ~(tail >= tail')
    BY <1>1, <1>2, SMTT(30), SMTT(60)
  <2> QED
    BY <2>1, <2>2, <2>3, <1>3, <1>5, Zenon
<1>11. DirtyIsPinned'
  <2> SUFFICES ASSUME NEW c \in Blocks, cache'[c] \notin {NotCached, disk'[c]}
               PROVE  c \in Logged /\ pin'[c] > 0
    BY <1>1, Zenon DEF DirtyIsPinned, Logged
  <2>1. c # b /\ cache[c] \notin {NotCached, disk[c]}
    BY <1>1, <1>2, <1>3, Zenon
  <2> QED
    BY <2>1, <1>1, <1>5 DEF LogInv, DirtyIsPinned
<1> QED
  BY <1>6, <1>7, <1>8, <1>9, <1>10, <1>11 DEF LogInv

\* The end of install_trans() keeps LogInv: every home block is in place.
LEMMA InstalledInv == ASSUME LogInv, Installed PROVE LogInv'
<1>1. /\ stage \in {"install", "recover_install"} /\ tail > Len(lh) /\ Running
      /\ lh' = <<>> /\ tail' = 1
      /\ stage' = IF stage = "install" THEN "erase" ELSE "recover_erase"
      /\ UNCHANGED <<disk, dlog, dhead, cache, pin, outstanding, committing, pc, buf, wrote,
                     panicked, crashes>>
  BY DEF Installed, Then, diskVars, threadVars
<1>2. lh \in Seq(Blocks) /\ tail \in Nat /\ lh = dhead
  BY <1>1, Zenon DEF LogInv, TypeOK, Progress
<1>3. \A i \in DOMAIN lh : i < tail /\ ~(i >= tail)
  BY <1>1, <1>2
<1>4. TypeOK'
  <2>1. stage' \in Stages
    BY <1>1 DEF Stages
  <2>2. lh' \in Seq(Blocks) /\ tail' \in Nat \ {0}
    BY <1>1
  <2> QED
    BY <1>1, <2>1, <2>2, Zenon DEF LogInv, TypeOK
<1>5. HeadersFit'
  BY <1>1 DEF LogInv, HeadersFit, NoDup, Slots
<1>6. CallsCounted'
  <2>1. Active' = Active
    BY <1>1 DEF Active
  <2>2. outstanding = 0
    BY <1>1 DEF LogInv, CallsCounted, Up
  <2> QED
    BY <1>1, <2>1, <2>2 DEF LogInv, CallsCounted
<1>7. Progress'
  <2>1. \A i \in DOMAIN dhead : disk[dhead[i]] = dlog[i]
    BY <1>1, <1>2, <1>3, Zenon DEF LogInv, Progress
  <2> QED
    BY <2>1, <1>1 DEF Progress
<1>8. \A c \in Blocks : pin[c] = 0
  BY <1>1, <1>3 DEF LogInv, PinsBalance, Up
<1>9. PinsBalance'
  BY <1>1, <1>8 DEF PinsBalance
<1>10. DirtyIsPinned'
  BY <1>1, <1>8 DEF LogInv, DirtyIsPinned, Running
<1> QED
  BY <1>4, <1>5, <1>6, <1>7, <1>9, <1>10 DEF LogInv

\* Erasing the header keeps LogInv.
LEMMA EraseInv == ASSUME LogInv, EraseHead PROVE LogInv'
<1>1. /\ stage \in {"erase", "recover_erase"} /\ dhead' = lh
      /\ stage' = IF stage = "erase" THEN "done" ELSE "none"
      /\ UNCHANGED <<disk, dlog, cache, pin, lh, outstanding, committing, pc, buf, wrote,
                     tail, panicked, crashes>>
  BY DEF EraseHead, Then, logVars, threadVars
<1>2. lh = <<>> /\ outstanding = 0
  BY <1>1 DEF LogInv, Progress, CallsCounted, Up
<1>3. TypeOK'
  <2>1. stage' \in Stages
    BY <1>1 DEF Stages
  <2> QED
    BY <1>1, <2>1, Zenon DEF LogInv, TypeOK
<1>4. HeadersFit'
  BY <1>1 DEF LogInv, HeadersFit, NoDup, Slots
<1>5. CallsCounted'
  <2>1. Active' = Active
    BY <1>1 DEF Active
  <2> QED
    BY <1>1, <1>2, <2>1, Zenon DEF LogInv, CallsCounted, TypeOK, Up
<1>6. Progress'
  BY <1>1, <1>2 DEF Progress
<1>7. PinsBalance' /\ DirtyIsPinned'
  BY <1>1, <1>2 DEF LogInv, PinsBalance, DirtyIsPinned, Running, Logged, Up
<1> QED
  BY <1>3, <1>4, <1>5, <1>6, <1>7, Zenon DEF LogInv

\* The end of the commit keeps LogInv.
LEMMA EndCommitInv == ASSUME LogInv, NEW p \in Procs, EndCommit(p) PROVE LogInv'
<1>1. /\ stage = "done" /\ stage' = "none" /\ committing' = 0 /\ pc[p] = "commit"
      /\ pc' = wakeup([pc EXCEPT ![p] = "idle"])
      /\ UNCHANGED <<disk, dlog, dhead, cache, pin, lh, outstanding, buf, wrote,
                     tail, panicked, crashes>>
  BY DEF EndCommit, diskVars
<1>2. lh = <<>> /\ dhead = <<>>
  BY <1>1 DEF LogInv, Progress
<1>3. pc \in [Procs -> {"idle", "begin", "sleeping", "commit"} \cup InOp]
  BY Zenon DEF LogInv, TypeOK
<1>4. TypeOK'
  <2>1. stage' \in Stages /\ committing' \in {0, 1}
    BY <1>1 DEF Stages
  <2>2. pc' \in [Procs -> {"idle", "begin", "sleeping", "commit"} \cup InOp]
    BY <1>1, <1>3 DEF wakeup
  <2> QED
    BY <1>1, <2>1, <2>2, Zenon DEF LogInv, TypeOK
<1>5. HeadersFit'
  BY <1>1 DEF LogInv, HeadersFit, NoDup, Slots
<1>6. CallsCounted'
  <2>1. Active' = Active
    BY <1>1, <1>3 DEF Active, wakeup, InOp
  <2>2. \A q \in Procs : pc'[q] = "hold" => pc[q] = "hold"
    BY <1>1, <1>3, Zenon DEF wakeup
  <2> QED
    <3>1. committing' = 1 <=> stage' \in {"write_log", "write_head", "install", "erase", "done"}
      BY <1>1
    <3>2. ~Up' \/ committing' = 1 => outstanding' = 0
      BY <1>1 DEF Up
    <3> QED
      BY <1>1, <2>1, <2>2, <3>1, <3>2, Zenon DEF LogInv, CallsCounted
<1>7. Progress'
  BY <1>1, <1>2, Zenon DEF Progress
<1>8. PinsBalance' /\ DirtyIsPinned'
  BY <1>1, <1>2 DEF LogInv, PinsBalance, DirtyIsPinned, Running, Logged, Up
<1> QED
  BY <1>4, <1>5, <1>6, <1>7, <1>8 DEF LogInv

\* A crash keeps LogInv: nothing of what is lost is needed.
LEMMA CrashInv == ASSUME LogInv, Crash PROVE LogInv'
<1> USE LogAssumption DEF Crash, diskVars
<1>1. TypeOK'
  <2>1. crashes' \in Nat
    <3>1. crashes \in Nat
      BY Zenon DEF LogInv, TypeOK
    <3> QED
      BY <3>1
  <2>2. stage' \in Stages /\ tail' \in Nat \ {0} /\ outstanding' \in Nat /\ committing' \in {0, 1}
    BY DEF Stages
  <2>3. /\ pin' \in [Blocks -> Nat] /\ cache' \in [Blocks -> Vals \cup {NotCached}]
        /\ lh' \in Seq(Blocks)
    OBVIOUS
  <2>4. /\ pc' \in [Procs -> {"idle", "begin", "sleeping", "commit"} \cup InOp]
        /\ buf' \in [Procs -> Blocks \cup {NoBlock}] /\ wrote' \in [Procs -> SUBSET Blocks]
    OBVIOUS
  <2>5. disk' = disk /\ dlog' = dlog /\ dhead' = dhead /\ panicked' = "no"
    OBVIOUS
  <2> QED
    BY <2>1, <2>2, <2>3, <2>4, <2>5, Zenon DEF LogInv, TypeOK
<1>2. HeadersFit'
  BY DEF LogInv, HeadersFit, NoDup, Slots
<1>3. CallsCounted'
  <2>1. Active' = {}
    BY DEF Active, InOp
  <2> QED
    BY <2>1, FS_EmptySet DEF CallsCounted
<1>4. Progress'
  BY DEF Progress
<1>5. PinsBalance' /\ DirtyIsPinned'
  BY Zenon DEF PinsBalance, DirtyIsPinned, Up
<1> QED
  BY <1>1, <1>2, <1>3, <1>4, <1>5 DEF LogInv

\* Reading the header at boot keeps LogInv.
LEMMA ReadHeadInv == ASSUME LogInv, read_head PROVE LogInv'
<1>1. /\ stage = "boot" /\ stage' = "recover_install" /\ lh' = dhead /\ tail' = 1
      /\ UNCHANGED <<disk, dlog, dhead, cache, pin, outstanding, committing, pc, buf, wrote,
                     panicked, crashes>>
  BY DEF read_head, Then, diskVars, threadVars
<1>2. lh = <<>> /\ dhead \in Seq(Blocks)
  BY <1>1, Zenon DEF LogInv, Progress, TypeOK
<1>3. \A i \in DOMAIN dhead : ~(i < 1)
  BY <1>2
<1>4. TypeOK'
  <2>1. stage' \in Stages /\ tail' \in Nat \ {0}
    BY <1>1 DEF Stages
  <2> QED
    BY <1>1, <1>2, <2>1, Zenon DEF LogInv, TypeOK
<1>5. HeadersFit'
  BY <1>1, SMTT(30), SMTT(60) DEF LogInv, HeadersFit, NoDup, Slots
<1>6. CallsCounted'
  <2>1. Active' = Active
    BY <1>1 DEF Active
  <2> QED
    BY <1>1, <2>1 DEF LogInv, CallsCounted, Up
<1>7. Progress'
  BY <1>1, <1>3, SMTT(30), SMTT(60) DEF Progress
<1>8. PinsBalance'
  BY <1>1 DEF LogInv, PinsBalance, Up
<1>9. DirtyIsPinned'
  BY <1>1, <1>2 DEF LogInv, DirtyIsPinned, Running, Logged
<1> QED
  BY <1>4, <1>5, <1>6, <1>7, <1>8, <1>9 DEF LogInv

\* A step that changes nothing keeps LogInv.
LEMMA StutterInv == ASSUME LogInv, UNCHANGED vars PROVE LogInv'
<1> USE DEF vars, diskVars, logVars, threadVars, commitVars
<1>1. Content' = Content /\ Active' = Active
  BY DEF Content, Active
<1>2. TypeOK' /\ HeadersFit'
  BY Zenon DEF LogInv, TypeOK, HeadersFit, NoDup, Slots
<1>3. CallsCounted'
  BY <1>1 DEF LogInv, CallsCounted, Up
<1>4. Progress'
  BY <1>1, Zenon DEF LogInv, Progress
<1>5. PinsBalance' /\ DirtyIsPinned'
  BY Zenon DEF LogInv, PinsBalance, DirtyIsPinned, Running, Logged, Up
<1> QED
  BY <1>2, <1>3, <1>4, <1>5, SMTT(30), SMTT(60) DEF LogInv

\* Every step keeps LogInv.
LEMMA NextInv == LogInv /\ [Next]_vars => LogInv'
  BY BeginInv, BreadInv, BrelseInv, RecycleInv, LogWriteInv, EndOpInv, WriteLogInv,
     WriteHeadInv, InstallInv, InstalledInv, EraseInv, EndCommitInv, CrashInv,
     ReadHeadInv, StutterInv
     DEF Next, CommitStep

\* LogInv always holds, for every number of threads, blocks and log slots.
THEOREM LogInvariant == Spec => []LogInv
  BY InitInv, NextInv, PTL DEF Spec

\* Type correctness: no pin count or log.outstanding goes negative.
THEOREM TypeCorrect == Spec => []TypeOK
  BY LogInvariant, PTL DEF LogInv

\* The only copy of a block is never in a buffer that bget() may recycle.
THEOREM DirtyPinned == Spec => []DirtyIsPinned
  BY LogInvariant, PTL DEF LogInv

\* bpin() and bunpin() balance through commits, absorption and crashes.
THEOREM PinsBalanced == Spec => []PinsBalance
  BY LogInvariant, PTL DEF LogInv

\* When no call runs and no commit is under way everything is durable.
THEOREM QuietDurable == Spec => []QuietIsDurable
<1>1. LogInv => QuietIsDurable
  <2> SUFFICES ASSUME LogInv, Running, stage = "none", outstanding = 0
               PROVE  lh = <<>> /\ dhead = <<>> /\ Content = disk
    BY DEF QuietIsDurable
  <2>1. lh = <<>> /\ dhead = <<>>
    BY DEF LogInv, Progress
  <2>2. \A b \in Blocks : cache[b] \in {NotCached, disk[b]}
    BY <2>1 DEF LogInv, DirtyIsPinned, Logged
  <2>3. disk \in [Blocks -> Vals]
    BY Zenon DEF LogInv, TypeOK
  <2> QED
    BY <2>1, <2>2, <2>3 DEF Content
<1> QED
  BY <1>1, LogInvariant, PTL

\* Only install_trans() writes a home block.
LEMMA OnlyInstallWrites == ASSUME Next PROVE disk' = disk \/ install_trans
  BY Zenon DEF Next, CommitStep, begin_op, brelse, end_op, EndCommit, bread, log_write, Recycle,
         write_log, write_head, Installed, EraseHead, read_head, Crash, diskVars

\* The write-ahead rule: a home block changes only to what a header on the disk
\* commits it to.
THEOREM WritesAhead == Spec => WriteAhead
<1> DEFINE A == \A b \in Blocks : disk'[b] # disk[b] =>
                  \E i \in DOMAIN dhead : dhead[i] = b /\ dlog[i] = disk'[b]
<1>1. LogInv /\ [Next]_vars => [A]_vars
  <2> SUFFICES ASSUME LogInv, Next, disk' # disk PROVE A
    BY DEF A
  <2>1. install_trans
    BY OnlyInstallWrites
  <2>2. /\ stage \in {"install", "recover_install"} /\ tail <= Len(lh)
        /\ disk' = [disk EXCEPT ![lh[tail]] = dlog[tail]]
    BY <2>1 DEF install_trans
  <2>3. lh = dhead /\ lh \in Seq(Blocks) /\ tail \in Nat \ {0} /\ disk \in [Blocks -> Vals]
    BY <2>2, Zenon DEF LogInv, Progress, TypeOK
  <2>4. tail \in DOMAIN dhead
    BY <2>2, <2>3
  <2> QED
    BY <2>2, <2>3, <2>4
<1> QED
  BY <1>1, LogInvariant, PTL DEF Spec, WriteAhead

\* A wakeup is never lost: a step that ends the commit or the last other call
\* wakes everyone, and begin_op() sleeps only when one of the two is under way.
LEMMA WakerStep ==
    ASSUME LogInv, SleeperHasWaker, Next PROVE SleeperHasWaker'
<1> SUFFICES ASSUME NEW q \in Procs, pc'[q] = "sleeping"
             PROVE  committing' = 1 \/ outstanding' > 0
  BY DEF SleeperHasWaker
<1>t. /\ pc \in [Procs -> {"idle", "begin", "sleeping", "commit"} \cup InOp]
      /\ outstanding \in Nat
  BY Zenon DEF LogInv, TypeOK
<1>s. pc[q] = "sleeping" => committing = 1 \/ outstanding > 0
  BY DEF SleeperHasWaker
<1>1. ASSUME NEW p \in Procs, begin_op(p) PROVE committing' = 1 \/ outstanding' > 0
  <2>1. CASE committing = 1 \/ outstanding > 0
    BY <1>1, <1>t, <2>1 DEF begin_op
  <2>2. CASE committing # 1 /\ outstanding = 0
    <3>0. stage = "none"
      <4>1. stage \in Stages
        BY Zenon DEF LogInv, TypeOK
      <4>2. stage \notin {"write_log", "write_head", "install", "erase", "done"}
        BY <2>2, Zenon DEF LogInv, CallsCounted
      <4> QED
        BY <1>1, <4>1, <4>2 DEF begin_op, Up, Stages
    <3>1. lh = <<>>
      BY <2>2, <3>0, Zenon DEF LogInv, Progress
    <3>2. ~LogFull
      BY <3>1, <2>2, LogAssumption DEF LogFull
    <3> QED
      BY <1>1, <2>2, <3>2 DEF begin_op
  <2> QED
    BY <1>t, <2>1, <2>2
<1>2. ASSUME NEW p \in Procs, end_op(p) PROVE committing' = 1 \/ outstanding' > 0
  BY <1>2, <1>t DEF end_op, wakeup
<1>3. ASSUME NEW p \in Procs, EndCommit(p) PROVE committing' = 1 \/ outstanding' > 0
  BY <1>3, <1>t DEF EndCommit, wakeup
<1>4. CASE Crash
  BY <1>4, SMTT(30), SMTT(60) DEF Crash
<1>5. ASSUME NEW p \in Procs, brelse(p) \/ (\E b \in Blocks : bread(p, b)) \/ (\E v \in Vals : log_write(p, v))
      PROVE  committing' = 1 \/ outstanding' > 0
  BY <1>5, <1>s, <1>t DEF brelse, bread, log_write, logVars
<1>6. CASE CommitStep \/ \E b \in Blocks : Recycle(b)
  BY <1>6, <1>s DEF CommitStep, write_log, write_head, install_trans, Installed, EraseHead,
                    read_head, Recycle, logVars, threadVars
<1> QED
  BY <1>1, <1>2, <1>3, <1>4, <1>5, <1>6, Zenon DEF Next

\* No thread sleeps in begin_op() without a commit or a call that will wake it.
THEOREM SleeperWaker == Spec => []SleeperHasWaker
<1>1. Init => SleeperHasWaker
  BY DEF Init, SleeperHasWaker
<1>2. LogInv /\ SleeperHasWaker /\ [Next]_vars => SleeperHasWaker'
  <2>1. CASE Next
    BY <2>1, WakerStep
  <2>2. CASE UNCHANGED vars
    BY <2>2 DEF SleeperHasWaker, vars, logVars, threadVars
  <2> QED
    BY <2>1, <2>2
<1> QED
  BY <1>1, <1>2, LogInvariant, PTL DEF Spec
------------------------------------------------------------------------------
(***************************************************************************)
(* Log implements TxDisk: every step of the log is a step of the abstract  *)
(* disk or changes nothing of it, from the inductive invariant LogInv.     *)
(***************************************************************************)

\* What recovery would make of a block that the header on the disk names, and
\* of one that it does not name.
LEMMA Recovered ==
  ASSUME LogInv
  PROVE  /\ \A i \in DOMAIN dhead : AfterRecovery[dhead[i]] = dlog[i]
         /\ \A b \in Blocks : (\A i \in DOMAIN dhead : dhead[i] # b) => AfterRecovery[b] = disk[b]
<1>1. dhead \in Seq(Blocks) /\ NoDup(dhead)
  BY Zenon DEF LogInv, TypeOK, HeadersFit
<1>2. ASSUME NEW i \in DOMAIN dhead PROVE AfterRecovery[dhead[i]] = dlog[i]
  <2>1. dhead[i] \in Blocks
    BY <1>1
  <2>2. (CHOOSE j \in DOMAIN dhead : dhead[j] = dhead[i]) = i
    BY <1>1, Zenon DEF NoDup
  <2> QED
    BY <2>1, <2>2, Zenon DEF AfterRecovery
<1> QED
  BY <1>2, Zenon DEF AfterRecovery

\* The abstract state that a step leaves alone.
Same == AfterRecovery' = AfterRecovery /\ Current' = Current /\ Active' = Active

\* Steps that touch neither the disk nor the cache nor the header in a way a
\* reader could see.
LEMMA StaysPut ==
  ASSUME UNCHANGED <<disk, dlog, dhead>>, Content' = Content, Up' = Up
  PROVE  AfterRecovery' = AfterRecovery /\ Current' = Current
  BY DEF AfterRecovery, Current

\* While nothing is committed, recovery would change nothing.
LEMMA EmptyHeader == ASSUME dhead = <<>>, disk \in [Blocks -> Vals] PROVE AfterRecovery = disk
<1>1. DOMAIN dhead = {}
  OBVIOUS
<1> QED
  BY <1>1 DEF AfterRecovery

\* begin_op() is Begin, or waits.
LEMMA BeginRefines == ASSUME LogInv, NEW p \in Procs, begin_op(p) PROVE Promise!Begin(p) \/ Same
<1>1. Content' = Content /\ Up' = Up /\ UNCHANGED <<disk, dlog, dhead>>
  BY DEF begin_op, Content, Up, diskVars, commitVars
<1>2. AfterRecovery' = AfterRecovery /\ Current' = Current
  BY <1>1, StaysPut
<1>3. pc \in [Procs -> {"idle", "begin", "sleeping", "commit"} \cup InOp] /\ pc[p] \in {"idle", "begin"}
  BY Zenon DEF LogInv, TypeOK, begin_op
<1>4. pc' = [pc EXCEPT ![p] = "sleeping"] \/ pc' = [pc EXCEPT ![p] = "op"]
  BY DEF begin_op
<1>5. CASE pc' = [pc EXCEPT ![p] = "sleeping"]
  <2>1. Active' = Active
    BY <1>3, <1>5 DEF Active, InOp
  <2> QED
    BY <2>1, <1>2 DEF Same
<1>6. CASE pc' = [pc EXCEPT ![p] = "op"]
  <2>1. p \notin Active /\ Active' = Active \cup {p}
    BY <1>3, <1>6 DEF Active, InOp
  <2> QED
    BY <2>1, <1>2 DEF Promise!Begin
<1> QED
  BY <1>4, <1>5, <1>6

\* A buffer that is recycled holds what the disk holds.
LEMMA RecycledIsClean ==
  ASSUME LogInv, NEW b \in Blocks, Recycle(b)
  PROVE  cache[b] = disk[b]
<1>1. Running /\ cache[b] # NotCached /\ pin[b] = 0
  BY DEF Recycle
<1>2. cache[b] \notin {NotCached, disk[b]} => pin[b] > 0
  BY <1>1, Zenon DEF LogInv, DirtyIsPinned
<1>3. ~(pin[b] > 0)
  BY <1>1
<1> QED
  BY <1>1, <1>2, <1>3

\* bread(), brelse() and recycling change nothing a call can see.
LEMMA BufferRefines ==
  ASSUME LogInv,
         \/ \E p \in Procs, b \in Blocks : bread(p, b)
         \/ \E p \in Procs : brelse(p)
         \/ \E b \in Blocks : Recycle(b)
  PROVE  Same
<1>1. cache \in [Blocks -> Vals \cup {NotCached}] /\ disk \in [Blocks -> Vals] /\ NotCached \notin Vals
  BY LogAssumption, Zenon DEF LogInv, TypeOK
<1>2. \A b \in Blocks : Recycle(b) => cache[b] = disk[b]
  BY RecycledIsClean
<1>3. Content' = Content
  BY <1>1, <1>2, ZenonT(30) DEF Content, bread, brelse, Recycle, diskVars
<1>4. Up' = Up /\ UNCHANGED <<disk, dlog, dhead>>
  BY DEF bread, brelse, Recycle, Up, diskVars, commitVars
<1>5. pc \in [Procs -> {"idle", "begin", "sleeping", "commit"} \cup InOp]
  BY Zenon DEF LogInv, TypeOK
<1>6. Active' = Active
  BY <1>5, Zenon DEF Active, InOp, bread, brelse, Recycle, threadVars
<1> QED
  BY <1>3, <1>4, <1>6, StaysPut DEF Same

\* log_write() is Write.
LEMMA LogWriteRefines ==
  ASSUME LogInv, NEW p \in Procs, NEW v \in Vals, log_write(p, v)
  PROVE  \E b \in Blocks : Promise!Write(p, b, v)
<1> DEFINE b == buf[p]
<1>1. stage = "none" /\ pc[p] = "hold"
  BY ActiveMeansQuiet, Zenon DEF log_write, InOp
<1>2. b \in Blocks /\ p \in Active
  BY <1>1 DEF LogInv, CallsCounted, Active, InOp
<1>3. /\ cache' = [cache EXCEPT ![b] = v] /\ UNCHANGED <<disk, dlog, dhead, stage>>
      /\ pc' \in {pc, [pc EXCEPT ![p] = "logged"]}
  BY Zenon DEF log_write, diskVars, commitVars
<1>4. /\ cache \in [Blocks -> Vals \cup {NotCached}] /\ NotCached \notin Vals
      /\ pc \in [Procs -> {"idle", "begin", "sleeping", "commit"} \cup InOp]
  BY LogAssumption, Zenon DEF LogInv, TypeOK
<1>5. Content' = [Content EXCEPT ![b] = v]
  BY <1>2, <1>3, <1>4, Zenon DEF Content
<1>6. AfterRecovery' = AfterRecovery
  BY <1>3, Zenon DEF AfterRecovery
<1>7. Active' = Active
  BY <1>1, <1>3, <1>4 DEF Active, InOp
<1>8. Current = Content /\ Current' = Content'
  BY <1>1, <1>3 DEF Current, Up
<1>9. Promise!Write(p, b, v)
  BY <1>2, <1>5, <1>6, <1>7, <1>8, Zenon DEF Promise!Write
<1> QED
  BY <1>2, <1>9

\* end_op() is End.
LEMMA EndRefines == ASSUME LogInv, NEW p \in Procs, end_op(p) PROVE Promise!End(p)
<1>1. stage = "none" /\ committing = 0 /\ pc[p] = "op"
  BY ActiveMeansQuiet, Zenon DEF end_op, InOp
<1>2. UNCHANGED <<disk, dlog, dhead, cache>> /\ stage' \in {"none", "done", "write_log"}
  BY <1>1 DEF end_op, diskVars
<1>3. Content' = Content /\ Up' = Up
  BY <1>1, <1>2, Zenon DEF Content, Up
<1>4. pc \in [Procs -> {"idle", "begin", "sleeping", "commit"} \cup InOp]
  BY Zenon DEF LogInv, TypeOK
<1>5. \/ pc' = [pc EXCEPT ![p] = "commit"]
      \/ pc' = wakeup([pc EXCEPT ![p] = "idle"])
  BY <1>1 DEF end_op
<1>6. p \in Active /\ Active' = Active \ {p}
  BY <1>1, <1>4, <1>5, SMTT(30), SMTT(60) DEF Active, wakeup, InOp
<1> QED
  BY <1>2, <1>3, <1>6, StaysPut, Zenon DEF Promise!End

\* write_log() changes nothing: no header names the blocks it writes.
LEMMA WriteLogRefines == ASSUME LogInv, write_log PROVE Same
<1>1. /\ stage = "write_log" /\ dhead = <<>> /\ stage' \in {"write_log", "write_head"}
      /\ cache' = [cache EXCEPT ![lh[tail]] = Content[lh[tail]]]
      /\ UNCHANGED <<disk, dhead, pc>>
  BY Zenon DEF write_log, Then, threadVars, LogInv, Progress
<1>2. /\ cache \in [Blocks -> Vals \cup {NotCached}] /\ NotCached \notin Vals
      /\ disk \in [Blocks -> Vals] /\ lh \in Seq(Blocks) /\ tail \in DOMAIN lh
  BY <1>1, LogAssumption, Zenon DEF LogInv, TypeOK, Progress
<1>3. Content' = Content
  BY <1>1, <1>2, Zenon DEF Content
<1>4. AfterRecovery' = AfterRecovery
  <2>1. AfterRecovery = disk
    BY <1>1, <1>2, EmptyHeader, Zenon
  <2>2. AfterRecovery' = disk'
    <3>1. DOMAIN dhead' = {}
      BY <1>1
    <3> QED
      BY <3>1, <1>1, <1>2, Zenon DEF AfterRecovery
  <2> QED
    BY <2>1, <2>2, <1>1
<1> QED
  BY <1>1, <1>3, <1>4 DEF Same, Current, Up, Active

\* write_head() is Commit: the whole group becomes durable at once.
LEMMA WriteHeadRefines == ASSUME LogInv, LogInv', write_head PROVE Promise!Commit
<1>1. /\ stage = "write_head" /\ stage' = "install" /\ dhead' = lh /\ Running
      /\ UNCHANGED <<disk, dlog, cache, pin, lh, pc>>
  BY DEF write_head, Then, logVars, threadVars
<1>2. Content' = Content
  BY <1>1 DEF Content
<1>3. Current = Content /\ Current' = Content
  BY <1>1, <1>2 DEF Current, Up
<1>4. Active = {} /\ Active' = Active
  <2>1. outstanding = 0 /\ outstanding = Cardinality(Active)
    BY <1>1, Zenon DEF LogInv, CallsCounted
  <2> QED
    BY <2>1, <1>1, ActiveFinite, FS_EmptySet, Zenon DEF Active
<1>5. AfterRecovery' = Content
  <2>1. disk \in [Blocks -> Vals] /\ lh \in Seq(Blocks) /\ NoDup(lh)
    BY Zenon DEF LogInv, TypeOK, HeadersFit
  <2>2. ASSUME NEW b \in Blocks PROVE AfterRecovery'[b] = Content[b]
    <3>1. CASE \E i \in DOMAIN lh : lh[i] = b
      <4>1. PICK i \in DOMAIN lh : lh[i] = b
        BY <3>1
      <4>2. (CHOOSE j \in DOMAIN lh : lh[j] = b) = i
        BY <4>1, <2>1, Zenon DEF NoDup
      <4>3. dlog[i] = Content[b]
        BY <4>1, <1>1, Zenon DEF LogInv, Progress
      <4> QED
        BY <4>1, <4>2, <4>3, <1>1, Zenon DEF AfterRecovery
    <3>2. CASE ~ \E i \in DOMAIN lh : lh[i] = b
      <4>1. cache[b] \in {NotCached, disk[b]}
        BY <3>2, <1>1, Zenon DEF LogInv, DirtyIsPinned, Logged
      <4>2. Content[b] = disk[b]
        BY <4>1 DEF Content
      <4> QED
        BY <4>2, <3>2, <1>1 DEF AfterRecovery
    <3> QED
      BY <3>1, <3>2
  <2> QED
    BY <2>2 DEF AfterRecovery, Content
<1> QED
  BY <1>3, <1>4, <1>5, Zenon DEF Promise!Commit

\* install_trans() changes nothing: a home block gets the content that recovery
\* would give it and that calls already read.
LEMMA InstallRefines == ASSUME LogInv, LogInv', install_trans PROVE Same
<1> DEFINE b == lh[tail]
<1>1. /\ stage \in {"install", "recover_install"} /\ tail <= Len(lh)
      /\ disk' = [disk EXCEPT ![b] = dlog[tail]]
      /\ cache' = [cache EXCEPT ![b] = dlog[tail]]
      /\ UNCHANGED <<dlog, dhead, lh, pc, stage>>
  BY DEF install_trans, logVars, threadVars
<1>2. /\ lh \in Seq(Blocks) /\ tail \in Nat \ {0} /\ lh = dhead /\ DOMAIN lh \subseteq Slots
      /\ disk \in [Blocks -> Vals] /\ cache \in [Blocks -> Vals \cup {NotCached}]
      /\ dlog \in [Slots -> Vals] /\ NotCached \notin Vals
  BY <1>1, LogAssumption, Zenon DEF LogInv, TypeOK, Progress, HeadersFit
<1>3. tail \in DOMAIN lh /\ b \in Blocks /\ dlog[tail] \in Vals
  BY <1>1, <1>2
<1>4. AfterRecovery' = AfterRecovery
  <2>1. ASSUME NEW c \in Blocks PROVE AfterRecovery'[c] = AfterRecovery[c]
    <3>1. CASE \E i \in DOMAIN dhead : dhead[i] = c
      BY <3>1, <1>1, SMTT(30), SMTT(60) DEF AfterRecovery
    <3>2. CASE ~ \E i \in DOMAIN dhead : dhead[i] = c
      <4>1. c # b
        BY <3>2, <1>2, <1>3, Zenon
      <4> QED
        BY <4>1, <3>2, <1>1, <1>2 DEF AfterRecovery
    <3> QED
      BY <3>1, <3>2, SMTT(30), SMTT(60)
  <2> QED
    BY <2>1, Zenon DEF AfterRecovery
<1>5. stage = "install" => Content' = Content
  <2> SUFFICES ASSUME stage = "install" PROVE Content' = Content
    OBVIOUS
  <2>1. Content[b] = dlog[tail]
    BY <1>3, Zenon DEF LogInv, Progress
  <2>2. ASSUME NEW c \in Blocks PROVE Content'[c] = Content[c]
    BY <2>1, <1>1, <1>2, <1>3 DEF Content
  <2> QED
    BY <2>2 DEF Content
<1> QED
  BY <1>1, <1>4, <1>5, Zenon DEF Same, Current, Up, Active

\* Erasing the header changes nothing: everything is in its home location.  It
\* ends recovery with calls reading exactly what recovery promised.
LEMMA EraseRefines == ASSUME LogInv, EraseHead PROVE Same
<1>1. /\ stage \in {"erase", "recover_erase"} /\ dhead' = lh /\ Running
      /\ stage' = IF stage = "erase" THEN "done" ELSE "none"
      /\ UNCHANGED <<disk, dlog, cache, pin, lh, pc>>
  <2>1. /\ stage \in {"erase", "recover_erase"} /\ dhead' = lh /\ Running
        /\ UNCHANGED <<disk, dlog, cache, pin, lh, pc>> /\ stage' = Then[stage]
    BY DEF EraseHead, logVars, threadVars
  <2>2. Then["erase"] = "done" /\ Then["recover_erase"] = "none"
    BY Zenon DEF Then
  <2> QED
    BY <2>1, <2>2
<1>2. lh = <<>> /\ \A i \in DOMAIN dhead : disk[dhead[i]] = dlog[i]
  BY <1>1 DEF LogInv, Progress
<1>3. disk \in [Blocks -> Vals]
  BY Zenon DEF LogInv, TypeOK
<1>4. Content = disk /\ Content' = disk
  <2>1. \A b \in Blocks : cache[b] \in {NotCached, disk[b]}
    BY <1>1, <1>2 DEF LogInv, DirtyIsPinned, Logged
  <2> QED
    BY <2>1, <1>1, <1>3, Zenon DEF Content
<1>5. AfterRecovery = disk
  <2>1. ASSUME NEW b \in Blocks PROVE AfterRecovery[b] = disk[b]
    BY Recovered, <1>2
  <2> QED
    BY <2>1, <1>3 DEF AfterRecovery
<1>6. AfterRecovery' = disk
  <2>1. DOMAIN dhead' = {}
    BY <1>1, <1>2
  <2> QED
    BY <2>1, <1>1, <1>3, Zenon DEF AfterRecovery
<1> QED
  BY <1>1, <1>4, <1>5, <1>6 DEF Same, Current, Up, Active

\* The other steps of commit() and of boot change nothing.
LEMMA BookkeepingRefines ==
  ASSUME LogInv, Installed \/ read_head \/ \E p \in Procs : EndCommit(p)
  PROVE  Same
<1>1. UNCHANGED <<disk, dlog, dhead, cache>> /\ Up' = Up
  <2>1. CASE Installed
    <3>1. /\ stage \in {"install", "recover_install"} /\ stage' = Then[stage]
          /\ UNCHANGED <<disk, dlog, dhead, cache>>
      BY <2>1, Zenon DEF Installed, diskVars
    <3>2. Then["install"] = "erase" /\ Then["recover_install"] = "recover_erase"
      BY DEF Then
    <3> QED
      BY <3>1, <3>2 DEF Up
  <2>2. CASE read_head
    BY <2>2, Zenon DEF read_head, Then, Up, diskVars
  <2>3. CASE \E p \in Procs : EndCommit(p)
    BY <2>3 DEF EndCommit, Up, diskVars
  <2> QED
    BY <2>1, <2>2, <2>3
<1>2. Content' = Content
  BY <1>1 DEF Content
<1>3. pc \in [Procs -> {"idle", "begin", "sleeping", "commit"} \cup InOp]
  BY Zenon DEF LogInv, TypeOK
<1>4. Active' = Active
  BY <1>3 DEF Active, Installed, EndCommit, read_head, wakeup, InOp, threadVars
<1> QED
  BY <1>1, <1>2, <1>4, StaysPut DEF Same

\* A crash is Crash: what is left is what recovery makes of the disk.
LEMMA CrashRefines == ASSUME Crash PROVE Promise!Crash
<1>1. AfterRecovery' = AfterRecovery
  BY Zenon DEF Crash, AfterRecovery, diskVars
<1>2. Current' = AfterRecovery' /\ Active' = {}
  BY DEF Crash, Current, Up, Active, InOp
<1> QED
  BY <1>1, <1>2 DEF Promise!Crash

\* Every step of log.c is a step of TxDisk, or one that TxDisk does not see.
LEMMA StepRefines == LogInv /\ LogInv' /\ [Next]_vars => [Promise!Next]_(Promise!vars)
<1> SUFFICES ASSUME LogInv, LogInv', [Next]_vars
             PROVE  Promise!Next \/ Same
  BY Zenon DEF Same, Promise!vars
<1>1. CASE UNCHANGED vars
  <2>1. UNCHANGED <<disk, dlog, dhead, cache, stage, pc>>
    BY <1>1 DEF vars, diskVars, threadVars, commitVars
  <2> QED
    BY <2>1 DEF Same, AfterRecovery, Current, Content, Up, Active
<1>2. ASSUME NEW p \in Procs, begin_op(p) PROVE Promise!Next \/ Same
  BY <1>2, BeginRefines DEF Promise!Next
<1>3. ASSUME NEW p \in Procs, brelse(p) PROVE Same
  BY <1>3, BufferRefines
<1>4. ASSUME NEW p \in Procs, end_op(p) PROVE Promise!Next
  BY <1>4, EndRefines DEF Promise!Next
<1>5. ASSUME NEW p \in Procs, EndCommit(p) PROVE Same
  BY <1>5, BookkeepingRefines
<1>6. ASSUME NEW p \in Procs, NEW b \in Blocks, bread(p, b) PROVE Same
  BY <1>6, BufferRefines
<1>7. ASSUME NEW p \in Procs, NEW v \in Vals, log_write(p, v) PROVE Promise!Next
  BY <1>7, LogWriteRefines DEF Promise!Next
<1>8. ASSUME NEW b \in Blocks, Recycle(b) PROVE Same
  BY <1>8, BufferRefines
<1>9. CASE CommitStep
  BY <1>9, WriteLogRefines, WriteHeadRefines, InstallRefines, EraseRefines, BookkeepingRefines
     DEF CommitStep, Promise!Next
<1>10. CASE Crash
  BY <1>10, CrashRefines DEF Promise!Next
<1> QED
  BY <1>1, <1>2, <1>3, <1>4, <1>5, <1>6, <1>7, <1>8, <1>9, <1>10, Zenon DEF Next

\* log.c implements TxDisk for every number of threads, blocks, contents, log
\* slots and crashes: groups of calls are atomic and durable.
THEOREM Implements == Spec => Atomic
<1>1. Init => Promise!Init
  <2> SUFFICES ASSUME Init PROVE Promise!Init
    OBVIOUS
  <2>1. DOMAIN dhead = {} /\ stage = "boot"
    BY DEF Init
  <2>2. AfterRecovery = [b \in Blocks |-> Zero]
    BY <2>1 DEF Init, AfterRecovery
  <2>3. Active = {} /\ Current = AfterRecovery
    BY <2>1 DEF Init, Active, InOp, Current, Up
  <2> QED
    BY <2>2, <2>3 DEF Promise!Init
<1> QED
  BY <1>1, StepRefines, LogInvariant, PTL DEF Spec, Atomic, Promise!Spec
------------------------------------------------------------------------------
(***************************************************************************)
(* The kernel does not panic: RoomInv, kept by every step together with    *)
(* LogInv, leaves room in the log for what the calls under way still log.  *)
(***************************************************************************)
\* The room of a finite set of calls: at most OpWrites blocks a call.
LEMMA RoomBound ==
  ASSUME NEW A, IsFiniteSet(A), NEW R \in SUBSET (A \X (1 .. OpWrites))
  PROVE  IsFiniteSet(R) /\ Cardinality(R) \in Nat /\ Cardinality(R) <= Cardinality(A) * OpWrites
<1>1. IsFiniteSet(1 .. OpWrites) /\ Cardinality(1 .. OpWrites) = OpWrites
  <2>1. OpWrites \in Int /\ 1 \in Int
    BY LogAssumption, SMTT(30)
  <2>2. IsFiniteSet(1 .. OpWrites) /\ Cardinality(1 .. OpWrites) = IF 1 > OpWrites THEN 0 ELSE OpWrites - 1 + 1
    BY <2>1, FS_Interval, Zenon
  <2> QED BY <2>2, LogAssumption, SMTT(30), SMTT(60)
<1>2. /\ IsFiniteSet(A \X (1 .. OpWrites))
      /\ Cardinality(A \X (1 .. OpWrites)) = Cardinality(A) * OpWrites
  BY <1>1, FS_Product, Zenon
<1>3. IsFiniteSet(R) /\ Cardinality(R) <= Cardinality(A \X (1 .. OpWrites))
  BY <1>2, FS_Subset, Zenon
<1> QED BY <1>2, <1>3, FS_CardinalityType, Zenon

\* The room of the calls under way.
LEMMA RoomFinite ==
  /\ IsFiniteSet(Room) /\ Cardinality(Room) \in Nat
  /\ Cardinality(Room) <= Cardinality(Active) * OpWrites
<1>1. Room \in SUBSET (Active \X (1 .. OpWrites))
  BY Zenon DEF Room
<1> QED BY <1>1, ActiveFinite, RoomBound, Zenon

\* A step that changes none of log.lh, the calls under way and what they have
\* logged keeps the room.
LEMMA RoomKept ==
  ASSUME RoomInv, lh' = lh, Active' = Active, outstanding' = outstanding, \A p \in Active : wrote'[p] = wrote[p]
  PROVE  RoomInv'
<1>1. Room' = Room
  BY Zenon DEF Room
<1>2. Logged' = Logged
  BY Zenon DEF Logged
<1> QED BY <1>1, <1>2, Zenon DEF RoomInv

\* With room for the calls under way, log_write() does not find the log full.
LEMMA NotTooBig == ASSUME LogInv, RoomInv, OpsFit, outstanding > 0 PROVE ~TooBig
<1>1. lh \in Seq(Blocks)
  BY Zenon DEF LogInv, TypeOK
<1>2. Len(lh) \in Nat
  BY <1>1, SMTT(30)
<1>3. \/ Len(lh) + Cardinality(Room) <= OpWrites
      \/ Len(lh) + Cardinality(Room) + 2 * (MAXOPBLOCKS - OpWrites) <= LOGSIZE
  BY Zenon DEF RoomInv
<1>4. Cardinality(Room) \in Nat
  BY RoomFinite
<1> QED BY <1>2, <1>3, <1>4, LogAssumption, SMTT(30), SMTT(60) DEF OpsFit, TooBig

\* With no call and no commit under way log.lh is empty.
LEMMA IdleMeansEmpty == ASSUME LogInv, committing # 1, outstanding = 0, Up PROVE lh = <<>>
<1>1. stage \in Stages
  BY Zenon DEF LogInv, TypeOK
<1>2. stage \notin {"write_log", "write_head", "install", "erase", "done"}
  BY Zenon DEF LogInv, CallsCounted
<1>3. stage = "none"
  BY <1>1, <1>2, Zenon DEF Up, Stages
<1> QED BY <1>3, Zenon DEF LogInv, Progress

\* begin_op()'s test makes the room for one more call.
LEMMA BeginRoom == ASSUME LogInv, RoomInv, OpsFit, NEW p \in Procs, begin_op(p) PROVE RoomInv'
<1>1. CASE committing = 1 \/ LogFull
  <2>1. pc' = [pc EXCEPT ![p] = "sleeping"] /\ outstanding' = outstanding /\ wrote' = wrote /\ lh' = lh /\ pc[p] \in {"idle", "begin"}
    BY <1>1, Zenon DEF begin_op
  <2>2. Active' = Active
    <3>1. pc \in [Procs -> {"idle", "begin", "sleeping", "commit"} \cup InOp]
      BY Zenon DEF LogInv, TypeOK
    <3> QED BY <2>1, <3>1, Zenon DEF Active, InOp
  <2> QED BY <2>1, <2>2, RoomKept, Zenon
<1>2. CASE committing # 1 /\ ~LogFull
  <2>1. /\ pc' = [pc EXCEPT ![p] = "op"] /\ outstanding' = outstanding + 1 /\ wrote' = [wrote EXCEPT ![p] = {}]
        /\ lh' = lh /\ pc[p] \in {"idle", "begin"} /\ Up
    BY <1>2, Zenon DEF begin_op
  <2>2. pc \in [Procs -> {"idle", "begin", "sleeping", "commit"} \cup InOp] /\ wrote \in [Procs -> SUBSET Blocks]
    BY Zenon DEF LogInv, TypeOK
  <2>3. Active' = Active \cup {p} /\ p \notin Active
    BY <2>1, <2>2, Zenon DEF Active, InOp
  <2>4. wrote'[p] = {} /\ \A q \in Active : wrote'[q] = wrote[q]
    BY <2>1, <2>2, <2>3, Zenon DEF Active
  <2>5. Logged' = Logged
    BY <2>1, Zenon DEF Logged
  <2>6. \A q \in Active' : IsFiniteSet(wrote'[q]) /\ wrote'[q] \subseteq Logged' /\ Cardinality(wrote'[q]) <= OpWrites
    <3>1. IsFiniteSet({}) /\ Cardinality({}) = 0
      BY FS_EmptySet, Zenon
    <3>2. 0 <= OpWrites
      BY LogAssumption, SMTT(30)
    <3> QED BY <2>3, <2>4, <2>5, <3>1, <3>2, Zenon DEF RoomInv
  <2>7. outstanding \in Nat /\ outstanding + 1 = Cardinality(Active')
    <3>1. outstanding = Cardinality(Active) /\ outstanding \in Nat
      BY Zenon DEF LogInv, CallsCounted, TypeOK
    <3> QED BY <2>3, <3>1, CountUp, Zenon
  <2>8. Len(lh) \in Nat
    <3>1. lh \in Seq(Blocks)
      BY Zenon DEF LogInv, TypeOK
    <3> QED BY <3>1, SMTT(30), SMTT(60)
  <2>9. Cardinality(Room') \in Nat /\ Cardinality(Room') <= (outstanding + 1) * OpWrites
    <3>1. Room' \in SUBSET (Active' \X (1 .. OpWrites))
      BY Zenon DEF Room
    <3>2. IsFiniteSet(Active')
      BY <2>3, ActiveFinite, FS_AddElement, Zenon
    <3> QED BY <2>7, <3>1, <3>2, RoomBound, Zenon
  <2>10. CASE outstanding = 0
    <3>1. lh = <<>>
      BY <1>2, <2>1, <2>10, IdleMeansEmpty, Zenon
    <3>2. Len(lh) = 0
      BY <3>1, SMTT(30), SMTT(60)
    <3>3. Len(lh) + Cardinality(Room') <= OpWrites
      BY <2>9, <2>10, <3>2, LogAssumption, SMTT(30), SMTT(60)
    <3> QED BY <2>1, <2>6, <3>3, Zenon DEF RoomInv
  <2>11. CASE outstanding # 0
    <3>1. Len(lh) + (outstanding + 1) * MAXOPBLOCKS <= LOGSIZE
      BY <1>2, <2>7, <2>8, LogAssumption, SMTT(30), SMTT(60) DEF LogFull
    <3> DEFINE d == MAXOPBLOCKS - OpWrites
               k == outstanding + 1
               c == Cardinality(Room')
    <3>2. d \in Nat /\ MAXOPBLOCKS = d + OpWrites /\ k \in Nat /\ k >= 2
      BY <2>7, <2>11, LogAssumption, SMTT(30), SMTT(60) DEF OpsFit
    <3>3. k * MAXOPBLOCKS = k * d + k * OpWrites /\ 2 * d <= k * d
      <4>1. d \in Nat /\ k \in Nat /\ k >= 2 /\ OpWrites \in Nat /\ MAXOPBLOCKS = d + OpWrites
        BY <3>2, LogAssumption, Zenon
      <4> HIDE DEF d, k
      <4>2. k * (d + OpWrites) = k * d + k * OpWrites
        BY <4>1, SMTT(30)
      <4>3. PICK j \in Nat : k = j + 2
        BY <4>1, SMTT(30), SMTT(60)
      <4>4. (j + 2) * d = j * d + 2 * d /\ j * d \in Nat
        BY <4>1, SMTT(30)
      <4> QED BY <4>1, <4>2, <4>3, <4>4, SMTT(30), SMTT(60)
    <3>4. Len(lh) + k * MAXOPBLOCKS <= LOGSIZE /\ c <= k * OpWrites /\ c \in Nat
      BY <2>9, <3>1, Zenon
    <3>5. k * d \in Nat /\ k * OpWrites \in Nat
      <4>1. d \in Nat /\ k \in Nat /\ OpWrites \in Nat
        BY <3>2, LogAssumption, Zenon
      <4> HIDE DEF d, k
      <4> QED BY <4>1, SMTT(30)
    <3>6. Len(lh) + c + 2 * d <= LOGSIZE
      <4>1. d \in Nat /\ LOGSIZE \in Nat
        BY <3>2, LogAssumption, Zenon
      <4> HIDE DEF d, k, c
      <4> QED BY <2>8, <3>3, <3>4, <3>5, <4>1, SMTT(30), SMTT(60)
    <3> QED BY <2>1, <2>6, <3>6, Zenon DEF RoomInv
  <2> QED BY <2>10, <2>11, Zenon
<1> QED BY <1>1, <1>2, Zenon DEF LogInv, TypeOK

\* log_write() uses the room of its call for a block that it adds to log.lh,
\* and none for a block that is absorbed.
LEMMA LogWriteRoom ==
  ASSUME LogInv, RoomInv, OpsFit, NEW p \in Procs, NEW v \in Vals, log_write(p, v)
  PROVE  RoomInv' /\ panicked' = panicked
<1> DEFINE b == buf[p]
           c == Cardinality(wrote[p])
<1>1. pc[p] = "hold" /\ b \in Blocks /\ Cardinality(wrote[p] \cup {b}) <= OpWrites
  BY Zenon DEF log_write, LogInv, CallsCounted
<1>2. p \in Active /\ stage = "none" /\ committing = 0 /\ outstanding >= 1
  BY <1>1, ActiveMeansQuiet, Zenon DEF Active, InOp
<1>3. outstanding > 0 /\ ~(outstanding < 1)
  <2>1. outstanding \in Nat
    BY Zenon DEF LogInv, TypeOK
  <2> QED BY <1>2, <2>1, SMTT(30), SMTT(60)
<1>4. ~TooBig
  BY <1>3, NotTooBig, Zenon
<1>5. /\ lh' = Absorb(b) /\ pc' = [pc EXCEPT ![p] = "logged"] /\ wrote' = [wrote EXCEPT ![p] = @ \cup {b}]
      /\ panicked' = panicked /\ outstanding' = outstanding
  BY <1>3, <1>4, Zenon DEF log_write
<1>6. /\ pc \in [Procs -> {"idle", "begin", "sleeping", "commit"} \cup InOp] /\ wrote \in [Procs -> SUBSET Blocks]
      /\ lh \in Seq(Blocks)
  BY Zenon DEF LogInv, TypeOK
<1>7. Active' = Active
  BY <1>1, <1>5, <1>6, Zenon DEF Active, InOp
<1>8. wrote'[p] = wrote[p] \cup {b} /\ \A q \in Active : q # p => wrote'[q] = wrote[q]
  BY <1>5, <1>6, Zenon DEF Active
<1>9. IsFiniteSet(wrote[p]) /\ wrote[p] \subseteq Logged /\ c <= OpWrites /\ c \in Nat
  BY <1>2, FS_CardinalityType, Zenon DEF RoomInv
<1>10. Logged \subseteq Logged' /\ b \in Logged'
  <2>1. CASE b \in Logged
    BY <1>5, <2>1, Zenon DEF Absorb, Logged
  <2>2. CASE b \notin Logged
    <3>1. lh' = Append(lh, b)
      BY <1>5, <2>2, Zenon DEF Absorb
    <3>2. /\ DOMAIN lh \subseteq DOMAIN lh' /\ \A i \in DOMAIN lh : lh'[i] = lh[i]
          /\ Len(lh) + 1 \in DOMAIN lh' /\ lh'[Len(lh) + 1] = b
      BY <1>1, <1>6, <3>1, SMTT(30), SMTT(60)
    <3> QED BY <3>2, Zenon DEF Logged
  <2> QED BY <2>1, <2>2, Zenon
<1>11. Len(lh) \in Nat /\ Len(lh') \in Nat /\ (lh' = lh \/ Len(lh') = Len(lh) + 1) /\ (b \in wrote[p] => lh' = lh)
  <2>1. lh' = lh \/ lh' = Append(lh, b)
    BY <1>5, Zenon DEF Absorb
  <2>2. Len(lh) \in Nat /\ (lh' = Append(lh, b) => Len(lh') = Len(lh) + 1)
    BY <1>1, <1>6, SMTT(30), SMTT(60)
  <2>3. Len(lh') \in Nat
    BY <2>1, <2>2, SMTT(30)
  <2> QED BY <1>5, <1>9, <2>1, <2>2, <2>3, Zenon DEF Absorb
<1>12. \A q \in Active' : IsFiniteSet(wrote'[q]) /\ wrote'[q] \subseteq Logged' /\ Cardinality(wrote'[q]) <= OpWrites
  <2>1. IsFiniteSet(wrote[p] \cup {b})
    BY <1>9, FS_AddElement, Zenon
  <2> QED BY <1>1, <1>7, <1>8, <1>9, <1>10, <2>1, Zenon DEF RoomInv
<1>13. IsFiniteSet(Room) /\ Cardinality(Room) \in Nat
  BY RoomFinite, Zenon
<1>14. Cardinality(Room') \in Nat /\ Len(lh') + Cardinality(Room') <= Len(lh) + Cardinality(Room)
  <2>1. CASE b \in wrote[p]
    <3>1. wrote[p] \cup {b} = wrote[p] /\ lh' = lh
      BY <1>11, <2>1, Zenon
    <3>2. Room' = Room
      BY <1>7, <1>8, <3>1, Zenon DEF Room
    <3> QED BY <1>11, <1>13, <3>1, <3>2, SMTT(30), SMTT(60)
  <2>2. CASE b \notin wrote[p]
    <3>1. Cardinality(wrote'[p]) = c + 1
      BY <1>8, <1>9, <2>2, FS_AddElement, Zenon
    <3>2. c + 1 \in 1 .. OpWrites /\ c + 1 > c
      BY <1>1, <1>8, <1>9, <3>1, LogAssumption, SMTT(30)
    <3>3. <<p, c + 1>> \in Room
      BY <1>2, <3>2, Zenon DEF Room
    <3>4. \A n \in 1 .. OpWrites : n > c + 1 <=> n > c /\ n # c + 1
      BY <1>9, LogAssumption, SMTT(30)
    <3>5. Room' = Room \ {<<p, c + 1>>}
      <4>1. ASSUME NEW x \in Active \X (1 .. OpWrites)
            PROVE  x[2] > Cardinality(wrote'[x[1]]) <=> x[2] > Cardinality(wrote[x[1]]) /\ x # <<p, c + 1>>
        <5>1. PICK q \in Active, n \in 1 .. OpWrites : x = <<q, n>>
          BY <4>1, SMTT(30), SMTT(60)
        <5>2. x[1] = q /\ x[2] = n /\ (x = <<p, c + 1>> <=> q = p /\ n = c + 1)
          BY <5>1, SMTT(30)
        <5>3. CASE q = p
          BY <3>1, <3>4, <5>2, <5>3, Zenon
        <5>4. CASE q # p
          BY <1>8, <5>2, <5>4, Zenon
        <5> QED BY <5>3, <5>4, Zenon
      <4> QED BY <1>7, <4>1, Zenon DEF Room
    <3>6. Cardinality(Room') = Cardinality(Room) - 1 /\ Cardinality(Room') \in Nat
      BY <1>13, <3>3, <3>5, FS_RemoveElement, FS_CardinalityType, Zenon
    <3> QED BY <1>11, <1>13, <3>6, SMTT(30), SMTT(60)
  <2> QED BY <2>1, <2>2, Zenon
<1>15. \/ Len(lh) + Cardinality(Room) <= OpWrites
       \/ Len(lh) + Cardinality(Room) + 2 * (MAXOPBLOCKS - OpWrites) <= LOGSIZE
  BY <1>3, Zenon DEF RoomInv
<1>16. \/ Len(lh') + Cardinality(Room') <= OpWrites
       \/ Len(lh') + Cardinality(Room') + 2 * (MAXOPBLOCKS - OpWrites) <= LOGSIZE
  BY <1>11, <1>13, <1>14, <1>15, LogAssumption, SMTT(30), SMTT(60)
<1> QED BY <1>5, <1>12, <1>16, Zenon DEF RoomInv

\* end_op() gives the room of its call back.
LEMMA EndRoom == ASSUME LogInv, RoomInv, NEW p \in Procs, end_op(p) PROVE RoomInv' /\ panicked' = panicked
<1>1. pc[p] = "op" /\ committing = 0 /\ outstanding >= 1 /\ p \in Active
  BY ActiveMeansQuiet, Zenon DEF end_op, InOp, Active
<1>2. committing # 1
  BY <1>1, SMTT(30)
<1>3. /\ outstanding' = outstanding - 1 /\ lh' = lh /\ wrote' = wrote /\ panicked' = panicked
      /\ pc' = [pc EXCEPT ![p] = "commit"] \/ pc' = wakeup([pc EXCEPT ![p] = "idle"])
  BY <1>2, Zenon DEF end_op
<1>4. Active' \subseteq Active
  <2>1. pc \in [Procs -> {"idle", "begin", "sleeping", "commit"} \cup InOp]
    BY Zenon DEF LogInv, TypeOK
  <2> QED BY <1>3, <2>1, Zenon DEF Active, wakeup, InOp
<1>5. Room' \in SUBSET Room /\ Logged' = Logged
  BY <1>3, <1>4, Zenon DEF Room, Logged
<1>6. Cardinality(Room') \in Nat /\ Cardinality(Room) \in Nat /\ Cardinality(Room') <= Cardinality(Room)
  BY <1>5, RoomFinite, FS_Subset, FS_CardinalityType, Zenon
<1>7. Len(lh) \in Nat /\ outstanding \in Nat
  <2>1. lh \in Seq(Blocks) /\ outstanding \in Nat
    BY Zenon DEF LogInv, TypeOK
  <2> QED BY <2>1, SMTT(30), SMTT(60)
<1>8. outstanding > 0
  BY <1>1, <1>7, SMTT(30)
<1>9. \/ Len(lh) + Cardinality(Room) <= OpWrites
      \/ Len(lh) + Cardinality(Room) + 2 * (MAXOPBLOCKS - OpWrites) <= LOGSIZE
  BY <1>8, Zenon DEF RoomInv
<1>10. \/ Len(lh) + Cardinality(Room') <= OpWrites
       \/ Len(lh) + Cardinality(Room') + 2 * (MAXOPBLOCKS - OpWrites) <= LOGSIZE
  BY <1>6, <1>7, <1>9, LogAssumption, SMTT(30), SMTT(60)
<1>11. \A q \in Active' : IsFiniteSet(wrote'[q]) /\ wrote'[q] \subseteq Logged' /\ Cardinality(wrote'[q]) <= OpWrites
  BY <1>3, <1>4, <1>5, Zenon DEF RoomInv
<1> QED BY <1>3, <1>10, <1>11, Zenon DEF RoomInv

\* commit(), recovery and the buffer cache change nothing of a call under way.
LEMMA OtherRoom ==
  ASSUME LogInv, RoomInv, Next,
         ~\E p \in Procs : begin_op(p) \/ end_op(p) \/ \E v \in Vals : log_write(p, v)
  PROVE  RoomInv' /\ panicked' \in {panicked, "no"}
<1>t. pc \in [Procs -> {"idle", "begin", "sleeping", "commit"} \cup InOp]
  BY Zenon DEF LogInv, TypeOK
<1>1. ASSUME NEW p \in Procs, brelse(p) \/ \E b \in Blocks : bread(p, b)
      PROVE  RoomInv' /\ panicked' = panicked
  <2>1. lh' = lh /\ outstanding' = outstanding /\ wrote' = wrote /\ panicked' = panicked /\ pc[p] \in InOp
        /\ (pc' = [pc EXCEPT ![p] = "op"] \/ pc' = [pc EXCEPT ![p] = "hold"])
    BY <1>1, Zenon DEF brelse, bread, logVars, InOp
  <2>2. Active' = Active
    BY <1>t, <2>1, Zenon DEF Active, InOp
  <2> QED BY <2>1, <2>2, RoomKept, Zenon
<1>2. ASSUME NEW b \in Blocks, Recycle(b) PROVE RoomInv' /\ panicked' = panicked
  <2>1. lh' = lh /\ outstanding' = outstanding /\ wrote' = wrote /\ panicked' = panicked /\ pc' = pc
    BY <1>2, Zenon DEF Recycle, logVars, threadVars
  <2>2. Active' = Active
    BY <2>1, Zenon DEF Active
  <2> QED BY <2>1, <2>2, RoomKept, Zenon
<1>3. ASSUME outstanding = 0, outstanding' = 0, Active' = Active, panicked' \in {panicked, "no"}
      PROVE  RoomInv' /\ panicked' \in {panicked, "no"}
  <2>1. Active = {}
    <3>1. Cardinality(Active) = 0
      BY <1>3, Zenon DEF LogInv, CallsCounted
    <3> QED BY <3>1, ActiveFinite, FS_EmptySet, Zenon
  <2>2. ~(0 > 0)
    BY SMTT(30)
  <2> QED BY <1>3, <2>1, <2>2, Zenon DEF RoomInv
<1>4. CASE CommitStep
  <2>1. outstanding = 0
    <3>1. stage \in {"write_log", "write_head", "install", "erase"} \/ ~Up
      BY <1>4, Zenon DEF CommitStep, write_log, write_head, install_trans, Installed, EraseHead, read_head, Up
    <3> QED BY <3>1, Zenon DEF LogInv, CallsCounted
  <2>2. outstanding' = outstanding /\ pc' = pc /\ panicked' = panicked
    BY <1>4, Zenon DEF CommitStep, write_log, write_head, install_trans, Installed, EraseHead, read_head,
                       logVars, threadVars
  <2>3. Active' = Active
    BY <2>2, Zenon DEF Active
  <2> QED BY <1>3, <2>1, <2>2, <2>3, Zenon
<1>5. ASSUME NEW p \in Procs, EndCommit(p) PROVE RoomInv' /\ panicked' \in {panicked, "no"}
  <2>1. outstanding = 0
    BY <1>5, Zenon DEF EndCommit, LogInv, CallsCounted
  <2>2. outstanding' = outstanding /\ pc' = wakeup([pc EXCEPT ![p] = "idle"]) /\ panicked' = panicked
        /\ pc[p] = "commit"
    BY <1>5, Zenon DEF EndCommit
  <2>3. Active' = Active
    BY <1>t, <2>2, Zenon DEF Active, wakeup, InOp
  <2> QED BY <1>3, <2>1, <2>2, <2>3, Zenon
<1>6. CASE Crash
  <2>1. outstanding' = 0 /\ panicked' = "no" /\ pc' = [p \in Procs |-> "idle"]
    BY <1>6, Zenon DEF Crash
  <2>2. Active' = {}
    BY <2>1, Zenon DEF Active, InOp
  <2>3. ~(0 > 0)
    BY SMTT(30)
  <2> QED BY <2>1, <2>2, <2>3, Zenon DEF RoomInv
<1> QED BY <1>1, <1>2, <1>4, <1>5, <1>6, Zenon DEF Next

\* begin_op()'s reservation works: when a call logs no more distinct blocks
\* than OpsFit allows, log_write() never finds the log full, and neither it
\* nor end_op() ever meets its other panic.
THEOREM PanicFree == ASSUME OpsFit PROVE Spec => []NoPanic
<1>1. Init => RoomInv /\ NoPanic
  <2> SUFFICES ASSUME Init PROVE RoomInv /\ NoPanic
    OBVIOUS
  <2>1. outstanding = 0 /\ panicked = "no" /\ pc = [p \in Procs |-> "idle"]
    BY Zenon DEF Init
  <2>2. Active = {}
    BY <2>1, Zenon DEF Active, InOp
  <2>3. ~(0 > 0)
    BY SMTT(30)
  <2> QED BY <2>1, <2>2, <2>3, Zenon DEF RoomInv, NoPanic, Running
<1>2. LogInv /\ RoomInv /\ NoPanic /\ [Next]_vars => RoomInv' /\ NoPanic'
  <2> SUFFICES ASSUME LogInv, RoomInv, NoPanic, [Next]_vars PROVE RoomInv' /\ NoPanic'
    OBVIOUS
  <2>1. ASSUME RoomInv', panicked' \in {panicked, "no"} PROVE RoomInv' /\ NoPanic'
    BY <2>1, Zenon DEF NoPanic, Running
  <2>2. ASSUME NEW p \in Procs, begin_op(p) PROVE RoomInv' /\ NoPanic'
    <3>1. panicked' = panicked
      BY <2>2, Zenon DEF begin_op
    <3> QED BY <2>1, <2>2, <3>1, BeginRoom, Zenon
  <2>3. ASSUME NEW p \in Procs, end_op(p) PROVE RoomInv' /\ NoPanic'
    BY <2>1, <2>3, EndRoom, Zenon
  <2>4. ASSUME NEW p \in Procs, NEW v \in Vals, log_write(p, v) PROVE RoomInv' /\ NoPanic'
    BY <2>1, <2>4, LogWriteRoom, Zenon
  <2>5. CASE Next
    BY <2>1, <2>2, <2>3, <2>4, <2>5, OtherRoom, Zenon
  <2>6. CASE UNCHANGED vars
    <3>1. lh' = lh /\ pc' = pc /\ outstanding' = outstanding /\ wrote' = wrote /\ panicked' = panicked
      BY <2>6, Zenon DEF vars, logVars, threadVars
    <3>2. Active' = Active
      BY <3>1, Zenon DEF Active
    <3> QED BY <2>1, <3>1, <3>2, RoomKept, Zenon
  <2> QED BY <2>5, <2>6, Zenon
<1> QED BY <1>1, <1>2, LogInvariant, PTL DEF Spec
==============================================================================
