------------------------------ MODULE LogProofs ------------------------------
(***************************************************************************)
(* Proofs about Log, for any processes, blocks and sizes that fit: the log    *)
(* never overflows, nobody sleeps for ever in begin_op(), the last end_op()    *)
(* leaves everything on disk, and the log implements an atomic disk.          *)
(***************************************************************************)
EXTENDS Log, FiniteSetTheorems, SequenceTheorems, TLAPS

Committers == {p \in Procs : pc[p] \in {"writelog", "writehead", "install", "clear", "finish"}}
Live == {p \in Procs : pc[p] \in {"op", "append"}}

\* What the operations of L, which have written w, may still write.
Res(L, w) == {x \in L \X (1..MAXOPBLOCKS) : Cardinality(w[x[1]]) < x[2]}
Reserved == Res(Live, wrote)
Slack == MAXOPBLOCKS - OpBlocks

\* More blocks than these never get into the log.
Most == IF OpBlocks > LOGSIZE - 2 * Slack THEN OpBlocks ELSE LOGSIZE - 2 * Slack

Counted == outstanding = Cardinality(Live)

\* Who is where: nobody while the machine boots; one commits, and no operation runs then.
Phases ==
  /\ boot # "up" => ~committing /\ \A p \in Procs : pc[p] = "idle"
  /\ committing => Live = {} /\ \E p \in Procs : Committers = {p}
  /\ ~committing => Committers = {}
  /\ boot = "up" /\ ~committing /\ Live = {} => lh = <<>>

\* What the operations have written is logged, and no more than they may.
Writes ==
  \A p \in Procs :
    /\ wrote[p] \subseteq Logged
    /\ IsFiniteSet(wrote[p]) /\ Cardinality(wrote[p]) <= OpBlocks
    /\ p \notin Live => wrote[p] = {}
    /\ IF pc[p] = "append"
       THEN cur[p] \in Blocks /\ Cardinality(wrote[p] \cup {cur[p]}) <= OpBlocks
       ELSE cur[p] = NoBlock

\* The room that begin_op() reserved is there; it is more than the operations use
\* unless only one is left of those that began, or only one began.
Slots ==
  Live # {} =>
    /\ Len(lh) + Cardinality(Reserved) <= LOGSIZE
    /\ outstanding = 1 =>
         \/ Len(lh) + Cardinality(Reserved) <= LOGSIZE - Slack
         \/ Len(lh) + Cardinality(Reserved) <= MAXOPBLOCKS

Bounded == Len(lh) <= Most /\ Len(hdr) <= Most

Wakers == \A p \in Procs : pc[p] = "asleep" => outstanding > 0 \/ committing

At(l) == \E p \in Procs : pc[p] = l
Copied(n) == \A i \in 1..Len(lh) : i < n => logd[i] = cache[lh[i]]
Installed(n) == \A i \in 1..Len(lh) : i < n => home[lh[i]] = logd[i]

\* A block on disk is old only if it is logged, or about to be.
Homes ==
  \A b \in Blocks :
    cache[b] # home[b] => \/ \E i \in 1..Len(lh) : lh[i] = b
                          \/ \E p \in Procs : pc[p] = "append" /\ cur[p] = b

\* What is on disk at each point of a commit and of recovery.
Disk ==
  /\ boot = "up" =>
       /\ Homes
       /\ ~At("install") /\ ~At("clear") => hdr = <<>>
       /\ At("writelog") => Copied(tail)
       /\ At("writehead") => Copied(nlog)
       /\ At("install") => hdr = lh /\ Copied(nlog) /\ Installed(tail)
       /\ At("clear") => hdr = lh /\ Copied(nlog) /\ Installed(nlog)
       /\ At("finish") => lh = <<>>
  /\ boot # "up" => cache = home
  /\ boot = "readhead" => lh = <<>> /\ tail = 1
  /\ boot = "install" => hdr = lh /\ Installed(tail)
  /\ boot = "clear" => hdr = lh /\ Installed(nlog)
  /\ \A i, j \in 1..Len(hdr) : hdr[i] = hdr[j] => logd[i] = logd[j]

LogInv == TypeOK /\ Counted /\ Phases /\ Writes /\ Slots /\ Bounded /\ Wakers /\ Disk

-----------------------------------------------------------------------------
(* Reservations. *)

LEMMA MostFits ==
  /\ Slack \in Nat \ {0} /\ Most \in Nat
  /\ Most < LOGSIZE /\ Most + 1 < nlog /\ OpBlocks <= Most /\ LOGSIZE - 2 * Slack <= Most
BY SizesAssumption, FitsAssumption DEF Slack, Most

LEMMA ResFinite ==
  ASSUME NEW L, IsFiniteSet(L), NEW w
  PROVE  /\ IsFiniteSet(Res(L, w)) /\ Cardinality(Res(L, w)) \in Nat
         /\ Cardinality(Res(L, w)) <= Cardinality(L) * MAXOPBLOCKS
<1> DEFINE S == 1..MAXOPBLOCKS
<1>1. IsFiniteSet(S) /\ Cardinality(S) = MAXOPBLOCKS
  BY SizesAssumption, FS_Interval
<1>2. IsFiniteSet(L \X S) /\ Cardinality(L \X S) = Cardinality(L) * Cardinality(S)
  BY <1>1, FS_Product
<1>3. Res(L, w) \in SUBSET (L \X S)
  BY DEF Res
<1> HIDE DEF S
<1>4. IsFiniteSet(Res(L, w)) /\ Cardinality(Res(L, w)) <= Cardinality(L \X S)
  BY <1>2, <1>3, FS_Subset
<1>5. QED
  BY <1>1, <1>2, <1>4, FS_CardinalityType

\* Every operation keeps Slack blocks of its reservation.
LEMMA SlackOf ==
  ASSUME NEW L, NEW w, NEW P \in SUBSET L, IsFiniteSet(P),
         \A p \in P : Cardinality(w[p]) \in 0..OpBlocks
  PROVE  /\ P \X ((OpBlocks + 1)..MAXOPBLOCKS) \subseteq Res(L, w)
         /\ IsFiniteSet(P \X ((OpBlocks + 1)..MAXOPBLOCKS))
         /\ Cardinality(P \X ((OpBlocks + 1)..MAXOPBLOCKS)) = Cardinality(P) * Slack
<1> DEFINE S == (OpBlocks + 1)..MAXOPBLOCKS
<1>1. IsFiniteSet(S) /\ Cardinality(S) = Slack
  <2>1. /\ OpBlocks + 1 \in Int /\ MAXOPBLOCKS \in Int /\ ~(OpBlocks + 1 > MAXOPBLOCKS)
        /\ MAXOPBLOCKS - (OpBlocks + 1) + 1 = Slack
    BY SizesAssumption, FitsAssumption DEF Slack
  <2>2. QED
    BY <2>1, FS_Interval
<1>2. S \subseteq 1..MAXOPBLOCKS /\ \A p \in P, k \in S : Cardinality(w[p]) < k
  BY SizesAssumption
<1>3. P \X S \subseteq Res(L, w)
  <2> SUFFICES ASSUME NEW p \in P, NEW k \in S PROVE <<p, k>> \in Res(L, w)
    OBVIOUS
  <2>1. k \in 1..MAXOPBLOCKS /\ Cardinality(w[p]) < k /\ p \in L
    BY <1>2
  <2> HIDE DEF S
  <2>2. QED
    BY <2>1 DEF Res
<1> HIDE DEF S
<1>4. IsFiniteSet(P \X S) /\ Cardinality(P \X S) = Cardinality(P) * Cardinality(S)
  BY <1>1, FS_Product
<1>5. QED
  BY <1>1, <1>3, <1>4 DEF S

LEMMA ResAtLeast ==
  ASSUME NEW L, IsFiniteSet(L), NEW w, \A p \in L : Cardinality(w[p]) \in 0..OpBlocks
  PROVE  /\ L # {} => Cardinality(Res(L, w)) >= Slack
         /\ L # {} /\ Cardinality(L) # 1 => Cardinality(Res(L, w)) >= 2 * Slack
<1>1. ASSUME NEW P \in SUBSET L, IsFiniteSet(P)
      PROVE  Cardinality(P) * Slack <= Cardinality(Res(L, w))
  <2> DEFINE T == P \X ((OpBlocks + 1)..MAXOPBLOCKS)
  <2>1. T \in SUBSET Res(L, w) /\ Cardinality(T) = Cardinality(P) * Slack
    BY <1>1, SlackOf
  <2> HIDE DEF T
  <2>2. Cardinality(T) <= Cardinality(Res(L, w))
    BY <2>1, ResFinite, FS_Subset
  <2>3. QED
    BY <2>1, <2>2
<1>2. ASSUME NEW p \in L PROVE Cardinality(Res(L, w)) >= Slack
  <2>1. IsFiniteSet({p}) /\ Cardinality({p}) = 1 /\ {p} \in SUBSET L
    BY FS_Singleton
  <2>2. 1 * Slack <= Cardinality(Res(L, w))
    BY <1>1, <2>1
  <2>3. QED
    BY <2>2, MostFits, ResFinite
<1>3. ASSUME NEW p \in L, NEW q \in L, p # q PROVE Cardinality(Res(L, w)) >= 2 * Slack
  <2>1. IsFiniteSet({p}) /\ Cardinality({p}) = 1
    BY FS_Singleton
  <2>2. IsFiniteSet({p} \cup {q}) /\ Cardinality({p} \cup {q}) = 2
    <3>1. q \notin {p}
      BY <1>3
    <3>2. IsFiniteSet({p} \cup {q}) /\ Cardinality({p} \cup {q}) = Cardinality({p}) + 1
      BY <2>1, <3>1, FS_AddElement
    <3>3. QED
      BY <2>1, <3>2
  <2>3. {p} \cup {q} \in SUBSET L
    OBVIOUS
  <2>4. 2 * Slack <= Cardinality(Res(L, w))
    BY <1>1, <2>2, <2>3
  <2>5. QED
    BY <2>4, MostFits, ResFinite
<1>4. ASSUME L # {}, Cardinality(L) # 1 PROVE \E p, q \in L : p # q
  <2>1. PICK p \in L : TRUE
    BY <1>4
  <2>2. L # {p}
    BY <1>4, FS_Singleton
  <2>3. QED
    BY <2>1, <2>2
<1>5. QED
  BY <1>2, <1>3, <1>4

\* A block that is written takes one of the reservation.
LEMMA ResTake ==
  ASSUME NEW L, IsFiniteSet(L), NEW p \in L, NEW b,
         NEW w, IsFiniteSet(w[p]), b \notin w[p], Cardinality(w[p]) < MAXOPBLOCKS,
         NEW v, v[p] = w[p] \cup {b}, \A q \in L : q # p => v[q] = w[q]
  PROVE  Cardinality(Res(L, v)) = Cardinality(Res(L, w)) - 1
<1> DEFINE c == Cardinality(w[p])
<1>1. c \in Nat /\ Cardinality(v[p]) = c + 1
  BY FS_AddElement, FS_CardinalityType
<1> HIDE DEF c
<1>2. c = Cardinality(w[p])
  BY DEF c
<1>3. c + 1 \in 1..MAXOPBLOCKS
  BY <1>1, <1>2, SizesAssumption
<1>4. <<p, c + 1>> \in Res(L, w)
  <2>1. <<p, c + 1>> \in L \X (1..MAXOPBLOCKS) /\ c < c + 1
    BY <1>1, <1>3
  <2>2. QED
    BY <1>2, <2>1 DEF Res
<1>5. Res(L, v) = Res(L, w) \ {<<p, c + 1>>}
  <2>1. ASSUME NEW q \in L, NEW k \in 1..MAXOPBLOCKS
        PROVE  Cardinality(v[q]) < k <=> Cardinality(w[q]) < k /\ <<q, k>> # <<p, c + 1>>
    <3>1. CASE q = p
      <4>1. c + 1 < k <=> c < k /\ k # c + 1
        BY <1>1, SizesAssumption
      <4>2. QED
        BY <1>1, <1>2, <3>1, <4>1
    <3>2. CASE q # p
      BY <3>2
    <3>3. QED
      BY <3>1, <3>2
  <2>2. QED
    BY <2>1 DEF Res
<1>6. IsFiniteSet(Res(L, w)) /\ Cardinality(Res(L, w)) \in Nat
  BY ResFinite
<1>7. Cardinality(Res(L, w) \ {<<p, c + 1>>}) = Cardinality(Res(L, w)) - 1
  <2>1. PICK R, x : R = Res(L, w) /\ x = <<p, c + 1>>
    OBVIOUS
  <2>2. IsFiniteSet(R) /\ x \in R
    BY <1>4, <1>6, <2>1
  <2>3. Cardinality(R \ {x}) = Cardinality(R) - 1
    BY <2>2, FS_RemoveElement
  <2>4. QED
    BY <2>1, <2>3
<1>8. QED
  BY <1>5, <1>7

\* An operation that ends gives back at least its slack.
LEMMA ResEnd ==
  ASSUME NEW L, IsFiniteSet(L), NEW p \in L, NEW w, Cardinality(w[p]) \in 0..OpBlocks,
         NEW v, \A q \in L : q # p => v[q] = w[q]
  PROVE  Cardinality(Res(L \ {p}, v)) <= Cardinality(Res(L, w)) - Slack
<1> DEFINE T == {p} \X ((OpBlocks + 1)..MAXOPBLOCKS)
           R == Res(L \ {p}, v)
<1>1. IsFiniteSet({p}) /\ Cardinality({p}) = 1 /\ {p} \in SUBSET L
  BY FS_Singleton
<1>2. T \subseteq Res(L, w) /\ IsFiniteSet(T) /\ Cardinality(T) = 1 * Slack
  <2>1. PICK P \in SUBSET L : P = {p}
    BY <1>1
  <2>2. IsFiniteSet(P) /\ Cardinality(P) = 1 /\ \A q \in P : Cardinality(w[q]) \in 0..OpBlocks
    BY <1>1, <2>1
  <2>3. /\ P \X ((OpBlocks + 1)..MAXOPBLOCKS) \subseteq Res(L, w)
        /\ IsFiniteSet(P \X ((OpBlocks + 1)..MAXOPBLOCKS))
        /\ Cardinality(P \X ((OpBlocks + 1)..MAXOPBLOCKS)) = Cardinality(P) * Slack
    BY <2>1, <2>2, SlackOf
  <2>4. QED
    BY <2>1, <2>2, <2>3
<1>3. IsFiniteSet(L \ {p})
  BY FS_RemoveElement
<1>4. IsFiniteSet(R) /\ Cardinality(R) \in Nat
  BY <1>3, ResFinite
<1>5. R \subseteq Res(L, w) /\ R \cap T = {}
  BY DEF Res
<1> HIDE DEF T, R
<1>6. IsFiniteSet(R \cup T)
      /\ Cardinality(R \cup T) = Cardinality(R) + Cardinality(T) - Cardinality({})
  BY <1>2, <1>4, <1>5, FS_Union
<1>7. Cardinality(R \cup T) <= Cardinality(Res(L, w)) /\ Cardinality(Res(L, w)) \in Nat
  <2>1. R \cup T \in SUBSET Res(L, w)
    BY <1>2, <1>5
  <2>2. QED
    BY <2>1, ResFinite, FS_Subset
<1>8. Cardinality({}) = 0
  BY FS_EmptySet
<1>9. Cardinality(R) <= Cardinality(Res(L, w)) - Slack
  BY <1>2, <1>4, <1>6, <1>7, <1>8, MostFits
<1>10. QED
  BY <1>9 DEF R

-----------------------------------------------------------------------------
(* What is known where.                                                      *)

Running(p) == Call(p) \/ BeginSleep(p) \/ BeginOp(p) \/ LogWriteCheck(p) \/ LogWriteAppend(p)

LEMMA LiveFacts ==
  ASSUME TypeOK, Counted
  PROVE  /\ IsFiniteSet(Live) /\ Cardinality(Live) \in Nat
         /\ Live = {} <=> outstanding = 0
<1>1. Live \in SUBSET Procs
  BY DEF Live
<1>2. IsFiniteSet(Live)
  BY <1>1, FS_Subset, SizesAssumption
<1>3. Cardinality(Live) \in Nat /\ (Cardinality(Live) = 0 <=> Live = {})
  BY <1>2, FS_EmptySet, FS_CardinalityType
<1>4. QED
  BY <1>2, <1>3 DEF Counted

\* Who commits is alone.
LEMMA CommitterAlone ==
  ASSUME TypeOK, Counted, Phases, NEW p \in Procs,
         pc[p] \in {"writelog", "writehead", "install", "clear", "finish"}
  PROVE  /\ committing /\ boot = "up" /\ Live = {} /\ outstanding = 0
         /\ Committers = {p}
         /\ \A q \in Procs \ {p} : pc[q] \in {"idle", "begin", "asleep"}
<1>1. p \in Committers
  BY DEF Committers
<1>2. committing /\ boot = "up" /\ Live = {} /\ Committers = {p}
  BY <1>1 DEF Phases
<1>3. outstanding = 0
  BY <1>2, LiveFacts
<1>4. ASSUME NEW q \in Procs \ {p} PROVE pc[q] \in {"idle", "begin", "asleep"}
  <2>1. q \notin Committers /\ q \notin Live /\ pc[q] \in Labels
    BY <1>2 DEF TypeOK
  <2>2. QED
    BY <2>1 DEF Committers, Live, Labels
<1>5. QED
  BY <1>2, <1>3, <1>4

\* While an operation runs, or is about to be let in, the machine is up and nobody commits.
LEMMA OperationRuns ==
  ASSUME TypeOK, Phases, NEW p \in Procs, pc[p] \in {"op", "append"}
  PROVE  p \in Live /\ boot = "up" /\ ~committing /\ Committers = {}
BY DEF Phases, Live

\* How the set of the operations changes.
LEMMA LiveSame ==
  ASSUME TypeOK, NEW p \in Procs,
         \/ Call(p) \/ BeginSleep(p) \/ LogWriteCheck(p) \/ LogWriteAppend(p) \/ Commit(p)
  PROVE  Live' = Live
BY DEF TypeOK, Live, Call, BeginSleep, LogWriteCheck, LogWriteAppend, Commit, WriteLog,
       WriteHead, Install, ClearHead, Finish, Goto, Woken

LEMMA LiveBegins ==
  ASSUME TypeOK, NEW p \in Procs, BeginOp(p)
  PROVE  p \notin Live /\ Live' = Live \cup {p}
BY DEF TypeOK, Live, BeginOp, Goto

LEMMA LiveEnds ==
  ASSUME TypeOK, NEW p \in Procs, EndOp(p)
  PROVE  p \in Live /\ Live' = Live \ {p}
BY DEF TypeOK, Live, EndOp, Goto, Woken

LEMMA LiveRestarts ==
  ASSUME TypeOK, Phases, Crash \/ Recover
  PROVE  Live' = {} /\ Committers' = {} /\ \A p \in Procs : pc'[p] = "idle"
<1>1. \A p \in Procs : pc'[p] = "idle"
  BY DEF Phases, Crash, Recover, ReadHead, RecoverInstall, RecoverClear, ops
<1>2. QED
  BY <1>1 DEF Live, Committers

LEMMA LoggedBlocks ==
  ASSUME TypeOK
  PROVE  Len(lh) \in Nat /\ Len(hdr) \in Nat /\ \A i \in 1..Len(lh) : lh[i] \in Blocks
BY ElementOfSeq, LenProperties DEF TypeOK

\* log_write() appends a block only once.
LEMMA LoggedGrows ==
  ASSUME TypeOK, NEW b \in Blocks, IF b \in Logged THEN lh' = lh ELSE lh' = Append(lh, b)
  PROVE  /\ Logged' = Logged \cup {b} /\ lh' \in Seq(Blocks)
         /\ Len(lh') = IF b \in Logged THEN Len(lh) ELSE Len(lh) + 1
         /\ \A i \in 1..Len(lh) : lh'[i] = lh[i]
<1> lh \in Seq(Blocks) /\ Len(lh) \in Nat
  BY LoggedBlocks DEF TypeOK
<1>1. CASE b \in Logged
  BY <1>1 DEF Logged
<1>2. CASE b \notin Logged
  <2>1. /\ lh' \in Seq(Blocks) /\ Len(lh') = Len(lh) + 1 /\ lh'[Len(lh) + 1] = b
        /\ \A i \in 1..Len(lh) : lh'[i] = lh[i]
    BY <1>2, AppendProperties
  <2>2. Logged' = Logged \cup {b}
    <3>1. 1..Len(lh') = (1..Len(lh)) \cup {Len(lh) + 1}
      BY <2>1
    <3>2. QED
      BY <2>1, <3>1 DEF Logged
  <2>3. QED
    BY <1>2, <2>1, <2>2
<1>3. QED
  BY <1>1, <1>2

-----------------------------------------------------------------------------
(* Each action keeps the invariant. *)

LEMMA CountedKept ==
  ASSUME LogInv, Next
  PROVE  Counted' /\ outstanding' \in 0..Cardinality(Procs)
<1> TypeOK /\ Counted /\ Phases
  BY DEF LogInv
<1>1. Counted'
  <2>1. CASE Crash \/ Recover
    <3>1. outstanding' = 0
      <4>1. CASE Crash
        BY <4>1 DEF Crash
      <4>2. CASE Recover
        <5>1. outstanding' = outstanding /\ boot # "up"
          BY <4>2 DEF Recover, ReadHead, RecoverInstall, RecoverClear
        <5>2. Live = {}
          BY <5>1 DEF Phases, Live
        <5>3. QED
          BY <5>1, <5>2, LiveFacts
      <4>3. QED
        BY <2>1, <4>1, <4>2
    <3>2. QED
      BY <2>1, <3>1, LiveRestarts, FS_EmptySet DEF Counted
  <2>2. ASSUME NEW p \in Procs,
               \/ Call(p) \/ BeginSleep(p) \/ LogWriteCheck(p) \/ LogWriteAppend(p) \/ Commit(p)
        PROVE  Counted'
    <3>1. outstanding' = outstanding
      BY <2>2 DEF Call, BeginSleep, LogWriteCheck, LogWriteAppend, Commit, WriteLog,
                  WriteHead, Install, ClearHead, Finish
    <3>2. QED
      BY <2>2, <3>1, LiveSame DEF Counted
  <2>3. ASSUME NEW p \in Procs, BeginOp(p) PROVE Counted'
    <3>1. outstanding' = outstanding + 1
      BY <2>3 DEF BeginOp
    <3>2. p \notin Live /\ Live' = Live \cup {p} /\ IsFiniteSet(Live)
      BY <2>3, LiveBegins, LiveFacts
    <3>3. Cardinality(Live') = Cardinality(Live) + 1
      BY <3>2, FS_AddElement
    <3>4. QED
      BY <3>1, <3>3 DEF Counted
  <2>4. ASSUME NEW p \in Procs, EndOp(p) PROVE Counted'
    <3>1. outstanding' = outstanding - 1
      BY <2>4 DEF EndOp
    <3>2. p \in Live /\ Live' = Live \ {p} /\ IsFiniteSet(Live)
      BY <2>4, LiveEnds, LiveFacts
    <3>3. Cardinality(Live') = Cardinality(Live) - 1
      BY <3>2, FS_RemoveElement
    <3>4. QED
      BY <3>1, <3>3 DEF Counted
  <2>5. QED
    BY <2>1, <2>2, <2>3, <2>4 DEF Next, Proc, BeginSteps
<1>2. PICK L \in SUBSET Procs : L = Live'
  BY DEF Live
<1>3. IsFiniteSet(L) /\ Cardinality(L) <= Cardinality(Procs) /\ Cardinality(L) \in Nat
      /\ Cardinality(Procs) \in Nat
  BY SizesAssumption, FS_Subset, FS_CardinalityType
<1>4. QED
  BY <1>1, <1>2, <1>3 DEF Counted

LEMMA TypesKept ==
  ASSUME LogInv, Next
  PROVE  TypeOK'
<1> /\ TypeOK /\ Phases /\ Writes /\ outstanding' \in 0..Cardinality(Procs)
    /\ \A i \in 1..Len(lh) : lh[i] \in Blocks
    /\ Len(lh) \in Nat /\ Len(lh) + 1 < nlog /\ nlog \in Nat /\ tail \in 1..nlog
  <2>1. Len(lh) <= Most /\ Len(lh) \in Nat /\ \A i \in 1..Len(lh) : lh[i] \in Blocks
    BY LoggedBlocks DEF LogInv, Bounded
  <2>2. QED
    BY <2>1, MostFits, SizesAssumption, CountedKept DEF LogInv, TypeOK
<1>1. ASSUME NEW p \in Procs, Call(p) \/ BeginSleep(p) \/ BeginOp(p) \/ Finish(p) PROVE TypeOK'
  BY <1>1 DEF TypeOK, Call, BeginSleep, BeginOp, Finish, Goto, Woken, Labels, disk
<1>2. ASSUME NEW p \in Procs, LogWriteCheck(p) PROVE TypeOK'
  <2>1. cache' \in [Blocks -> Vals] /\ cur' \in [Procs -> Blocks \cup {NoBlock}]
    BY <1>2 DEF TypeOK, LogWriteCheck
  <2>2. QED
    BY <1>2, <2>1 DEF TypeOK, LogWriteCheck, Goto, Labels, disk
<1>3. ASSUME NEW p \in Procs, LogWriteAppend(p) PROVE TypeOK'
  <2>1. cur[p] \in Blocks
    BY <1>3 DEF LogWriteAppend, Writes
  <2>2. lh' \in Seq(Blocks)
    BY <1>3, <2>1, LoggedGrows DEF LogWriteAppend
  <2>3. QED
    BY <1>3, <2>1, <2>2 DEF TypeOK, LogWriteAppend, Goto, Labels, disk
<1>4. ASSUME NEW p \in Procs, EndOp(p) PROVE TypeOK'
  <2>1. pc' \in [Procs -> Labels]
    BY <1>4 DEF TypeOK, EndOp, Goto, Woken, Labels
  <2>2. tail' \in 1..nlog /\ wrote' \in [Procs -> SUBSET Blocks]
    BY <1>4 DEF TypeOK, EndOp
  <2>3. committing' \in BOOLEAN
    BY <1>4, Zenon DEF TypeOK, EndOp
  <2>4. QED
    BY <1>4, <2>1, <2>2, <2>3 DEF TypeOK, EndOp, disk
<1>5. ASSUME NEW p \in Procs, WriteLog(p) PROVE TypeOK'
  <2>1. CASE tail <= Len(lh)
    <3>1. tail \in 1..(nlog - 1) /\ cache[lh[tail]] \in Vals
      BY <2>1 DEF TypeOK
    <3>2. logd' \in [1..(nlog - 1) -> Vals] /\ tail' \in 1..nlog
      BY <1>5, <2>1, <3>1 DEF TypeOK, WriteLog
    <3>3. QED
      BY <1>5, <2>1, <3>2 DEF TypeOK, WriteLog
  <2>2. CASE ~(tail <= Len(lh))
    BY <1>5, <2>2 DEF TypeOK, WriteLog, Goto, Labels
  <2>3. QED
    BY <2>1, <2>2
<1>6. ASSUME NEW p \in Procs, WriteHead(p) PROVE TypeOK'
  BY <1>6 DEF TypeOK, WriteHead, Goto, Labels
<1>7. ASSUME InstallOne
      PROVE  /\ home' \in [Blocks -> Vals] /\ cache' \in [Blocks -> Vals] /\ tail' \in 1..nlog
             /\ UNCHANGED <<hdr, logd>>
  <2>1. tail \in 1..Len(lh) /\ lh[tail] \in Blocks /\ logd[tail] \in Vals
    BY <1>7 DEF InstallOne, TypeOK
  <2>2. QED
    BY <1>7, <2>1 DEF InstallOne, TypeOK
<1>8. ASSUME NEW p \in Procs, Install(p) PROVE TypeOK'
  BY <1>7, <1>8 DEF TypeOK, Install, Goto, Labels, disk
<1>9. ASSUME NEW p \in Procs, ClearHead(p) PROVE TypeOK'
  BY <1>9 DEF TypeOK, ClearHead, Goto, Labels
<1>10. CASE Crash
  <2>1. tail' \in 1..nlog /\ lh' \in Seq(Blocks)
    BY <1>10 DEF Crash
  <2>2. /\ pc' \in [Procs -> Labels] /\ wrote' \in [Procs -> SUBSET Blocks]
        /\ cur' \in [Procs -> Blocks \cup {NoBlock}]
    BY <1>10 DEF Crash, Labels
  <2>3. QED
    BY <1>10, <2>1, <2>2 DEF TypeOK, Crash, disk
<1>11. CASE ReadHead
  BY <1>11 DEF TypeOK, ReadHead, ops, disk
<1>12. CASE RecoverInstall
  BY <1>7, <1>12 DEF TypeOK, RecoverInstall, ops, disk
<1>13. CASE RecoverClear
  BY <1>13 DEF TypeOK, RecoverClear, ops
<1>14. QED
  BY <1>1, <1>2, <1>3, <1>4, <1>5, <1>6, <1>8, <1>9, <1>10, <1>11, <1>12, <1>13
     DEF Next, Proc, BeginSteps, Commit, Recover

LEMMA PhasesKept ==
  ASSUME LogInv, Next
  PROVE  Phases'
<1> TypeOK /\ Counted /\ Phases
  BY DEF LogInv
<1>1. ASSUME NEW p \in Procs, Call(p) \/ BeginSleep(p) \/ LogWriteCheck(p) \/ LogWriteAppend(p)
      PROVE  Phases'
  <2>1. /\ Live' = Live /\ UNCHANGED <<boot, committing>> /\ boot = "up"
        /\ Committers' = Committers
    BY <1>1, LiveSame DEF TypeOK, Phases, Committers, Call, BeginSleep, LogWriteCheck,
                          LogWriteAppend, Goto
  <2>2. Live # {} \/ lh' = lh
    BY <1>1 DEF Live, Call, BeginSleep, LogWriteCheck, LogWriteAppend
  <2>3. QED
    BY <2>1, <2>2 DEF Phases
<1>2. ASSUME NEW p \in Procs, BeginOp(p) PROVE Phases'
  <2>1. /\ Live' # {} /\ UNCHANGED <<boot, committing>> /\ boot = "up" /\ ~committing
        /\ Committers' = Committers
    BY <1>2, LiveBegins DEF TypeOK, Phases, Committers, BeginOp, Goto
  <2>2. QED
    BY <2>1 DEF Phases
<1>3. ASSUME NEW p \in Procs, EndOp(p) PROVE Phases'
  <2>1. /\ pc[p] = "op" /\ p \in Live /\ Live' = Live \ {p}
        /\ boot = "up" /\ boot' = "up" /\ ~committing /\ Committers = {}
    BY <1>3, LiveEnds, OperationRuns DEF EndOp
  <2>2. \A q \in Procs : pc[q] \notin {"writelog", "writehead", "install", "clear", "finish"}
    BY <2>1 DEF Committers
  <2>3. CASE outstanding = 1
    <3>1. Live' = {}
      <4>1. IsFiniteSet(Live) /\ Cardinality(Live) = 1
        BY <2>3, LiveFacts DEF Counted
      <4>2. IsFiniteSet(Live \ {p}) /\ Cardinality(Live \ {p}) = 0
        BY <2>1, <4>1, FS_RemoveElement
      <4>3. Live \ {p} = {}
        BY <4>2, FS_EmptySet
      <4>4. QED
        BY <2>1, <4>3
    <3>2. /\ committing' = TRUE /\ pc'[p] \in {"finish", "writelog"}
          /\ \A q \in Procs \ {p} : pc'[q] = pc[q]
      BY <1>3, <2>3 DEF EndOp, Goto, TypeOK
    <3>3. Committers' = {p}
      BY <2>2, <3>2 DEF Committers
    <3>4. QED
      BY <2>1, <3>1, <3>2, <3>3 DEF Phases
  <2>4. CASE outstanding # 1
    <3>1. Live' # {}
      BY <2>1, <2>4, FS_Singleton DEF Counted
    <3>2. Committers' = {} /\ ~committing'
      BY <1>3, <2>1, <2>2, <2>4 DEF Committers, EndOp, Woken, TypeOK
    <3>3. QED
      BY <2>1, <3>1, <3>2 DEF Phases
  <2>5. QED
    BY <2>3, <2>4
<1>4. ASSUME NEW p \in Procs, WriteLog(p) \/ WriteHead(p) \/ Install(p) \/ ClearHead(p)
      PROVE  Phases'
  <2>1. /\ committing /\ boot = "up" /\ Live = {} /\ Committers = {p}
        /\ \A q \in Procs \ {p} : pc[q] \in {"idle", "begin", "asleep"}
    BY <1>4, CommitterAlone DEF WriteLog, WriteHead, Install, ClearHead
  <2>2. Live' = {}
    BY <1>4, <2>1, LiveSame DEF Commit
  <2>3. UNCHANGED <<committing, boot>>
    BY <1>4 DEF WriteLog, WriteHead, Install, ClearHead
  <2>4. /\ pc'[p] \in {"writelog", "writehead", "install", "clear", "finish"}
        /\ \A q \in Procs \ {p} : pc'[q] = pc[q]
    BY <1>4 DEF WriteLog, WriteHead, Install, ClearHead, Goto, TypeOK
  <2>5. Committers' = {p}
    BY <2>1, <2>4 DEF Committers
  <2>6. QED
    BY <2>1, <2>2, <2>3, <2>5 DEF Phases
<1>5. ASSUME NEW p \in Procs, Finish(p) PROVE Phases'
  <2>1. /\ pc[p] = "finish" /\ boot = "up" /\ Live = {}
        /\ \A q \in Procs \ {p} : pc[q] \in {"idle", "begin", "asleep"}
    BY <1>5, CommitterAlone DEF Finish
  <2>2. Live' = {}
    BY <1>5, <2>1, LiveSame DEF Commit
  <2>3. ~committing' /\ UNCHANGED <<boot, lh>>
    BY <1>5 DEF Finish
  <2>4. Committers' = {}
    BY <1>5, <2>1 DEF Committers, Finish, Woken, TypeOK
  <2>5. lh = <<>>
    BY <2>1 DEF LogInv, Disk, At
  <2>6. QED
    BY <2>1, <2>2, <2>3, <2>4, <2>5 DEF Phases
<1>6. CASE Crash \/ Recover
  <2>1. ~committing' /\ (boot' = "up" => lh' = <<>>)
    BY <1>6 DEF Phases, Crash, Recover, ReadHead, RecoverInstall, RecoverClear
  <2>2. QED
    BY <1>6, <2>1, LiveRestarts DEF Phases
<1>7. QED
  BY <1>1, <1>2, <1>3, <1>4, <1>5, <1>6 DEF Next, Proc, BeginSteps, Commit

LEMMA WritesKept ==
  ASSUME LogInv, Next
  PROVE  Writes'
<1> TypeOK /\ Counted /\ Phases /\ Writes
  BY DEF LogInv
<1>1. ASSUME NEW p \in Procs, Call(p) \/ BeginSleep(p) \/ BeginOp(p)
      PROVE  Writes'
  <2>1. UNCHANGED <<wrote, cur, Logged>>
    BY <1>1 DEF Call, BeginSleep, BeginOp, Logged
  <2>2. Live \subseteq Live'
    BY <1>1, LiveSame, LiveBegins
  <2>3. \A q \in Procs : pc'[q] = "append" <=> pc[q] = "append"
    BY <1>1 DEF Call, BeginSleep, BeginOp, Goto, TypeOK
  <2>4. QED
    BY <2>1, <2>2, <2>3 DEF Writes
<1>2. ASSUME NEW p \in Procs, LogWriteCheck(p) PROVE Writes'
  <2>1. /\ UNCHANGED <<wrote, Logged>> /\ Live' = Live /\ p \in Live
        /\ cur'[p] \in Blocks /\ Cardinality(wrote[p] \cup {cur'[p]}) <= OpBlocks
        /\ pc'[p] = "append"
    BY <1>2, LiveSame DEF LogWriteCheck, Logged, Live, Goto, TypeOK
  <2>2. \A q \in Procs \ {p} : cur'[q] = cur[q] /\ pc'[q] = pc[q]
    BY <1>2 DEF LogWriteCheck, Goto, TypeOK
  <2>3. QED
    BY <2>1, <2>2 DEF Writes
<1>3. ASSUME NEW p \in Procs, LogWriteAppend(p) PROVE Writes'
  <2>1. /\ cur[p] \in Blocks /\ Cardinality(wrote[p] \cup {cur[p]}) <= OpBlocks
        /\ IsFiniteSet(wrote[p]) /\ wrote[p] \subseteq Logged
    BY <1>3 DEF LogWriteAppend, Writes
  <2>2. Logged' = Logged \cup {cur[p]}
    BY <1>3, <2>1, LoggedGrows DEF LogWriteAppend
  <2>3. IsFiniteSet(wrote[p] \cup {cur[p]})
    BY <2>1, FS_AddElement
  <2>4. /\ wrote'[p] = wrote[p] \cup {cur[p]} /\ cur'[p] = NoBlock /\ pc'[p] = "op"
        /\ \A q \in Procs \ {p} : wrote'[q] = wrote[q] /\ cur'[q] = cur[q] /\ pc'[q] = pc[q]
    BY <1>3 DEF LogWriteAppend, Goto, TypeOK
  <2>5. Live' = Live /\ p \in Live
    BY <1>3, LiveSame DEF LogWriteAppend, Live
  <2>6. QED
    BY <2>1, <2>2, <2>3, <2>4, <2>5 DEF Writes
<1>4. ASSUME NEW p \in Procs, EndOp(p) PROVE Writes'
  <2>1. Live' = Live \ {p} /\ UNCHANGED <<cur, Logged>> /\ wrote'[p] = {}
    BY <1>4, LiveEnds DEF EndOp, Logged, TypeOK
  <2>2. /\ pc[p] # "append" /\ pc'[p] # "append"
        /\ \A q \in Procs \ {p} : wrote'[q] = wrote[q] /\ (pc'[q] = "append" <=> pc[q] = "append")
    BY <1>4 DEF EndOp, Goto, Woken, TypeOK
  <2>3. IsFiniteSet({}) /\ Cardinality({}) <= OpBlocks
    BY FS_EmptySet, SizesAssumption
  <2>4. cur[p] = NoBlock /\ \A q \in Procs \ {p} : q \notin Live' => q \notin Live
    BY <2>1, <2>2 DEF Writes
  <2>5. ASSUME NEW q \in Procs
        PROVE  /\ wrote'[q] \subseteq Logged'
               /\ IsFiniteSet(wrote'[q]) /\ Cardinality(wrote'[q]) <= OpBlocks
               /\ q \notin Live' => wrote'[q] = {}
    <3>1. CASE q = p
      BY <2>1, <2>3, <3>1
    <3>2. CASE q # p
      BY <2>1, <2>2, <2>4, <3>2 DEF Writes
    <3>3. QED
      BY <3>1, <3>2
  <2>6. \A q \in Procs : IF pc'[q] = "append"
                         THEN cur'[q] \in Blocks
                              /\ Cardinality(wrote'[q] \cup {cur'[q]}) <= OpBlocks
                         ELSE cur'[q] = NoBlock
    BY <2>1, <2>2, <2>4 DEF Writes
  <2>7. QED
    BY <2>5, <2>6 DEF Writes
<1>5. ASSUME NEW p \in Procs, Commit(p) PROVE Writes'
  <2>1. Live = {} /\ Live' = {}
    BY <1>5, CommitterAlone, LiveSame
       DEF Commit, WriteLog, WriteHead, Install, ClearHead, Finish
  <2>2. UNCHANGED <<wrote, cur>>
    BY <1>5 DEF Commit, WriteLog, WriteHead, Install, ClearHead, Finish
  <2>3. \A q \in Procs : pc[q] # "append" /\ pc'[q] # "append"
    BY <2>1 DEF Live
  <2>4. QED
    BY <2>1, <2>2, <2>3 DEF Writes
<1>6. CASE Crash \/ Recover
  <2>1. \A q \in Procs : wrote'[q] = {} /\ cur'[q] = NoBlock
    <3>1. CASE Crash
      BY <3>1 DEF Crash
    <3>2. CASE Recover
      <4>1. UNCHANGED <<wrote, cur>> /\ \A q \in Procs : pc[q] = "idle"
        BY <3>2 DEF Recover, ReadHead, RecoverInstall, RecoverClear, ops, Phases
      <4>2. QED
        BY <4>1 DEF Writes, Live
    <3>3. QED
      BY <1>6, <3>1, <3>2
  <2>2. \A q \in Procs : pc'[q] = "idle"
    BY <1>6, LiveRestarts
  <2>3. IsFiniteSet({}) /\ Cardinality({}) = 0
    BY FS_EmptySet
  <2>4. QED
    BY <2>1, <2>2, <2>3, SizesAssumption DEF Writes
<1>7. QED
  BY <1>1, <1>2, <1>3, <1>4, <1>5, <1>6 DEF Next, Proc, BeginSteps

LEMMA WakersKept ==
  ASSUME LogInv, Next
  PROVE  Wakers'
<1> TypeOK /\ Counted /\ Phases /\ Wakers
  BY DEF LogInv
<1>1. ASSUME NEW p \in Procs, BeginSleep(p) PROVE Wakers'
  <2>1. UNCHANGED <<outstanding, committing>> /\ boot = "up"
    BY <1>1 DEF BeginSleep, Phases
  <2>2. outstanding > 0 \/ committing
    <3>1. SUFFICES ASSUME ~(outstanding > 0), ~committing PROVE FALSE
      OBVIOUS
    <3>2. outstanding = 0
      BY <3>1, LiveFacts DEF Counted
    <3>3. lh = <<>>
      BY <2>1, <3>1, <3>2, LiveFacts DEF Phases
    <3>4. Len(lh) = 0
      BY <3>3
    <3>5. Room
      BY <3>2, <3>4, SizesAssumption, FitsAssumption DEF Room
    <3>6. QED
      BY <1>1, <3>1, <3>5 DEF BeginSleep
  <2>3. QED
    BY <2>1, <2>2 DEF Wakers
<1>2. ASSUME NEW p \in Procs, EndOp(p) PROVE Wakers'
  BY <1>2 DEF Wakers, EndOp, Goto, Woken, TypeOK
<1>3. ASSUME NEW p \in Procs, Finish(p) PROVE Wakers'
  BY <1>3 DEF Wakers, Finish, Woken, TypeOK
<1>4. ASSUME NEW p \in Procs, BeginOp(p) PROVE Wakers'
  <2>1. outstanding \in Nat
    BY LiveFacts DEF Counted
  <2>2. QED
    BY <1>4, <2>1 DEF Wakers, BeginOp
<1>5. ASSUME NEW p \in Procs,
             \/ Call(p) \/ LogWriteCheck(p) \/ LogWriteAppend(p)
             \/ WriteLog(p) \/ WriteHead(p) \/ Install(p) \/ ClearHead(p)
      PROVE  Wakers'
  <2>1. UNCHANGED <<outstanding, committing>>
    BY <1>5 DEF Call, LogWriteCheck, LogWriteAppend, WriteLog, WriteHead, Install, ClearHead
  <2>2. \A q \in Procs : pc'[q] = "asleep" => pc[q] = "asleep"
    BY <1>5 DEF Call, LogWriteCheck, LogWriteAppend, WriteLog, WriteHead, Install,
                ClearHead, Goto, TypeOK
  <2>3. QED
    BY <2>1, <2>2 DEF Wakers
<1>6. CASE Crash \/ Recover
  BY <1>6, LiveRestarts DEF Wakers
<1>7. QED
  BY <1>1, <1>2, <1>3, <1>4, <1>5, <1>6 DEF Next, Proc, BeginSteps, Commit

\* The steps of an operation keep the reservations.
LEMMA SlotsKept ==
  ASSUME LogInv, Next
  PROVE  Slots'
<1> TypeOK /\ Counted /\ Phases /\ Writes /\ Slots
  BY DEF LogInv
<1> DEFINE R == Cardinality(Reserved)
<1>a. /\ IsFiniteSet(Live) /\ Cardinality(Live) \in Nat
      /\ Live = {} <=> outstanding = 0
      /\ outstanding = Cardinality(Live)
      /\ Len(lh) \in Nat /\ R \in Nat
      /\ Slack \in Nat \ {0} /\ MAXOPBLOCKS \in Nat \ {0} /\ LOGSIZE \in Nat
      /\ MAXOPBLOCKS <= LOGSIZE
      /\ \A q \in Procs : Cardinality(wrote[q]) \in 0..OpBlocks
  <2>1. \A q \in Procs : Cardinality(wrote[q]) \in 0..OpBlocks
    <3> SUFFICES ASSUME NEW q \in Procs PROVE Cardinality(wrote[q]) \in 0..OpBlocks
      OBVIOUS
    <3>1. IsFiniteSet(wrote[q]) /\ Cardinality(wrote[q]) <= OpBlocks
      BY DEF Writes
    <3>2. Cardinality(wrote[q]) \in Nat
      BY <3>1, FS_CardinalityType
    <3>3. QED
      BY <3>1, <3>2, SizesAssumption
  <2>2. QED
    BY <2>1, LiveFacts, LoggedBlocks, ResFinite, MostFits, SizesAssumption, FitsAssumption
       DEF Counted, Reserved
<1>1. ASSUME NEW p \in Procs, Call(p) \/ BeginSleep(p) \/ LogWriteCheck(p)
      PROVE  Slots'
  <2>1. Live' = Live /\ UNCHANGED <<wrote, lh, outstanding>>
    BY <1>1, LiveSame DEF Call, BeginSleep, LogWriteCheck
  <2>2. QED
    BY <2>1 DEF Slots, Reserved
<1>2. ASSUME NEW p \in Procs, BeginOp(p) PROVE Slots'
  <2>1. /\ p \notin Live /\ Live' = Live \cup {p} /\ Room /\ outstanding' = outstanding + 1
        /\ UNCHANGED <<lh, wrote>> /\ boot = "up" /\ ~committing
    BY <1>2, LiveBegins DEF BeginOp, Phases
  <2>2. IsFiniteSet(Live') /\ Cardinality(Live') = outstanding + 1
    BY <1>a, <2>1, FS_AddElement
  <2>3. PICK L, w : L = Live' /\ w = wrote'
    OBVIOUS
  <2>4. /\ Cardinality(Res(L, w)) \in Nat
        /\ Cardinality(Res(L, w)) <= (outstanding + 1) * MAXOPBLOCKS
    BY <2>2, <2>3, ResFinite
  <2>5. Reserved' = Res(L, w)
    BY <2>3 DEF Reserved
  <2>6. CASE Live = {}
    <3>1. outstanding = 0 /\ Len(lh) = 0
      BY <1>a, <2>1, <2>6 DEF Phases
    <3>2. Cardinality(Reserved') <= MAXOPBLOCKS /\ Cardinality(Reserved') \in Nat
      BY <1>a, <2>4, <2>5, <3>1
    <3>3. QED
      BY <1>a, <2>1, <3>1, <3>2 DEF Slots
  <2>7. CASE Live # {}
    <3>1. outstanding' # 1
      BY <1>a, <2>1, <2>7
    <3>2. Len(lh) + Cardinality(Reserved') <= LOGSIZE
      <4>1. PICK k : k = (outstanding + 1) * MAXOPBLOCKS
        OBVIOUS
      <4>2. k \in Int /\ Len(lh) + k <= LOGSIZE
        BY <1>a, <2>1, <4>1 DEF Room
      <4>3. QED
        BY <1>a, <2>4, <2>5, <4>1, <4>2
    <3>3. QED
      BY <2>1, <3>1, <3>2 DEF Slots
  <2>8. QED
    BY <2>6, <2>7
<1>3. ASSUME NEW p \in Procs, LogWriteAppend(p) PROVE Slots'
  <2>1. /\ Live' = Live /\ p \in Live /\ cur[p] \in Blocks
        /\ Cardinality(wrote[p] \cup {cur[p]}) <= OpBlocks
        /\ IsFiniteSet(wrote[p]) /\ wrote[p] \subseteq Logged
        /\ wrote'[p] = wrote[p] \cup {cur[p]} /\ \A q \in Live : q # p => wrote'[q] = wrote[q]
        /\ outstanding' = outstanding
    BY <1>3, LiveSame DEF LogWriteAppend, Writes, Live, TypeOK
  <2>2. Len(lh') = IF cur[p] \in Logged THEN Len(lh) ELSE Len(lh) + 1
    BY <1>3, <2>1, LoggedGrows DEF LogWriteAppend
  <2>3. Cardinality(wrote[p]) < MAXOPBLOCKS
    BY <1>a, SizesAssumption, FitsAssumption
  <2>4. PICK w : w = wrote'
    OBVIOUS
  <2>5. Reserved' = Res(Live, w)
    BY <2>1, <2>4 DEF Reserved
  <2>6. CASE cur[p] \in wrote[p]
    <3>1. Len(lh') = Len(lh)
      BY <2>1, <2>2, <2>6
    <3>2. wrote' = wrote
      BY <1>3, <2>6 DEF LogWriteAppend, TypeOK
    <3>3. QED
      BY <2>1, <3>1, <3>2 DEF Slots, Reserved
  <2>7. CASE cur[p] \notin wrote[p]
    <3>1. Cardinality(Res(Live, w)) = Cardinality(Res(Live, wrote)) - 1
      <4>1. w[p] = wrote[p] \cup {cur[p]} /\ \A q \in Live : q # p => w[q] = wrote[q]
        BY <2>1, <2>4
      <4>2. QED
        BY <1>a, <2>1, <2>3, <2>7, <4>1, ResTake
    <3>2. Cardinality(Reserved') = R - 1
      BY <2>5, <3>1 DEF Reserved
    <3>3. Len(lh') <= Len(lh) + 1 /\ Len(lh') \in Nat
      BY <1>a, <2>2
    <3>4. Len(lh') + Cardinality(Reserved') <= Len(lh) + R
      BY <1>a, <3>2, <3>3
    <3>5. QED
      BY <1>a, <2>1, <3>2, <3>3, <3>4 DEF Slots
  <2>8. QED
    BY <2>6, <2>7
<1>4. ASSUME NEW p \in Procs, EndOp(p) PROVE Slots'
  <2>1. /\ p \in Live /\ Live' = Live \ {p} /\ outstanding' = outstanding - 1
        /\ lh' = lh /\ \A q \in Live : q # p => wrote'[q] = wrote[q]
    BY <1>4, LiveEnds DEF EndOp, TypeOK, Live
  <2>2. PICK w : w = wrote'
    OBVIOUS
  <2>3. Reserved' = Res(Live \ {p}, w)
    BY <2>1, <2>2 DEF Reserved
  <2>4. Cardinality(Res(Live \ {p}, w)) <= Cardinality(Res(Live, wrote)) - Slack
    <3>1. \A q \in Live : q # p => w[q] = wrote[q]
      BY <2>1, <2>2
    <3>2. p \in Live /\ Cardinality(wrote[p]) \in 0..OpBlocks /\ IsFiniteSet(Live)
      BY <1>a, <2>1
    <3>3. QED
      BY <3>1, <3>2, ResEnd
  <2>5. Cardinality(Reserved') \in Nat
    <3>1. IsFiniteSet(Live \ {p})
      BY <1>a, FS_RemoveElement
    <3>2. QED
      BY <2>3, <3>1, ResFinite
  <2>6. Cardinality(Reserved') <= R - Slack
    BY <2>3, <2>4 DEF Reserved
  <2>7. QED
    BY <1>a, <2>1, <2>5, <2>6 DEF Slots
<1>5. ASSUME NEW p \in Procs, Commit(p) PROVE Slots'
  <2>1. Live' = {}
    BY <1>5, CommitterAlone, LiveSame
       DEF Commit, WriteLog, WriteHead, Install, ClearHead, Finish
  <2>2. QED
    BY <2>1 DEF Slots
<1>6. CASE Crash \/ Recover
  BY <1>6, LiveRestarts DEF Slots
<1>7. QED
  BY <1>1, <1>2, <1>3, <1>4, <1>5, <1>6 DEF Next, Proc, BeginSteps

\* Who may write has room for it, whatever part of its reservation it has used.
LEMMA RoomIsThere ==
  ASSUME NEW L, IsFiniteSet(L), L # {}, NEW w, \A p \in L : Cardinality(w[p]) \in 0..OpBlocks,
         NEW n \in Nat, n + Cardinality(Res(L, w)) <= LOGSIZE,
         Cardinality(L) = 1 => \/ n + Cardinality(Res(L, w)) <= LOGSIZE - Slack
                               \/ n + Cardinality(Res(L, w)) <= MAXOPBLOCKS
  PROVE  n <= Most
<1>1. PICK r \in Nat : r = Cardinality(Res(L, w))
  BY ResFinite
<1>2. r >= Slack /\ (Cardinality(L) # 1 => r >= 2 * Slack)
  BY <1>1, ResAtLeast
<1>3. /\ Slack \in Nat /\ Most \in Nat /\ OpBlocks <= Most /\ LOGSIZE - 2 * Slack <= Most
      /\ LOGSIZE \in Nat /\ OpBlocks \in Nat /\ MAXOPBLOCKS = OpBlocks + Slack
  BY MostFits, SizesAssumption DEF Slack
<1>4. QED
  BY <1>1, <1>2, <1>3

LEMMA BoundedKept ==
  ASSUME LogInv, Next
  PROVE  Bounded'
<1> TypeOK /\ Bounded
  BY DEF LogInv
<1>1. ASSUME NEW p \in Procs, LogWriteAppend(p) PROVE Bounded'
  <2>1. /\ Live' = Live /\ p \in Live /\ hdr' = hdr
    BY <1>1, LiveSame DEF LogWriteAppend, Live, disk
  <2>2. Slots' /\ Writes' /\ Counted' /\ TypeOK'
    BY SlotsKept, WritesKept, CountedKept, TypesKept
  <2>3. IsFiniteSet(Live)
    BY LiveFacts DEF LogInv
  <2>4. PICK L, w, n : L = Live /\ w = wrote' /\ n = Len(lh')
    OBVIOUS
  <2>5. Reserved' = Res(L, w) /\ outstanding' = Cardinality(L)
    BY <2>1, <2>2, <2>4 DEF Reserved, Counted
  <2>6. \A q \in L : Cardinality(w[q]) \in 0..OpBlocks
    <3> SUFFICES ASSUME NEW q \in L PROVE Cardinality(w[q]) \in 0..OpBlocks
      OBVIOUS
    <3>1. IsFiniteSet(w[q]) /\ Cardinality(w[q]) <= OpBlocks
      BY <2>2, <2>4 DEF Writes, Live
    <3>2. Cardinality(w[q]) \in Nat
      BY <3>1, FS_CardinalityType
    <3>3. QED
      BY <3>1, <3>2, SizesAssumption
  <2>7. n \in Nat
    BY <2>2, <2>4, LenProperties DEF TypeOK
  <2>8. /\ n + Cardinality(Res(L, w)) <= LOGSIZE
        /\ Cardinality(L) = 1 => \/ n + Cardinality(Res(L, w)) <= LOGSIZE - Slack
                                 \/ n + Cardinality(Res(L, w)) <= MAXOPBLOCKS
    BY <2>1, <2>2, <2>4, <2>5 DEF Slots
  <2>9. n <= Most
    BY <2>1, <2>3, <2>4, <2>6, <2>7, <2>8, RoomIsThere
  <2>10. QED
    BY <2>1, <2>4, <2>9 DEF Bounded
<1>2. Len(<<>>) <= Most
  BY MostFits
<1>3. ASSUME NEW p \in Procs,
             \/ Call(p) \/ BeginSleep(p) \/ BeginOp(p) \/ LogWriteCheck(p) \/ EndOp(p)
             \/ WriteLog(p) \/ WriteHead(p) \/ Install(p) \/ ClearHead(p) \/ Finish(p)
      PROVE  Bounded'
  <2>1. lh' \in {lh, <<>>} /\ hdr' \in {hdr, lh, <<>>}
    BY <1>3 DEF Call, BeginSleep, BeginOp, LogWriteCheck, EndOp, WriteLog, WriteHead,
                Install, InstallOne, ClearHead, Finish, disk
  <2>2. QED
    BY <1>2, <2>1 DEF Bounded
<1>4. CASE Crash \/ Recover
  <2>1. lh' \in {lh, hdr, <<>>} /\ hdr' \in {hdr, <<>>}
    BY <1>4 DEF Crash, Recover, ReadHead, RecoverInstall, InstallOne, RecoverClear, disk
  <2>2. QED
    BY <1>2, <2>1 DEF Bounded
<1>5. QED
  BY <1>1, <1>3, <1>4 DEF Next, Proc, BeginSteps, Commit

-----------------------------------------------------------------------------
(* The disk. *)

\* InstallOne writes a block where the log says that it has to be.
LEMMA InstallWrites ==
  ASSUME TypeOK, InstallOne
  PROVE  /\ tail \in 1..Len(lh) /\ tail' = tail + 1 /\ lh[tail] \in Blocks
         /\ UNCHANGED <<hdr, logd>>
         /\ home'[lh[tail]] = logd[tail] /\ cache'[lh[tail]] = logd[tail]
         /\ \A b \in Blocks : b # lh[tail] => home'[b] = home[b] /\ cache'[b] = cache[b]
<1>1. tail \in 1..Len(lh)
  BY LoggedBlocks DEF InstallOne, TypeOK
<1>2. lh[tail] \in Blocks
  BY <1>1, LoggedBlocks
<1>3. QED
  BY <1>1, <1>2 DEF InstallOne, TypeOK

\* It keeps what is installed, if a block that is logged twice is logged with one value.
LEMMA InstalledGrows ==
  ASSUME TypeOK, InstallOne, lh' = lh, Installed(tail),
         \A i, j \in 1..Len(lh) : lh[i] = lh[j] => logd[i] = logd[j]
  PROVE  Installed(tail)'
<1> SUFFICES ASSUME NEW i \in 1..Len(lh), i < tail'
             PROVE  home'[lh[i]] = logd[i]
  <2>1. lh' = lh /\ logd' = logd
    BY InstallWrites
  <2>2. QED
    BY <2>1 DEF Installed
<1>1. /\ tail \in 1..Len(lh) /\ tail' = tail + 1 /\ lh[i] \in Blocks
      /\ home'[lh[tail]] = logd[tail]
      /\ \A b \in Blocks : b # lh[tail] => home'[b] = home[b]
      /\ Len(lh) \in Nat
  BY InstallWrites, LoggedBlocks
<1>2. CASE lh[i] = lh[tail]
  BY <1>1, <1>2
<1>3. CASE lh[i] # lh[tail]
  <2>1. i < tail
    BY <1>1, <1>3
  <2>2. QED
    BY <1>1, <1>3, <2>1 DEF Installed
<1>4. QED
  BY <1>2, <1>3

\* When the loop is through, everything is installed.
LEMMA InstalledAll ==
  ASSUME TypeOK, Bounded, tail > Len(lh)
  PROVE  /\ Installed(tail) => Installed(nlog)
         /\ Copied(tail) => Copied(nlog)
<1>1. \A i \in 1..Len(lh) : i < tail /\ i < nlog
  BY LoggedBlocks, MostFits, SizesAssumption DEF TypeOK, Bounded
<1>2. QED
  BY <1>1 DEF Installed, Copied

LEMMA AllOfThem ==
  ASSUME TypeOK, Bounded
  PROVE  /\ Copied(nlog) => \A i \in 1..Len(lh) : logd[i] = cache[lh[i]]
         /\ Installed(nlog) => \A i \in 1..Len(lh) : home[lh[i]] = logd[i]
<1>1. \A i \in 1..Len(lh) : i < nlog
  BY LoggedBlocks, MostFits, SizesAssumption DEF Bounded
<1>2. QED
  BY <1>1 DEF Installed, Copied

CommitLabels == {"writelog", "writehead", "install", "clear", "finish"}

LEMMA NobodyCommits ==
  Committers = {} => \A l \in CommitLabels : ~At(l)
BY DEF Committers, At, CommitLabels

\* The steps of an operation that is not the last to end.
LEMMA DiskKeptRunning ==
  ASSUME LogInv, NEW p \in Procs, Running(p)
  PROVE  Disk'
<1> TypeOK /\ Counted /\ Phases /\ Writes /\ Disk
  BY DEF LogInv
<1>1. CASE Call(p) \/ BeginSleep(p) \/ BeginOp(p)
  <2>1. /\ UNCHANGED <<boot, hdr, lh, logd, home, cache, cur, tail>>
        /\ \A q \in Procs : pc'[q] = "append" <=> pc[q] = "append"
        /\ \A l \in CommitLabels : \A q \in Procs : pc'[q] = l <=> pc[q] = l
    BY <1>1 DEF Call, BeginSleep, BeginOp, disk, Goto, TypeOK, CommitLabels
  <2>2. \A l \in CommitLabels : At(l)' <=> At(l)
    BY <2>1 DEF At
  <2>3. Homes' <=> Homes
    BY <2>1 DEF Homes
  <2>4. QED
    BY <2>1, <2>2, <2>3 DEF Disk, CommitLabels, Copied, Installed
<1>2. CASE LogWriteCheck(p) \/ LogWriteAppend(p)
  <2>1. /\ boot = "up" /\ ~committing /\ Committers = {}
        /\ UNCHANGED <<boot, hdr, logd, home, tail>>
    BY <1>2, OperationRuns DEF LogWriteCheck, LogWriteAppend, disk
  <2>2. Committers' = {}
    BY <1>2, <2>1 DEF Committers, LogWriteCheck, LogWriteAppend, Goto, TypeOK
  <2>3. \A l \in CommitLabels : ~At(l) /\ ~At(l)'
    BY <2>1, <2>2 DEF Committers, At, CommitLabels
  <2>4. Homes'
    <3> SUFFICES ASSUME NEW b \in Blocks, cache'[b] # home[b]
                 PROVE  \/ \E i \in 1..Len(lh') : lh'[i] = b
                        \/ \E q \in Procs : pc'[q] = "append" /\ cur'[q] = b
      BY <2>1 DEF Homes
    <3>1. CASE LogWriteCheck(p)
      <4>1. /\ lh' = lh /\ pc'[p] = "append" /\ cur'[p] \in Blocks
            /\ \A c \in Blocks : c # cur'[p] => cache'[c] = cache[c]
            /\ \A q \in Procs \ {p} : pc'[q] = pc[q] /\ cur'[q] = cur[q]
            /\ pc[p] # "append"
        BY <3>1 DEF LogWriteCheck, Goto, TypeOK
      <4>2. QED
        BY <2>1, <4>1 DEF Disk, Homes
    <3>2. CASE LogWriteAppend(p)
      <4>1. cur[p] \in Blocks /\ cache' = cache
        BY <3>2 DEF LogWriteAppend, Writes
      <4>2. Logged' = Logged \cup {cur[p]}
        BY <3>2, <4>1, LoggedGrows DEF LogWriteAppend
      <4>3. \A q \in Procs \ {p} : pc'[q] = pc[q] /\ cur'[q] = cur[q]
        BY <3>2 DEF LogWriteAppend, Goto, TypeOK
      <4>4. b \in Logged' \/ \E q \in Procs : pc'[q] = "append" /\ cur'[q] = b
        <5>1. b \in Logged \/ \E q \in Procs : pc[q] = "append" /\ cur[q] = b
          BY <2>1, <4>1 DEF Disk, Homes, Logged
        <5>2. QED
          BY <4>2, <4>3, <5>1
      <4>5. QED
        BY <4>4 DEF Logged
    <3>3. QED
      BY <1>2, <3>1, <3>2
  <2>5. QED
    BY <2>1, <2>3, <2>4 DEF Disk, CommitLabels
<1>3. QED
  BY <1>1, <1>2 DEF Running

\* The last operation ends, and begins to commit.
LEMMA DiskKeptEnding ==
  ASSUME LogInv, NEW p \in Procs, EndOp(p)
  PROVE  Disk'
<1> TypeOK /\ Counted /\ Phases /\ Disk
  BY DEF LogInv
<1>1. /\ boot = "up" /\ Committers = {} /\ pc[p] = "op"
      /\ UNCHANGED <<boot, hdr, lh, logd, home, cache, cur>> /\ tail' = 1
  BY OperationRuns DEF EndOp, disk
<1>2. \A q \in Procs : pc'[q] = "append" <=> pc[q] = "append"
  BY DEF EndOp, Goto, Woken, TypeOK
<1>3. Homes'
  BY <1>1, <1>2 DEF Disk, Homes
<1>4. \A l \in CommitLabels : ~At(l)
  BY <1>1, NobodyCommits
<1>5. /\ \A q \in Procs : pc'[q] \notin {"writehead", "install", "clear"}
      /\ \A q \in Procs : pc'[q] = "finish" => lh = <<>>
  <2>1. \A q \in Procs : pc[q] \notin CommitLabels
    BY <1>4 DEF At
  <2>2. QED
    BY <2>1 DEF EndOp, Goto, Woken, TypeOK, CommitLabels
<1>6. ~At("writehead")' /\ ~At("install")' /\ ~At("clear")' /\ (At("finish")' => lh = <<>>)
  BY <1>5 DEF At
<1>7. Copied(tail)'
  BY <1>1 DEF Copied
<1>8. hdr = <<>>
  BY <1>1, <1>4 DEF Disk, CommitLabels
<1>9. QED
  BY <1>1, <1>3, <1>6, <1>7, <1>8 DEF Disk

\* Each step of a commit.
LEMMA DiskKeptCommitting ==
  ASSUME LogInv, NEW p \in Procs, Commit(p)
  PROVE  Disk'
<1> TypeOK /\ Counted /\ Phases /\ Disk /\ Bounded
  BY DEF LogInv
<1>a. /\ pc[p] \in CommitLabels /\ boot = "up" /\ boot' = boot /\ cur' = cur
      /\ \A q \in Procs \ {p} : pc[q] \in {"idle", "begin", "asleep"}
  <2>1. pc[p] \in CommitLabels /\ boot' = boot /\ cur' = cur
    BY DEF Commit, WriteLog, WriteHead, Install, ClearHead, Finish, CommitLabels
  <2>2. QED
    BY <2>1, CommitterAlone DEF CommitLabels
<1>b. /\ \A q \in Procs \ {p} : pc'[q] \in {"idle", "begin", "asleep"}
      /\ pc'[p] \in CommitLabels \cup {"idle"}
  BY <1>a DEF Commit, WriteLog, WriteHead, Install, ClearHead, Finish, CommitLabels, Goto,
              Woken, TypeOK
<1>c. \A l \in CommitLabels : (At(l) <=> pc[p] = l) /\ (At(l)' <=> pc'[p] = l)
  BY <1>a, <1>b DEF At, CommitLabels
<1>d. \A q \in Procs : pc[q] # "append" /\ pc'[q] # "append"
  BY <1>a, <1>b DEF CommitLabels
<1>e. \A b \in Blocks : cache[b] # home[b] => \E i \in 1..Len(lh) : lh[i] = b
  BY <1>a, <1>d DEF Disk, Homes
<1>f. ASSUME \A b \in Blocks : cache'[b] # home'[b] => \E i \in 1..Len(lh') : lh'[i] = b
      PROVE  Homes'
  BY <1>f DEF Homes
<1>1. CASE WriteLog(p)
  <2>1. /\ pc[p] = "writelog" /\ UNCHANGED <<lh, hdr, home, cache>>
        /\ hdr = <<>> /\ Copied(tail)
    BY <1>1, <1>a, <1>c DEF WriteLog, Disk, CommitLabels
  <2>2. Homes'
    BY <1>e, <1>f, <2>1
  <2>3. CASE tail <= Len(lh)
    <3>1. /\ tail' = tail + 1 /\ pc' = pc /\ logd' = [logd EXCEPT ![tail] = cache[lh[tail]]]
          /\ tail \in 1..(nlog - 1) /\ Len(lh) \in Nat
      BY <1>1, <2>3, LoggedBlocks, MostFits, SizesAssumption DEF WriteLog, TypeOK, Bounded
    <3>2. \A i \in 1..Len(lh) : i < tail + 1 => i = tail \/ i < tail
      BY <3>1
    <3>3. Copied(tail)'
      BY <2>1, <3>1, <3>2 DEF Copied, TypeOK
    <3>4. QED
      BY <1>a, <1>c, <2>1, <2>2, <3>1, <3>3 DEF Disk, CommitLabels
  <2>4. CASE ~(tail <= Len(lh))
    <3>1. pc'[p] = "writehead" /\ UNCHANGED <<logd, tail>>
      BY <1>1, <2>4 DEF WriteLog, Goto, TypeOK
    <3>2. Copied(nlog)
      BY <2>1, <2>4, InstalledAll, LoggedBlocks DEF TypeOK
    <3>3. Copied(nlog)'
      BY <2>1, <3>1, <3>2 DEF Copied
    <3>4. QED
      BY <1>a, <1>c, <2>1, <2>2, <3>1, <3>3 DEF Disk, CommitLabels
  <2>5. QED
    BY <2>3, <2>4
<1>2. CASE WriteHead(p)
  <2>1. /\ pc[p] = "writehead" /\ pc'[p] = "install" /\ UNCHANGED <<lh, logd, home, cache>>
        /\ hdr' = lh /\ tail' = 1 /\ Copied(nlog)
    BY <1>2, <1>a, <1>c DEF WriteHead, Disk, CommitLabels, Goto, TypeOK
  <2>2. Homes'
    BY <1>e, <1>f, <2>1
  <2>3. Copied(nlog)' /\ Installed(tail)'
    BY <2>1 DEF Copied, Installed
  <2>4. \A i, j \in 1..Len(hdr') : hdr'[i] = hdr'[j] => logd'[i] = logd'[j]
    BY <2>1, AllOfThem
  <2>5. QED
    BY <1>a, <1>c, <2>1, <2>2, <2>3, <2>4 DEF Disk, CommitLabels
<1>3. CASE Install(p)
  <2>1. pc[p] = "install" /\ lh' = lh /\ hdr = lh /\ Copied(nlog) /\ Installed(tail)
    BY <1>3, <1>a, <1>c DEF Install, Disk, CommitLabels
  <2>2. CASE InstallOne /\ pc' = pc
    <3>1. /\ tail \in 1..Len(lh) /\ tail' = tail + 1 /\ lh[tail] \in Blocks
          /\ UNCHANGED <<hdr, logd>>
          /\ home'[lh[tail]] = logd[tail] /\ cache'[lh[tail]] = logd[tail]
          /\ \A b \in Blocks : b # lh[tail] => home'[b] = home[b] /\ cache'[b] = cache[b]
      BY <2>2, InstallWrites
    <3>2. \A b \in Blocks : cache'[b] = cache[b]
      BY <2>1, <3>1, AllOfThem
    <3>3. Homes'
      BY <1>e, <1>f, <2>1, <3>1, <3>2
    <3>4. Copied(nlog)'
      BY <2>1, <3>1, <3>2, LoggedBlocks DEF Copied
    <3>5. Installed(tail)'
      <4>1. \A i, j \in 1..Len(lh) : lh[i] = lh[j] => logd[i] = logd[j]
        BY <2>1 DEF Disk
      <4>2. QED
        BY <2>1, <2>2, <4>1, InstalledGrows
    <3>6. QED
      BY <1>a, <1>c, <2>1, <2>2, <3>1, <3>3, <3>4, <3>5 DEF Disk, CommitLabels
  <2>3. CASE tail > Len(lh) /\ Goto(p, "clear") /\ UNCHANGED <<disk, cache, tail>>
    <3>1. pc'[p] = "clear" /\ UNCHANGED <<hdr, logd, home, cache, tail>>
      BY <2>3 DEF Goto, TypeOK, disk
    <3>2. Installed(nlog)
      BY <2>1, <2>3, InstalledAll
    <3>3. Homes' /\ Copied(nlog)' /\ Installed(nlog)'
      BY <1>e, <1>f, <2>1, <3>1, <3>2 DEF Copied, Installed
    <3>4. QED
      BY <1>a, <1>c, <2>1, <3>1, <3>3 DEF Disk, CommitLabels
  <2>4. QED
    BY <1>3, <2>2, <2>3 DEF Install
<1>4. CASE ClearHead(p)
  <2>1. /\ pc[p] = "clear" /\ pc'[p] = "finish" /\ UNCHANGED <<logd, home, cache>>
        /\ lh' = <<>> /\ hdr' = <<>> /\ Copied(nlog) /\ Installed(nlog)
    BY <1>4, <1>a, <1>c DEF ClearHead, Disk, CommitLabels, Goto, TypeOK
  <2>2. \A b \in Blocks : cache[b] = home[b]
    BY <1>e, <2>1, AllOfThem
  <2>3. Homes'
    BY <1>f, <2>1, <2>2
  <2>4. QED
    BY <1>a, <1>c, <2>1, <2>3 DEF Disk, CommitLabels
<1>5. CASE Finish(p)
  <2>1. pc[p] = "finish" /\ pc'[p] = "idle" /\ UNCHANGED <<lh, hdr, logd, home, cache, tail>>
    BY <1>5 DEF Finish, disk, Woken, TypeOK
  <2>2. Homes'
    BY <1>e, <1>f, <2>1
  <2>3. hdr = <<>>
    BY <1>a, <1>c, <2>1 DEF Disk, CommitLabels
  <2>4. QED
    BY <1>a, <1>c, <2>1, <2>2, <2>3 DEF Disk, CommitLabels
<1>6. QED
  BY <1>1, <1>2, <1>3, <1>4, <1>5 DEF Commit

\* A crash, and each step of recovery.
LEMMA DiskKeptRecovering ==
  ASSUME LogInv, Crash \/ Recover
  PROVE  Disk'
<1> TypeOK /\ Phases /\ Disk /\ Bounded
  BY DEF LogInv
<1>1. \A l \in CommitLabels : ~At(l)'
  BY LiveRestarts DEF At, CommitLabels
<1>2. CASE Crash
  BY <1>2 DEF Crash, Disk, disk
<1>3. CASE ReadHead
  BY <1>3 DEF ReadHead, Disk, disk, Installed
<1>4. CASE RecoverInstall
  <2>1. boot = "install" /\ lh' = lh /\ hdr = lh /\ Installed(tail) /\ cache = home
    BY <1>4 DEF RecoverInstall, Disk
  <2>2. CASE InstallOne /\ boot' = boot
    <3>1. /\ UNCHANGED <<hdr, logd>>
          /\ \A b \in Blocks : home'[b] = cache'[b]
      BY <2>1, <2>2, InstallWrites
    <3>2. cache' = home'
      <4>1. TypeOK'
        BY <1>4, TypesKept DEF Next, Recover
      <4>2. QED
        BY <3>1, <4>1 DEF TypeOK
    <3>3. Installed(tail)'
      <4>1. \A i, j \in 1..Len(lh) : lh[i] = lh[j] => logd[i] = logd[j]
        BY <2>1 DEF Disk
      <4>2. QED
        BY <2>1, <2>2, <4>1, InstalledGrows
    <3>4. QED
      BY <2>1, <2>2, <3>1, <3>2, <3>3 DEF Disk
  <2>3. CASE tail > Len(lh) /\ boot' = "clear" /\ UNCHANGED <<disk, cache, tail>>
    <3>1. UNCHANGED <<hdr, logd, home, cache, tail>>
      BY <2>3 DEF disk
    <3>2. Installed(nlog)
      BY <2>1, <2>3, InstalledAll
    <3>3. Installed(nlog)'
      BY <2>1, <3>1, <3>2 DEF Installed
    <3>4. QED
      BY <2>1, <2>3, <3>1, <3>3 DEF Disk
  <2>4. QED
    BY <1>4, <2>2, <2>3 DEF RecoverInstall
<1>5. CASE RecoverClear
  <2>1. /\ cache = home /\ UNCHANGED <<logd, home, cache>> /\ boot' = "up"
        /\ lh' = <<>> /\ hdr' = <<>>
    BY <1>5 DEF RecoverClear, Disk
  <2>2. QED
    BY <1>1, <2>1 DEF Disk, Homes, CommitLabels
<1>6. QED
  BY <1>2, <1>3, <1>4, <1>5 DEF Recover

-----------------------------------------------------------------------------
(* The invariant, and what it is for. *)

LEMMA LogInitial == Init => LogInv
<1> SUFFICES ASSUME Init PROVE LogInv
  OBVIOUS
<1>1. Live = {} /\ Committers = {} /\ \A p \in Procs : pc[p] = "idle"
  BY DEF Init, Live, Committers
<1>2. IsFiniteSet({}) /\ Cardinality({}) = 0
  BY FS_EmptySet
<1>3. TypeOK
  <2>1. outstanding \in 0..Cardinality(Procs)
    BY SizesAssumption, FS_CardinalityType DEF Init
  <2>2. tail \in 1..nlog /\ lh \in Seq(Blocks) /\ hdr \in Seq(Blocks)
    BY SizesAssumption DEF Init
  <2>3. QED
    BY <2>1, <2>2 DEF Init, TypeOK, Labels
<1>4. Counted /\ Phases /\ Slots /\ Wakers
  BY <1>1, <1>2 DEF Init, Counted, Phases, Slots, Wakers
<1>5. Writes
  BY <1>1, <1>2, SizesAssumption DEF Init, Writes
<1>6. Bounded
  BY MostFits DEF Init, Bounded
<1>7. Disk
  BY <1>1 DEF Init, Disk, Homes, At
<1>8. QED
  BY <1>3, <1>4, <1>5, <1>6, <1>7 DEF LogInv

LEMMA LogStutter == LogInv /\ UNCHANGED vars => LogInv'
<1> SUFFICES ASSUME LogInv, UNCHANGED vars PROVE LogInv'
  OBVIOUS
<1>1. /\ UNCHANGED <<outstanding, committing, lh, hdr, logd, home, cache, boot>>
      /\ UNCHANGED <<pc, wrote, cur, tail>>
  BY DEF vars, disk, ops
<1>2. UNCHANGED <<Live, Committers, Logged, Reserved>>
  BY <1>1 DEF Live, Committers, Logged, Reserved
<1>3. TypeOK' /\ Counted' /\ Phases' /\ Writes' /\ Slots' /\ Bounded' /\ Wakers'
  BY <1>1, <1>2 DEF LogInv, TypeOK, Counted, Phases, Writes, Slots, Bounded, Wakers
<1>4. Disk'
  BY <1>1 DEF LogInv, Disk, Homes, At, Copied, Installed
<1>5. QED
  BY <1>3, <1>4 DEF LogInv

THEOREM LogInvariance == Spec => []LogInv
<1>1. LogInv /\ [Next]_vars => LogInv'
  <2> SUFFICES ASSUME LogInv, [Next]_vars PROVE LogInv'
    OBVIOUS
  <2>1. CASE Next
    <3>1. Disk'
      BY <2>1, DiskKeptRunning, DiskKeptEnding, DiskKeptCommitting, DiskKeptRecovering
         DEF Next, Proc, BeginSteps, Running
    <3>2. QED
      BY <2>1, <3>1, TypesKept, CountedKept, PhasesKept, WritesKept, SlotsKept, BoundedKept,
         WakersKept
         DEF LogInv
  <2>2. QED
    BY <2>1, LogStutter
<1>2. QED
  BY <1>1, LogInitial, PTL DEF Spec

\* Whoever was let in by begin_op() finds room for its blocks (log.c:220), though
\* others write too and log_write() tests it without log.lock, for any number of processes; and
\* whoever sleeps there is woken up by somebody.
THEOREM LogIsSound == Spec => []LogSound
<1>1. LogInv => LogSound
  <2> SUFFICES ASSUME LogInv PROVE LogSound
    OBVIOUS
  <2>1. TypeOK /\ Bounded /\ Wakers
    BY DEF LogInv
  <2>2. NeverTooBig
    BY <2>1, MostFits, SizesAssumption, LoggedBlocks DEF Bounded, NeverTooBig, TooBig
  <2>3. SleepersHaveWaker
    BY <2>1 DEF Wakers, SleepersHaveWaker
  <2>4. QED
    BY <2>1, <2>2, <2>3 DEF LogSound
<1>2. QED
  BY <1>1, LogInvariance, PTL

\* With no operation outstanding and no commit under way nothing is left to write: the last
\* end_op() returns with the home blocks on disk and the log erased.
THEOREM LogIsDurable == Spec => []QuiescentIsDurable
<1>1. LogInv => QuiescentIsDurable
  <2> SUFFICES ASSUME LogInv, boot = "up", outstanding = 0, ~committing
               PROVE  home = cache /\ hdr = <<>> /\ lh = <<>>
    BY DEF QuiescentIsDurable
  <2>1. TypeOK /\ Counted /\ Phases /\ Disk
    BY DEF LogInv
  <2>2. Live = {} /\ Committers = {} /\ lh = <<>>
    BY <2>1, LiveFacts DEF Phases
  <2>3. \A b \in Blocks : cache[b] = home[b]
    BY <2>1, <2>2 DEF Disk, Homes, Live
  <2>4. home = cache
    BY <2>1, <2>3 DEF TypeOK
  <2>5. hdr = <<>>
    BY <2>1, <2>2, NobodyCommits DEF Disk, CommitLabels
  <2>6. QED
    BY <2>2, <2>4, <2>5
<1>2. QED
  BY <1>1, LogInvariance, PTL

-----------------------------------------------------------------------------
(* The atomic disk. *)

\* The home blocks m, with those that the header h lists as the log area l has them.
Over(h, l, m) ==
  [b \in Blocks |-> IF \E i \in 1..Len(h) : h[i] = b
                    THEN l[CHOOSE i \in 1..Len(h) : h[i] = b]
                    ELSE m[b]]

LEMMA OverIs ==
  ASSUME NEW h \in Seq(Blocks), NEW l, NEW m, NEW f \in [Blocks -> Vals],
         \A i \in 1..Len(h) : f[h[i]] = l[i],
         \A b \in Blocks : (\A i \in 1..Len(h) : h[i] # b) => f[b] = m[b]
  PROVE  Over(h, l, m) = f
<1>1. ASSUME NEW b \in Blocks PROVE Over(h, l, m)[b] = f[b]
  <2>1. CASE \E i \in 1..Len(h) : h[i] = b
    <3> DEFINE k == CHOOSE i \in 1..Len(h) : h[i] = b
    <3>1. k \in 1..Len(h) /\ h[k] = b
      BY <2>1
    <3>2. Over(h, l, m)[b] = l[k]
      BY <2>1 DEF Over
    <3> HIDE DEF k
    <3>3. QED
      BY <3>1, <3>2
  <2>2. CASE \A i \in 1..Len(h) : h[i] # b
    BY <2>2 DEF Over
  <2>3. QED
    BY <2>1, <2>2
<1>2. Over(h, l, m) = [b \in Blocks |-> Over(h, l, m)[b]]
  BY DEF Over
<1>3. QED
  BY <1>1, <1>2

\* What recovery would find, as far as it is known at each place.
LEMMA RecoveredFacts ==
  ASSUME LogInv
  PROVE  /\ Recovered = Over(hdr, logd, home)
         /\ \A i \in 1..Len(hdr) : Recovered[hdr[i]] = logd[i]
         /\ \A b \in Blocks : (\A i \in 1..Len(hdr) : hdr[i] # b) => Recovered[b] = home[b]
         /\ Recovered \in [Blocks -> Vals]
         /\ hdr = <<>> => Recovered = home
<1> TypeOK /\ Disk /\ Bounded
  BY DEF LogInv
<1>1. Recovered = Over(hdr, logd, home)
  BY DEF Recovered, Over
<1>2. \A i \in 1..Len(hdr) : hdr[i] \in Blocks /\ i \in 1..(nlog - 1)
  BY LoggedBlocks, ElementOfSeq, MostFits, SizesAssumption DEF TypeOK, Bounded
<1>3. ASSUME NEW i \in 1..Len(hdr) PROVE Recovered[hdr[i]] = logd[i]
  <2> DEFINE k == CHOOSE j \in 1..Len(hdr) : hdr[j] = hdr[i]
  <2>1. k \in 1..Len(hdr) /\ hdr[k] = hdr[i]
    OBVIOUS
  <2>2. Recovered[hdr[i]] = logd[k]
    BY <1>2 DEF Recovered
  <2> HIDE DEF k
  <2>3. QED
    BY <2>1, <2>2 DEF Disk
<1>4. ASSUME NEW b \in Blocks, \A i \in 1..Len(hdr) : hdr[i] # b PROVE Recovered[b] = home[b]
  BY <1>4 DEF Recovered
<1>5. \A b \in Blocks : Recovered[b] \in Vals
  <2> SUFFICES ASSUME NEW b \in Blocks PROVE Recovered[b] \in Vals
    OBVIOUS
  <2>1. CASE \E i \in 1..Len(hdr) : hdr[i] = b
    BY <1>2, <1>3, <2>1 DEF TypeOK
  <2>2. CASE \A i \in 1..Len(hdr) : hdr[i] # b
    BY <1>4, <2>2 DEF TypeOK
  <2>3. QED
    BY <2>1, <2>2
<1>6. Recovered \in [Blocks -> Vals]
  BY <1>5 DEF Recovered
<1>7. hdr = <<>> => Recovered = home
  BY <1>4, <1>6 DEF TypeOK
<1>8. QED
  BY <1>1, <1>3, <1>4, <1>6, <1>7

\* Installing a block changes nothing of what recovery would find.
LEMMA RecoveredInstalls ==
  ASSUME LogInv, InstallOne, hdr = lh
  PROVE  Recovered' = Recovered
<1> TypeOK
  BY DEF LogInv
<1>1. /\ tail \in 1..Len(hdr) /\ UNCHANGED <<hdr, logd>>
      /\ \A b \in Blocks : b # hdr[tail] => home'[b] = home[b]
  BY InstallWrites
<1>2. PICK h \in Seq(Blocks), f \in [Blocks -> Vals] : h = hdr /\ f = Recovered
  <2>1. hdr \in Seq(Blocks) /\ Recovered \in [Blocks -> Vals]
    BY RecoveredFacts DEF TypeOK
  <2>2. QED
    BY <2>1
<1> DEFINE l == logd
           m == home'
<1>3. \A i \in 1..Len(h) : f[h[i]] = l[i]
  BY <1>2, RecoveredFacts
<1>4. \A b \in Blocks : (\A i \in 1..Len(h) : h[i] # b) => f[b] = m[b]
  BY <1>1, <1>2, RecoveredFacts
<1>5. Over(h, l, m) = f
  <2> HIDE DEF l, m
  <2>1. QED
    BY <1>2, <1>3, <1>4, OverIs
<1>6. Recovered' = Over(h, l, m)
  BY <1>1, <1>2 DEF Recovered, Over
<1>7. QED
  BY <1>2, <1>5, <1>6

\* Writing the header makes what the operations have written what recovery finds.
LEMMA RecoveredCommits ==
  ASSUME LogInv, NEW p \in Procs, WriteHead(p)
  PROVE  Recovered' = cache
<1> TypeOK /\ Counted /\ Phases /\ Disk /\ Bounded
  BY DEF LogInv
<1>1. /\ pc[p] = "writehead" /\ UNCHANGED <<lh, logd, home, cache>> /\ hdr' = lh
      /\ boot = "up" /\ Live = {}
  BY CommitterAlone DEF WriteHead
<1>2. Copied(nlog)
  BY <1>1 DEF Disk, At
<1>3. PICK h \in Seq(Blocks), f \in [Blocks -> Vals] : h = lh /\ f = cache
  <2>1. lh \in Seq(Blocks) /\ cache \in [Blocks -> Vals]
    BY DEF TypeOK
  <2>2. QED
    BY <2>1
<1> DEFINE l == logd
           m == home
<1>4. \A i \in 1..Len(h) : f[h[i]] = l[i]
  BY <1>2, <1>3, AllOfThem
<1>5. \A b \in Blocks : (\A i \in 1..Len(h) : h[i] # b) => f[b] = m[b]
  BY <1>1, <1>3 DEF Disk, Homes, Live
<1>6. Over(h, l, m) = f
  <2> HIDE DEF l, m
  <2>1. QED
    BY <1>3, <1>4, <1>5, OverIs
<1>7. Recovered' = Over(h, l, m)
  BY <1>1, <1>3 DEF Recovered, Over
<1>8. QED
  BY <1>3, <1>6, <1>7

\* Erasing the header changes nothing either, since all of it is installed.
LEMMA RecoveredClears ==
  ASSUME LogInv, hdr = lh, Installed(nlog), hdr' = <<>>, UNCHANGED <<logd, home>>
  PROVE  Recovered = home /\ Recovered' = home
<1> TypeOK /\ Bounded
  BY DEF LogInv
<1>1. \A i \in 1..Len(hdr) : home[hdr[i]] = logd[i]
  BY AllOfThem
<1>2. \A b \in Blocks : Recovered[b] = home[b]
  BY <1>1, RecoveredFacts
<1>3. Recovered = home
  BY <1>2, RecoveredFacts DEF TypeOK
<1>4. Recovered' = home
  BY DEF Recovered, TypeOK
<1>5. QED
  BY <1>3, <1>4

-----------------------------------------------------------------------------
(* Every step of the log is one of the atomic disk, or none. *)

mem == IF boot = "up" THEN cache ELSE Recovered

\* The steps that change neither cache nor disk.
LEMMA QuietSteps ==
  ASSUME UNCHANGED <<boot, cache, Recovered, Live>>
  PROVE  UNCHANGED Abstract!avars
BY DEF Abstract!avars, Live

LEMMA OperationRefines ==
  ASSUME LogInv, NEW p \in Procs, Running(p) \/ EndOp(p)
  PROVE  [Abstract!Next]_(Abstract!avars)
<1> TypeOK /\ Phases
  BY DEF LogInv
<1>1. UNCHANGED <<hdr, logd, home, boot>> /\ Recovered' = Recovered
  BY DEF Running, Call, BeginSleep, BeginOp, LogWriteCheck, LogWriteAppend, EndOp, disk,
         Recovered
<1>2. CASE Call(p) \/ BeginSleep(p) \/ LogWriteAppend(p)
  BY <1>1, <1>2, LiveSame, QuietSteps DEF Call, BeginSleep, LogWriteAppend
<1>3. CASE BeginOp(p)
  <2>1. p \notin Live /\ Live' = Live \cup {p} /\ cache' = cache
    BY <1>3, LiveBegins DEF BeginOp
  <2>2. Abstract!Begin(p)
    BY <1>1, <2>1 DEF Abstract!Begin, Live
  <2>3. QED
    BY <2>2 DEF Abstract!Next
<1>4. CASE LogWriteCheck(p)
  <2>1. p \in Live /\ Live' = Live /\ boot = "up"
    BY <1>4, LiveSame DEF LogWriteCheck, Live, Phases
  <2>2. PICK b \in Blocks, v \in Vals : cache' = [cache EXCEPT ![b] = v]
    BY <1>4 DEF LogWriteCheck
  <2>3. Abstract!Write(p, b, v)
    BY <1>1, <2>1, <2>2 DEF Abstract!Write, Live
  <2>4. QED
    BY <2>3 DEF Abstract!Next
<1>5. CASE EndOp(p)
  <2>1. p \in Live /\ Live' = Live \ {p} /\ cache' = cache
    BY <1>5, LiveEnds DEF EndOp
  <2>2. Abstract!End(p)
    BY <1>1, <2>1 DEF Abstract!End, Live
  <2>3. QED
    BY <2>2 DEF Abstract!Next
<1>6. QED
  BY <1>2, <1>3, <1>4, <1>5 DEF Running

LEMMA CommitRefines ==
  ASSUME LogInv, NEW p \in Procs, Commit(p)
  PROVE  [Abstract!Next]_(Abstract!avars)
<1> TypeOK /\ Counted /\ Phases /\ Disk /\ Bounded
  BY DEF LogInv
<1>1. boot = "up" /\ boot' = boot /\ Live = {} /\ Live' = {}
  BY CommitterAlone, LiveSame DEF Commit, WriteLog, WriteHead, Install, ClearHead, Finish
<1>2. CASE WriteLog(p)
  <2>1. hdr = <<>> /\ hdr' = hdr /\ home' = home /\ cache' = cache
    <3>1. pc[p] = "writelog"
      BY <1>2 DEF WriteLog
    <3>2. \A q \in Procs : pc[q] # "install" /\ pc[q] # "clear"
      BY <3>1, CommitterAlone
    <3>3. QED
      BY <1>1, <1>2, <3>2 DEF WriteLog, Disk, At
  <2>2. Recovered' = Recovered
    BY <2>1 DEF Recovered
  <2>3. QED
    BY <1>1, <2>1, <2>2, QuietSteps
<1>3. CASE WriteHead(p)
  <2>1. Recovered' = cache /\ cache' = cache
    BY <1>3, RecoveredCommits DEF WriteHead
  <2>2. Abstract!Commit
    BY <1>1, <2>1 DEF Abstract!Commit, Live
  <2>3. QED
    BY <2>2 DEF Abstract!Next
<1>4. CASE Install(p)
  <2>1. hdr = lh /\ Copied(nlog)
    BY <1>1, <1>4 DEF Install, Disk, At
  <2>2. CASE InstallOne
    <3>1. Recovered' = Recovered
      BY <2>1, <2>2, RecoveredInstalls
    <3>2. \A b \in Blocks : cache'[b] = cache[b]
      BY <2>1, <2>2, InstallWrites, AllOfThem
    <3>3. cache' = cache
      <4>1. TypeOK'
        BY TypesKept DEF Next, Proc
      <4>2. QED
        BY <3>2, <4>1 DEF TypeOK
    <3>4. QED
      BY <1>1, <3>1, <3>3, QuietSteps
  <2>3. CASE UNCHANGED <<disk, cache, tail>>
    BY <1>1, <2>3, QuietSteps DEF disk, Recovered
  <2>4. QED
    BY <1>4, <2>2, <2>3 DEF Install
<1>5. CASE ClearHead(p)
  <2>1. /\ hdr = lh /\ Installed(nlog) /\ hdr' = <<>> /\ UNCHANGED <<logd, home, cache>>
    BY <1>1, <1>5 DEF ClearHead, Disk, At
  <2>2. Recovered' = Recovered
    BY <2>1, RecoveredClears
  <2>3. QED
    BY <1>1, <2>1, <2>2, QuietSteps
<1>6. CASE Finish(p)
  BY <1>1, <1>6, QuietSteps DEF Finish, disk, Recovered
<1>7. QED
  BY <1>2, <1>3, <1>4, <1>5, <1>6 DEF Commit

LEMMA RecoveryRefines ==
  ASSUME LogInv, Crash \/ Recover
  PROVE  [Abstract!Next]_(Abstract!avars)
<1> TypeOK /\ Phases /\ Disk
  BY DEF LogInv
<1>1. Live' = {}
  BY LiveRestarts
<1>2. CASE Crash
  <2>1. Recovered' = Recovered /\ boot' = "readhead"
    BY <1>2 DEF Crash, disk, Recovered
  <2>2. Abstract!Crash
    BY <1>1, <2>1 DEF Abstract!Crash, Live
  <2>3. QED
    BY <2>2 DEF Abstract!Next
<1>3. CASE Recover
  <2>1. boot # "up" /\ Live = {} /\ Live' = {}
    BY <1>1, <1>3 DEF Recover, ReadHead, RecoverInstall, RecoverClear, Phases, Live
  <2>2. Recovered' = Recovered /\ mem' = mem
    <3>1. CASE ReadHead
      BY <3>1 DEF ReadHead, disk, Recovered, mem
    <3>2. CASE RecoverInstall
      <4>1. hdr = lh /\ boot = "install" /\ boot' # "up"
        BY <3>2 DEF RecoverInstall, Disk
      <4>2. Recovered' = Recovered
        <5>1. CASE InstallOne
          BY <4>1, <5>1, RecoveredInstalls
        <5>2. CASE UNCHANGED <<disk, cache, tail>>
          BY <5>2 DEF disk, Recovered
        <5>3. QED
          BY <3>2, <5>1, <5>2 DEF RecoverInstall
      <4>3. QED
        BY <4>1, <4>2 DEF mem
    <3>3. CASE RecoverClear
      <4>1. /\ hdr = lh /\ Installed(nlog) /\ hdr' = <<>> /\ UNCHANGED <<logd, home, cache>>
            /\ boot = "clear" /\ boot' = "up" /\ cache = home
        BY <3>3 DEF RecoverClear, Disk
      <4>2. Recovered = home /\ Recovered' = home
        BY <4>1, RecoveredClears
      <4>3. QED
        BY <4>1, <4>2 DEF mem
    <3>4. QED
      BY <1>3, <3>1, <3>2, <3>3 DEF Recover
  <2>3. QED
    BY <2>1, <2>2 DEF Abstract!avars, Live, mem
<1>4. QED
  BY <1>2, <1>3

\* Whatever the interleaving of operations, commit, crashes and recovery, the disk after a
\* crash is the one between whole operations, and all the operations that had ended
\* come to it at once (log.c:12-16), for any number of processes and blocks.
THEOREM LogImplementsAtomicDisk == Spec => ImplementsAtomicDisk
<1>1. Init => Abstract!Init
  <2> SUFFICES ASSUME Init PROVE Abstract!Init
    OBVIOUS
  <2>1. LogInv
    BY LogInitial
  <2>2. Recovered = home
    BY <2>1, RecoveredFacts DEF Init
  <2>3. QED
    BY <2>2 DEF Init, Abstract!Init
<1>2. LogInv /\ [Next]_vars => [Abstract!Next]_(Abstract!avars)
  <2> SUFFICES ASSUME LogInv, [Next]_vars PROVE [Abstract!Next]_(Abstract!avars)
    OBVIOUS
  <2>1. CASE Next
    BY <2>1, OperationRefines, CommitRefines, RecoveryRefines
       DEF Next, Proc, BeginSteps, Running
  <2>2. CASE UNCHANGED vars
    BY <2>2, QuietSteps DEF vars, Recovered, Live
  <2>3. QED
    BY <2>1, <2>2
<1>3. QED
  BY <1>1, <1>2, LogInvariance, PTL DEF Spec, ImplementsAtomicDisk, Abstract!Spec
=============================================================================
