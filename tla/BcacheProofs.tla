---------------------------- MODULE BcacheProofs ----------------------------
(***************************************************************************)
(* Proofs about Bcache, for any processes, blocks and numbers of buffers,   *)
(* when the log is empty at boot: no block is cached twice, a reference     *)
(* count is exact, a process keeps the buffer it was given, and cache and    *)
(* log together are a store with one current copy of each block.            *)
(*                                                                           *)
(* And about FileData, what files keep in those blocks: each block has one   *)
(* owner, an operation logs no more than it may, and reads and writes are    *)
(* those of a sequence of bytes.                                            *)
(***************************************************************************)
EXTENDS Bcache, FileData, FiniteSetTheorems, SequenceTheorems, WellFoundedInduction, TLAPS

Stored == Blocks \cup LogBlocks
Asked(p) == 1..Len(use[p])

\* The loops of the commit run alone, over a list that names a block once.
Phases ==
  /\ committer = NoProc <=> phase = "idle"
  /\ ops # {} => committer = NoProc
  /\ phase = "recover" => lh = <<>>
  /\ tail <= Len(lh) + 1
  /\ \A i, j \in 1..Len(lh) : lh[i] = lh[j] => i = j

\* What a process that does not commit may be at: one home block.
UserAt(p) ==
  /\ Len(use[p]) <= 1
  /\ \A i \in Asked(p) : use[p][i].block \in Blocks
  /\ pc[p] \notin {"unpin", "drain"}
  /\ pc[p] = "deref" => use[p] = <<>>

\* The committer asks for the log block of its turn, then for the home block.
CommitterAt(p) ==
  /\ Len(use[p]) <= 2
  /\ pc[p] \in {"ready", "lock", "fill", "unpin"} =>
       /\ Len(use[p]) > 0 => tail <= Len(lh) /\ use[p][1].block = tail
       /\ Len(use[p]) = 2 => use[p][2].block = lh[tail]
  /\ Len(use[p]) = 2 => use[p][1].block \in LogBlocks /\ use[p][2].block \in Blocks
  /\ pc[p] = "unpin" => phase = "install" /\ Len(use[p]) = 2
  /\ pc[p] = "drain" => use[p] # <<>>
  /\ pc[p] = "deref" => Len(use[p]) <= 1

PlaceOf(p) ==
  /\ IF p = committer THEN CommitterAt(p) ELSE UserAt(p)
  /\ pc[p] \in {"lock", "fill", "dirty"} => use[p] # <<>>
  /\ pc[p] = "dirty" => p \in ops
  /\ pc[p] = "deref" <=> drop[p] # 0

Places == \A p \in Procs : PlaceOf(p)

\* Whoever has asked for a block refers to its buffer, and one that is locked is
\* locked by somebody who asked for it.
Named ==
  /\ \A p \in Procs : \A i \in Asked(p) : blockno[use[p][i].buf] = use[p][i].block
  /\ \A x \in Bufs : owner[x] # NoProc => \E i \in Asked(owner[x]) : use[owner[x]][i].buf = x
  /\ \A p \in Procs : pc[p] = "fill" => owner[Top(p).buf] = p /\ ~valid[Top(p).buf]

\* Of what has been asked for, it is held what bread() has returned.
Holding ==
  \A p \in Procs : \A i \in Asked(p) : Held(p, i) =>
    owner[use[p][i].buf] = p /\ valid[use[p][i].buf]

PinsCached == \A b \in Pinned : \E x \in Bufs : blockno[x] = b

\* The room for the blocks that are modified and not logged yet.
Pending == {p \in Procs : pc[p] = "dirty" /\ blockno[Top(p).buf] \notin Logged}
Room == Len(lh) + Cardinality(Pending) <= LOGSIZE

\* The current contents of a block, home or log.
Val(b) == Block(b).val

\* Modified and not logged yet.
Dirty(x) == \E p \in Procs : pc[p] = "dirty" /\ Top(p).buf = x

\* Only a modified block that is not installed yet differs from the disk.
Clean ==
  /\ \A x \in Bufs :
       \/ ~valid[x] \/ blockno[x] = NoBlock
       \/ data[x] = disk[blockno[x]]
       \/ blockno[x] \in Pinned
       \/ Dirty(x)
  /\ \A p \in Procs :
       pc[p] = "unpin" => data[use[p][2].buf] = disk[use[p][2].block]

\* What has been copied to the log is still what the home block contains.
Copied ==
  /\ phase = "copy" => \A i \in 1..Len(lh) : i < tail => Val(i) = Val(lh[i])
  /\ phase = "install" => \A i \in 1..Len(lh) : Val(i) = Val(lh[i])

BcacheInv ==
  /\ TypeOK /\ OneBufferPerBlock /\ RefcntExact
  /\ Phases /\ Places /\ Named /\ Holding /\ PinsCached /\ Room /\ Clean /\ Copied

-----------------------------------------------------------------------------
(* Sequences, sets of uses, the list of buffers. *)

LEMMA RemovedFrom ==
  ASSUME NEW S, NEW s \in Seq(S), NEW i \in 1..Len(s)
  PROVE  LET t == SubSeq(s, 1, i - 1) \o SubSeq(s, i + 1, Len(s))
         IN  /\ t \in Seq(S) /\ Len(t) = Len(s) - 1
             /\ \A j \in 1..(Len(s) - 1) : t[j] = s[IF j < i THEN j ELSE j + 1]
<1> DEFINE u == SubSeq(s, 1, i - 1)
           v == SubSeq(s, i + 1, Len(s))
<1>1. Len(s) \in Nat /\ i \in Nat
  BY LenProperties
<1>2. u \in Seq(S) /\ Len(u) = i - 1 /\ \A j \in 1..(i - 1) : u[j] = s[j]
  BY <1>1, SubSeqProperties
<1>3. v \in Seq(S) /\ Len(v) = Len(s) - i /\ \A j \in 1..(Len(s) - i) : v[j] = s[j + i]
  BY <1>1, SubSeqProperties
<1> HIDE DEF u, v
<1>4. /\ u \o v \in Seq(S) /\ Len(u \o v) = Len(u) + Len(v)
      /\ \A j \in 1..(Len(u) + Len(v)) : (u \o v)[j] = IF j <= Len(u) THEN u[j] ELSE v[j - Len(u)]
  BY <1>2, <1>3, ConcatProperties
<1>5. ASSUME NEW j \in 1..(Len(s) - 1) PROVE (u \o v)[j] = s[IF j < i THEN j ELSE j + 1]
  <2>1. (u \o v)[j] = IF j <= Len(u) THEN u[j] ELSE v[j - Len(u)]
    BY <1>1, <1>2, <1>3, <1>4
  <2>2. CASE j < i
    BY <1>1, <1>2, <2>1, <2>2
  <2>3. CASE ~(j < i)
    <3>1. j - Len(u) \in 1..(Len(s) - i) /\ ~(j <= Len(u)) /\ (j - Len(u)) + i = j + 1
      BY <1>1, <1>2, <2>3
    <3>2. v[j - Len(u)] = s[(j - Len(u)) + i]
      BY <1>3, <3>1
    <3>3. QED
      BY <2>1, <2>3, <3>1, <3>2
  <2>4. QED
    BY <2>2, <2>3
<1>6. Len(u \o v) = Len(s) - 1
  BY <1>1, <1>2, <1>3, <1>4
<1>7. QED
  BY <1>4, <1>5, <1>6, Zenon DEF u, v

\* Buffers are numbered from 1.
LEMMA BufsAre == NBUF \in Nat /\ 1 <= NBUF /\ Bufs = 1..NBUF /\ 1 \in Bufs
BY SizesAssumption DEF Bufs

\* The sets that count references are finite, and no counter wraps.
LEMMA Countable ==
  ASSUME NEW U \in SUBSET (Procs \X (1..2)), NEW D \in SUBSET Procs
  PROVE  /\ IsFiniteSet(U) /\ Cardinality(U) \in Nat
         /\ IsFiniteSet(D) /\ Cardinality(D) \in Nat
         /\ Cardinality(U) + Cardinality(D) + 1 < Wrap
<1>1. IsFiniteSet(1..2) /\ Cardinality(1..2) = 2
  <2>1. /\ IsFiniteSet(1..2)
        /\ Cardinality(1..2) = IF 1 > 2 THEN 0 ELSE 2 - 1 + 1
    BY FS_Interval, 1 \in Int, 2 \in Int, Zenon
  <2>2. QED
    BY <2>1
<1>2. IsFiniteSet(Procs \X (1..2)) /\ Cardinality(Procs \X (1..2)) = Cardinality(Procs) * 2
  BY <1>1, SizesAssumption, FS_Product
<1>3. IsFiniteSet(U) /\ Cardinality(U) <= Cardinality(Procs \X (1..2))
  BY <1>2, FS_Subset
<1>4. IsFiniteSet(D) /\ Cardinality(D) <= Cardinality(Procs)
  BY SizesAssumption, FS_Subset
<1>5. Cardinality(U) \in Nat /\ Cardinality(D) \in Nat /\ Cardinality(Procs) \in Nat
  BY <1>3, <1>4, SizesAssumption, FS_CardinalityType
<1>6. QED
  BY <1>2, <1>3, <1>4, <1>5, SizesAssumption

LEMMA SmallestOf ==
  ASSUME NEW T \in SUBSET Nat, T # {}
  PROVE  \E n \in T : \A m \in T : n <= m
<1>1. PICK n \in T : \A m \in T : ~(<<m, n>> \in OpToRel(<, Nat))
  BY NatLessThanWellFounded, WFMin
<1>2. \A m \in T : ~(m < n)
  BY <1>1 DEF OpToRel
<1>3. QED
  BY <1>2

\* A scan of the list finds a buffer of S if there is one.
LEMMA ScansFind ==
  ASSUME TypeOK, NEW S \in SUBSET Bufs, S # {}
  PROVE  FirstIn(S) \in S /\ LastIn(S) \in S
<1> /\ lru \in [Bufs -> Bufs] /\ NBUF \in Nat /\ Bufs = 1..NBUF
    /\ \A x \in Bufs : \E i \in Bufs : lru[i] = x
  BY BufsAre DEF TypeOK
<1> DEFINE T == {i \in Bufs : lru[i] \in S}
           R == {n \in Nat : \E i \in T : n = NBUF - i}
<1>1. T # {} /\ T \in SUBSET Nat /\ R # {} /\ R \in SUBSET Nat
  <2>1. PICK x \in S, i \in Bufs : lru[i] = x
    OBVIOUS
  <2>2. i \in T /\ NBUF - i \in R
    BY <2>1
  <2>3. \A k \in T : k \in Nat
    OBVIOUS
  <2>4. \A n \in R : n \in Nat
    OBVIOUS
  <2>5. QED
    BY <2>2, <2>3, <2>4
<1>2. PICK i \in T : \A m \in T : i <= m
  BY <1>1, SmallestOf
<1>3. FirstIn(S) \in S
  <2>1. i \in Bufs /\ lru[i] \in S /\ \A j \in 1..(i - 1) : lru[j] \notin S
    BY <1>2
  <2>2. QED
    BY <2>1 DEF FirstIn
<1>4. PICK n \in R : \A m \in R : n <= m
  BY <1>1, SmallestOf
<1>5. LastIn(S) \in S
  <2>1. PICK k \in T : n = NBUF - k
    BY <1>4
  <2>2. ASSUME NEW j \in (k + 1)..NBUF, lru[j] \in S PROVE FALSE
    <3>1. j \in T /\ NBUF - j \in Nat /\ NBUF - j \in R
      BY <2>1, <2>2
    <3>2. NBUF - k <= NBUF - j
      BY <1>4, <2>1, <3>1
    <3>3. QED
      BY <2>1, <2>2, <3>2
  <2>3. QED
    BY <2>1, <2>2 DEF LastIn
<1>6. QED
  BY <1>3, <1>5

\* A buffer that is put at the head of the list is not lost, nor is another.
LEMMA FrontKeepsAll ==
  ASSUME TypeOK, NEW x \in Bufs
  PROVE  ToFront(x) \in [Bufs -> Bufs] /\ \A y \in Bufs : \E i \in Bufs : ToFront(x)[i] = y
<1> /\ lru \in [Bufs -> Bufs] /\ NBUF \in Nat /\ Bufs = 1..NBUF /\ 1 \in Bufs
    /\ \A y \in Bufs : \E i \in Bufs : lru[i] = y
  BY BufsAre DEF TypeOK
<1>1. ToFront(x) \in [Bufs -> Bufs]
  <2>1. \A i \in Bufs : i # 1 => i - 1 \in Bufs
    OBVIOUS
  <2>2. QED
    BY <2>1 DEF ToFront
<1>2. ASSUME NEW y \in Bufs PROVE \E i \in Bufs : ToFront(x)[i] = y
  <2>1. CASE y = x
    BY <2>1 DEF ToFront
  <2>2. CASE y # x
    <3>1. PICK i \in Bufs : lru[i] = y
      OBVIOUS
    <3>2. PICK k \in Bufs : lru[k] = x
      OBVIOUS
    <3>3. CASE \E j \in i..NBUF : lru[j] = x
      <4>1. PICK j \in i..NBUF : lru[j] = x
        BY <3>3
      <4>2. j # i
        BY <2>2, <3>1, <4>1
      <4>3. i + 1 \in Bufs /\ j \in (i + 1)..NBUF /\ i + 1 # 1 /\ (i + 1) - 1 = i
        BY <4>1, <4>2
      <4>4. ToFront(x)[i + 1] = lru[(i + 1) - 1]
        BY <4>1, <4>3 DEF ToFront
      <4>5. QED
        BY <3>1, <4>3, <4>4
    <3>4. CASE ~\E j \in i..NBUF : lru[j] = x
      BY <3>1, <3>2, <3>4 DEF ToFront
    <3>5. QED
      BY <3>3, <3>4
  <2>3. QED
    BY <2>1, <2>2
<1>3. QED
  BY <1>1, <1>2

-----------------------------------------------------------------------------
(* What bget(), brelse() and the others do, in terms of the blocks in use.   *)

LEMMA Facts ==
  ASSUME BcacheInv
  PROVE  /\ Len(lh) \in Nat /\ lh \in Seq(Blocks) /\ \A i \in 1..Len(lh) : lh[i] \in Blocks
         /\ \A p \in Procs : /\ use[p] \in Seq([block : Stored, buf : Bufs])
                             /\ Len(use[p]) \in {0, 1, 2}
                             /\ Len(use[p]) = 0 <=> use[p] = <<>>
                             /\ \A i \in Asked(p) : /\ use[p][i].block \in Stored
                                                    /\ use[p][i].buf \in Bufs
<1> TypeOK /\ Places
  BY DEF BcacheInv
<1>1. Len(lh) \in Nat /\ lh \in Seq(Blocks) /\ \A i \in 1..Len(lh) : lh[i] \in Blocks
  BY ElementOfSeq, LenProperties DEF TypeOK
<1>2. ASSUME NEW p \in Procs
      PROVE  /\ use[p] \in Seq([block : Stored, buf : Bufs])
             /\ Len(use[p]) \in {0, 1, 2}
             /\ Len(use[p]) = 0 <=> use[p] = <<>>
             /\ \A i \in Asked(p) : use[p][i].block \in Stored /\ use[p][i].buf \in Bufs
  <2>1. use[p] \in Seq([block : Stored, buf : Bufs])
    BY DEF TypeOK, Stored
  <2>2. Len(use[p]) \in Nat /\ (Len(use[p]) = 0 <=> use[p] = <<>>)
    BY <2>1, EmptySeq, LenProperties
  <2>3. Len(use[p]) <= 2
    BY <2>2 DEF Places, PlaceOf, CommitterAt, UserAt
  <2>4. \A i \in Asked(p) : use[p][i] \in [block : Stored, buf : Bufs]
    BY <2>1, ElementOfSeq DEF Asked
  <2>5. \A i \in Asked(p) : use[p][i].block \in Stored /\ use[p][i].buf \in Bufs
    BY <2>4
  <2>6. Len(use[p]) \in {0, 1, 2}
    <3>1. \A n \in Nat : n <= 2 => n \in {0, 1, 2}
      OBVIOUS
    <3>2. QED
      BY <2>2, <2>3, <3>1
  <2>7. QED
    BY <2>1, <2>2, <2>5, <2>6
<1>3. QED
  BY <1>1, <1>2

\* A process that may call bread() for b.
Wants(p, b) ==
  /\ pc[p] = "ready" /\ b \in Stored
  /\ IF p = committer
     THEN /\ tail <= Len(lh) /\ Len(use[p]) < 2
          /\ b = IF use[p] = <<>> THEN tail ELSE lh[tail]
     ELSE use[p] = <<>> /\ b \in Blocks

\* bget() gives it x: the buffer that caches b, or an unused one.
Got(p, b, x) ==
  /\ \/ /\ blockno[x] = b
        /\ UNCHANGED <<blockno, valid>>
     \/ /\ Cached(b) = {} /\ refcnt[x] = 0
        /\ blockno' = [blockno EXCEPT ![x] = b]
        /\ valid' = [valid EXCEPT ![x] = FALSE]
  /\ refcnt' = [refcnt EXCEPT ![x] = (@ + 1) % Wrap]
  /\ Asks(p, b, x)
  /\ UNCHANGED <<lru, data, owner, disk, log>>

Gets(p) == Bread(p) \/ CommitBread(p)

LEMMA BgetGets ==
  ASSUME BcacheInv, NEW p \in Procs, Gets(p)
  PROVE  \E b \in Stored, x \in Bufs : Wants(p, b) /\ Got(p, b, x)
<1> TypeOK /\ Phases
  BY DEF BcacheInv
<1>1. PICK b \in Stored : Wants(p, b) /\ (BgetHit(p, b) \/ BgetMiss(p, b))
  <2>1. CASE Bread(p)
    BY <2>1 DEF Bread, Wants, Stored, User
  <2>2. CASE CommitBread(p)
    <3> DEFINE b == IF use[p] = <<>> THEN tail ELSE lh[tail]
    <3>1. tail \in 1..LOGSIZE /\ tail \in 1..Len(lh)
      BY <2>2, Facts, SizesAssumption DEF CommitBread, TypeOK
    <3>2. b \in Stored
      BY <3>1, Facts DEF Stored, LogBlocks
    <3>3. QED
      BY <2>2, <3>2 DEF CommitBread, Wants
  <2>3. QED
    BY <2>1, <2>2 DEF Gets
<1>2. CASE BgetHit(p, b)
  <2>1. FirstIn(Cached(b)) \in Cached(b)
    BY <1>2, ScansFind DEF BgetHit, Cached
  <2>2. QED
    BY <1>1, <1>2, <2>1 DEF BgetHit, Got, Cached
<1>3. CASE BgetMiss(p, b)
  <2>1. LastIn(Unused) \in Unused
    BY <1>3, ScansFind DEF BgetMiss, Unused
  <2>2. PICK x \in Bufs : x = LastIn(Unused) /\ refcnt[x] = 0
    BY <2>1 DEF Unused
  <2>3. (refcnt[x] + 1) % Wrap = 1
    <3>1. Cardinality(Procs) \in Nat
      BY SizesAssumption, FS_CardinalityType
    <3>2. Wrap \in Nat /\ 1 < Wrap
      BY <3>1, SizesAssumption
    <3>3. QED
      BY <2>2, <3>2
  <2>4. Got(p, b, x)
    BY <1>3, <2>2, <2>3 DEF BgetMiss, Got, TypeOK
  <2>5. QED
    BY <1>1, <2>4
<1>4. QED
  BY <1>1, <1>2, <1>3

LEMMA AskedOneMore ==
  ASSUME BcacheInv, NEW p \in Procs, NEW b \in Stored, NEW x \in Bufs, Asks(p, b, x)
  PROVE  /\ use' \in [Procs -> Seq([block : Stored, buf : Bufs])]
         /\ Len(use'[p]) = Len(use[p]) + 1
         /\ use'[p][Len(use[p]) + 1] = [block |-> b, buf |-> x]
         /\ \A i \in Asked(p) : use'[p][i] = use[p][i]
         /\ \A q \in Procs : q # p => use'[q] = use[q] /\ pc'[q] = pc[q]
         /\ pc'[p] = "lock" /\ drop' = drop
<1> use \in [Procs -> Seq([block : Stored, buf : Bufs])] /\ TypeOK
  BY DEF BcacheInv, TypeOK, Stored
<1>1. /\ use' = [use EXCEPT ![p] = Append(@, [block |-> b, buf |-> x])] /\ drop' = drop
      /\ pc' = [pc EXCEPT ![p] = "lock"]
  BY DEF Asks, Goto
<1>2. [block |-> b, buf |-> x] \in [block : Stored, buf : Bufs]
  OBVIOUS
<1>3. /\ use'[p] = Append(use[p], [block |-> b, buf |-> x])
      /\ \A q \in Procs : q # p => use'[q] = use[q]
  BY <1>1
<1>4. /\ use'[p] \in Seq([block : Stored, buf : Bufs])
      /\ Len(use'[p]) = Len(use[p]) + 1
      /\ use'[p][Len(use[p]) + 1] = [block |-> b, buf |-> x]
      /\ \A i \in Asked(p) : use'[p][i] = use[p][i]
  <2>1. PICK s \in Seq([block : Stored, buf : Bufs]), e \in [block : Stored, buf : Bufs] :
          s = use[p] /\ e = [block |-> b, buf |-> x]
    BY <1>2
  <2>2. /\ Append(s, e) \in Seq([block : Stored, buf : Bufs])
        /\ Len(Append(s, e)) = Len(s) + 1
        /\ \A i \in 1..Len(s) : Append(s, e)[i] = s[i]
        /\ Append(s, e)[Len(s) + 1] = e
    BY AppendProperties
  <2>3. QED
    BY <1>3, <2>1, <2>2, Zenon DEF Asked
<1>5. pc'[p] = "lock" /\ \A q \in Procs : q # p => pc'[q] = pc[q]
  BY <1>1 DEF TypeOK
<1>6. use' \in [Procs -> Seq([block : Stored, buf : Bufs])]
  BY <1>1, <1>4
<1>7. QED
  BY <1>1, <1>3, <1>4, <1>5, <1>6

\* The buffer that a process unlocks is the i-th it has in use.
Lets(p, i) ==
  /\ i \in Asked(p) /\ Unlock(p, i)
  /\ pc[p] \in {"ready", "drain"}

LEMMA BrelseLets ==
  ASSUME BcacheInv, NEW p \in Procs, Brelse(p) \/ Drain(p)
  PROVE  \E i \in Asked(p) : Lets(p, i)
<1> Places
  BY DEF BcacheInv
<1>1. CASE Brelse(p)
  <2>1. 1 \in Asked(p)
    BY <1>1, Facts DEF Brelse, Asked
  <2>2. QED
    BY <1>1, <2>1 DEF Brelse, Lets
<1>2. CASE Drain(p)
  <2>1. use[p] # <<>>
    BY <1>2 DEF Drain, Places, PlaceOf, CommitterAt, UserAt
  <2>2. 1 \in Asked(p) /\ Len(use[p]) \in Asked(p)
    BY <2>1, Facts DEF Asked
  <2>3. QED
    BY <1>2, <2>2 DEF Drain, Lets
<1>3. QED
  BY <1>1, <1>2

LEMMA AskedOneLess ==
  ASSUME BcacheInv, NEW p \in Procs, NEW i, Lets(p, i)
  PROVE  /\ use' \in [Procs -> Seq([block : Stored, buf : Bufs])]
         /\ Len(use'[p]) = Len(use[p]) - 1
         /\ \A j \in Asked(p)' : use'[p][j] = use[p][IF j < i THEN j ELSE j + 1]
         /\ \A q \in Procs : q # p => use'[q] = use[q] /\ pc'[q] = pc[q] /\ drop'[q] = drop[q]
         /\ pc'[p] = "deref" /\ drop'[p] = use[p][i].buf
         /\ drop[p] = 0
<1> /\ use \in [Procs -> Seq([block : Stored, buf : Bufs])] /\ TypeOK /\ Places
    /\ i \in 1..Len(use[p])
  BY DEF BcacheInv, TypeOK, Stored, Lets, Asked
<1>1. /\ use' = [use EXCEPT ![p] = SubSeq(@, 1, i - 1) \o SubSeq(@, i + 1, Len(@))]
      /\ drop' = [drop EXCEPT ![p] = use[p][i].buf]
      /\ pc' = [pc EXCEPT ![p] = "deref"]
  BY DEF Lets, Unlock, Goto
<1>2. /\ use'[p] = SubSeq(use[p], 1, i - 1) \o SubSeq(use[p], i + 1, Len(use[p]))
      /\ \A q \in Procs : q # p => use'[q] = use[q]
  BY <1>1
<1>3. /\ use'[p] \in Seq([block : Stored, buf : Bufs])
      /\ Len(use'[p]) = Len(use[p]) - 1
      /\ \A j \in 1..(Len(use[p]) - 1) : use'[p][j] = use[p][IF j < i THEN j ELSE j + 1]
  <2>1. PICK s \in Seq([block : Stored, buf : Bufs]) : s = use[p]
    OBVIOUS
  <2>2. i \in 1..Len(s)
    BY <2>1
  <2>3. LET t == SubSeq(s, 1, i - 1) \o SubSeq(s, i + 1, Len(s))
        IN  /\ t \in Seq([block : Stored, buf : Bufs]) /\ Len(t) = Len(s) - 1
            /\ \A j \in 1..(Len(s) - 1) : t[j] = s[IF j < i THEN j ELSE j + 1]
    BY <2>2, RemovedFrom
  <2>4. QED
    BY <1>2, <2>1, <2>3, Zenon
<1>4. /\ pc'[p] = "deref" /\ drop'[p] = use[p][i].buf /\ drop[p] = 0
      /\ \A q \in Procs : q # p => pc'[q] = pc[q] /\ drop'[q] = drop[q]
  BY <1>1 DEF TypeOK, Lets, Places, PlaceOf
<1>5. use' \in [Procs -> Seq([block : Stored, buf : Bufs])]
  <2>1. DOMAIN use' = Procs /\ use' = [q \in Procs |-> use'[q]]
    BY <1>1
  <2>2. QED
    BY <1>2, <1>3, <2>1
<1>6. QED
  BY <1>2, <1>3, <1>4, <1>5 DEF Asked

\* An unused buffer is nobody's, and its block is not pinned.
LEMMA UnusedIsFree ==
  ASSUME BcacheInv, NEW x \in Bufs, refcnt[x] = 0
  PROVE  /\ \A p \in Procs : \A i \in Asked(p) : use[p][i].buf # x
         /\ \A p \in Procs : drop[p] # x
         /\ blockno[x] \notin Pinned
         /\ owner[x] = NoProc
<1> RefcntExact /\ Named /\ TypeOK
  BY DEF BcacheInv
<1>1. PICK U \in SUBSET (Procs \X (1..2)), D \in SUBSET Procs : U = Uses(x) /\ D = Droppers(x)
  BY DEF Uses, Droppers
<1>2. /\ IsFiniteSet(U) /\ Cardinality(U) \in Nat
      /\ IsFiniteSet(D) /\ Cardinality(D) \in Nat
  BY Countable
<1>3. 0 = Cardinality(U) + Cardinality(D) + (IF blockno[x] \in Pinned THEN 1 ELSE 0)
  BY <1>1 DEF RefcntExact
<1>4. Cardinality(U) = 0 /\ Cardinality(D) = 0 /\ blockno[x] \notin Pinned
  BY <1>2, <1>3
<1>5. Uses(x) = {} /\ Droppers(x) = {}
  BY <1>1, <1>2, <1>4, FS_EmptySet
<1>6. ASSUME NEW p \in Procs, NEW i \in Asked(p), use[p][i].buf = x PROVE FALSE
  <2>1. i \in 1..2 /\ i <= Len(use[p])
    BY Facts DEF Asked
  <2>2. <<p, i>> \in Uses(x)
    BY <1>6, <2>1 DEF Uses
  <2>3. QED
    BY <1>5, <2>2
<1>7. \A p \in Procs : drop[p] # x
  BY <1>5 DEF Droppers
<1>8. owner[x] = NoProc
  BY <1>6 DEF Named, TypeOK
<1>9. QED
  BY <1>4, <1>6, <1>7, <1>8

\* A modified block is a home block in use by an operation, and nobody commits.
LEMMA DirtyIs ==
  ASSUME BcacheInv, NEW p \in Procs, pc[p] = "dirty"
  PROVE  /\ p \in ops /\ phase = "idle" /\ committer = NoProc
         /\ Len(use[p]) = 1 /\ Top(p) = use[p][1] /\ 1 \in Asked(p)
         /\ Top(p).buf \in Bufs /\ Top(p).block \in Blocks
         /\ blockno[Top(p).buf] = Top(p).block
<1> TypeOK /\ Places /\ Phases /\ Named
  BY DEF BcacheInv
<1>1. p \in ops /\ use[p] # <<>>
  BY DEF Places, PlaceOf
<1>2. committer = NoProc /\ phase = "idle" /\ p # committer
  BY <1>1, SizesAssumption DEF Phases
<1>3. UserAt(p) /\ Len(use[p]) = 1
  BY <1>1, <1>2, Facts DEF Places, PlaceOf, UserAt
<1>4. Top(p) = use[p][1] /\ 1 \in Asked(p)
  BY <1>3 DEF Top, Asked
<1>5. Top(p).buf \in Bufs /\ Top(p).block \in Blocks
  BY <1>3, <1>4, Facts DEF UserAt
<1>6. QED
  BY <1>1, <1>2, <1>3, <1>4, <1>5 DEF Named

\* log_write() of a block adds it to the list at most once.
LEMMA LogWriteAdds ==
  ASSUME BcacheInv, NEW p \in Procs, LogWrite(p)
  PROVE  LET b == blockno[Top(p).buf]
         IN  /\ lh' \in Seq(Blocks) /\ Logged' = Logged \cup {b}
             /\ Len(lh') = IF b \in Logged THEN Len(lh) ELSE Len(lh) + 1
             /\ \A i \in 1..Len(lh) : lh'[i] = lh[i]
             /\ b \notin Logged => lh'[Len(lh) + 1] = b
<1>1. PICK b \in Blocks : b = blockno[Top(p).buf]
  BY DirtyIs DEF LogWrite
<1>2. CASE b \in Logged
  <2>1. lh' = lh /\ lh \in Seq(Blocks)
    BY <1>1, <1>2, Facts DEF LogWrite
  <2>2. QED
    BY <1>1, <1>2, <2>1 DEF Logged
<1>3. CASE b \notin Logged
  <2>1. PICK s \in Seq(Blocks) : s = lh
    BY Facts
  <2>2. /\ Append(s, b) \in Seq(Blocks) /\ Len(Append(s, b)) = Len(s) + 1
        /\ \A i \in 1..Len(s) : Append(s, b)[i] = s[i]
        /\ Append(s, b)[Len(s) + 1] = b
    BY AppendProperties
  <2>3. lh' = Append(s, b)
    BY <1>1, <1>3, <2>1 DEF LogWrite
  <2>4. /\ lh' \in Seq(Blocks) /\ Len(lh') = Len(lh) + 1
        /\ \A i \in 1..Len(lh) : lh'[i] = lh[i]
        /\ lh'[Len(lh) + 1] = b
    BY <2>1, <2>2, <2>3, Zenon
  <2>5. 1..Len(lh') = 1..Len(lh) \cup {Len(lh) + 1}
    BY <2>4, Facts
  <2>6. Logged' = Logged \cup {b}
    BY <2>4, <2>5 DEF Logged
  <2>7. QED
    BY <1>1, <1>3, <2>4, <2>6
<1>4. QED
  BY <1>2, <1>3

\* Only an operation, the committer and its loops change the log.
LogKept(p) ==
  \/ Gets(p) \/ (\E i \in Asked(p) : Lets(p, i)) \/ Lock(p) \/ Fill(p) \/ Deref(p)
  \/ Modify(p) \/ Install(p)
LogSteps(p) ==
  BeginOp(p) \/ LogWrite(p) \/ EndOp(p) \/ WriteLog(p) \/ Unpin(p) \/ NextPhase(p)

LEMMA StepsAre ==
  ASSUME BcacheInv, Next
  PROVE  \E p \in Procs : LogKept(p) \/ LogSteps(p)
BY BrelseLets DEF Next, Cache, Reader, Operation, Commit, Gets, LogKept, LogSteps

LEMMA LogIsKept ==
  ASSUME BcacheInv, NEW p \in Procs, LogKept(p)
  PROVE  UNCHANGED <<lh, ops, committer, phase, tail>>
<1>1. CASE Gets(p)
  BY <1>1, BgetGets DEF Got, log
<1>2. CASE \E i \in Asked(p) : Lets(p, i)
  BY <1>2 DEF Lets, Unlock, log
<1>3. CASE Lock(p) \/ Fill(p) \/ Deref(p) \/ Modify(p) \/ Install(p)
  BY <1>3 DEF Lock, Fill, Deref, Modify, Install, log
<1>4. QED
  BY <1>1, <1>2, <1>3 DEF LogKept

\* Where the committer is when both its blocks are in use.
LEMMA BothInUse ==
  ASSUME BcacheInv, NEW p \in Procs, p = committer, Len(use[p]) = 2,
         pc[p] = "ready" \/ pc[p] = "unpin"
  PROVE  /\ tail \in 1..Len(lh) /\ tail \in LogBlocks
         /\ use[p][1].block = tail /\ use[p][2].block = lh[tail]
         /\ use[p][1].buf \in Bufs /\ use[p][2].buf \in Bufs
         /\ blockno[use[p][1].buf] = tail /\ blockno[use[p][2].buf] = lh[tail]
         /\ lh[tail] \in Blocks /\ use[p][1].buf # use[p][2].buf
         /\ 1 \in Asked(p) /\ 2 \in Asked(p)
<1> TypeOK /\ Places /\ Phases /\ Named
  BY DEF BcacheInv
<1>1. CommitterAt(p)
  BY DEF Places, PlaceOf
<1>2. use[p][1].block = tail /\ use[p][2].block = lh[tail] /\ tail <= Len(lh)
  BY <1>1 DEF CommitterAt
<1>3. 1 \in Asked(p) /\ 2 \in Asked(p)
  BY DEF Asked
<1>4. tail \in 1..Len(lh) /\ tail \in LogBlocks /\ lh[tail] \in Blocks
  BY <1>2, Facts, SizesAssumption DEF TypeOK, LogBlocks
<1>5. /\ use[p][1].buf \in Bufs /\ use[p][2].buf \in Bufs
      /\ blockno[use[p][1].buf] = tail /\ blockno[use[p][2].buf] = lh[tail]
  BY <1>2, <1>3, Facts DEF Named
<1>6. QED
  BY <1>2, <1>3, <1>4, <1>5, SizesAssumption

-----------------------------------------------------------------------------
(* Each action keeps the invariant. *)

LEMMA PhasesKept ==
  ASSUME BcacheInv, Next
  PROVE  Phases'
<1> TypeOK /\ Places /\ Phases
  BY DEF BcacheInv
<1> Len(lh) \in Nat /\ tail \in Nat
  BY Facts, SizesAssumption DEF TypeOK
<1>1. PICK p \in Procs : LogKept(p) \/ LogSteps(p)
  BY StepsAre
<1>2. CASE LogKept(p)
  BY <1>2, LogIsKept DEF Phases
<1>3. CASE BeginOp(p)
  BY <1>3 DEF BeginOp, Phases
<1>4. CASE LogWrite(p)
  <2>1. UNCHANGED <<ops, committer, phase, tail>> /\ phase = "idle"
    BY <1>4, DirtyIs DEF LogWrite
  <2>2. PICK b : b = blockno[Top(p).buf]
    OBVIOUS
  <2>3. /\ Len(lh') = IF b \in Logged THEN Len(lh) ELSE Len(lh) + 1
        /\ \A i \in 1..Len(lh) : lh'[i] = lh[i]
        /\ b \notin Logged => lh'[Len(lh) + 1] = b
    BY <1>4, <2>2, LogWriteAdds
  <2>4. \A i, j \in 1..Len(lh') : lh'[i] = lh'[j] => i = j
    <3>1. CASE b \in Logged
      BY <2>3, <3>1 DEF Phases
    <3>2. CASE b \notin Logged
      <4>1. \A i \in 1..Len(lh) : lh'[i] # b
        BY <2>3, <3>2 DEF Logged
      <4>2. \A i \in 1..Len(lh') : i \in 1..Len(lh) \/ i = Len(lh) + 1
        BY <2>3, <3>2
      <4>3. QED
        BY <2>3, <3>2, <4>1, <4>2 DEF Phases
    <3>3. QED
      BY <3>1, <3>2
  <2>5. QED
    BY <2>1, <2>3, <2>4 DEF Phases
<1>5. CASE EndOp(p)
  BY <1>5, SizesAssumption DEF EndOp, Phases
<1>6. CASE WriteLog(p) \/ Unpin(p)
  <2>1. tail <= Len(lh) /\ tail' = tail + 1 /\ UNCHANGED <<lh, ops, committer, phase>>
    <3>1. CASE WriteLog(p)
      BY <3>1, BothInUse DEF WriteLog
    <3>2. CASE Unpin(p)
      <4>1. p = committer /\ Len(use[p]) = 2
        BY <3>2 DEF Unpin, Places, PlaceOf, CommitterAt, UserAt
      <4>2. QED
        BY <3>2, <4>1, BothInUse DEF Unpin
    <3>3. QED
      BY <1>6, <3>1, <3>2
  <2>2. QED
    BY <2>1 DEF Phases
<1>7. CASE NextPhase(p)
  BY <1>7, SizesAssumption DEF NextPhase, Phases
<1>8. QED
  BY <1>1, <1>2, <1>3, <1>4, <1>5, <1>6, <1>7 DEF LogSteps

LEMMA PendingIs ==
  ASSUME BcacheInv
  PROVE  IsFiniteSet(Pending) /\ Cardinality(Pending) \in Nat
<1>1. PICK P \in SUBSET Procs : P = Pending
  BY DEF Pending
<1>2. IsFiniteSet(P)
  BY SizesAssumption, FS_Subset
<1>3. QED
  BY <1>1, <1>2, FS_CardinalityType

\* Room is kept when nothing new is pending.
LEMMA PendingShrinks ==
  ASSUME BcacheInv, Len(lh') \in Nat, Len(lh') <= Len(lh), Pending' \subseteq Pending
  PROVE  Room'
<1>1. PICK P \in SUBSET Pending : P = Pending'
  OBVIOUS
<1>2. Cardinality(P) <= Cardinality(Pending) /\ Cardinality(P) \in Nat
  BY PendingIs, FS_Subset, FS_CardinalityType
<1>3. QED
  BY <1>1, <1>2, PendingIs, Facts, SizesAssumption DEF BcacheInv, Room

LEMMA RoomKept ==
  ASSUME BcacheInv, Next
  PROVE  Room'
<1> TypeOK /\ Places /\ Phases /\ Room /\ Len(lh) \in Nat
  BY Facts DEF BcacheInv
<1>1. PICK p \in Procs : LogKept(p) \/ LogSteps(p)
  BY StepsAre
<1>2. CASE Gets(p)
  <2>1. PICK b \in Stored, x \in Bufs : Wants(p, b) /\ Got(p, b, x)
    BY <1>2, BgetGets
  <2>2. /\ lh' = lh /\ pc'[p] = "lock"
        /\ \A q \in Procs : q # p => use'[q] = use[q] /\ pc'[q] = pc[q]
    BY <2>1, AskedOneMore DEF Got, log
  <2>3. ASSUME NEW q \in Pending' PROVE q \in Pending
    <3>1. q # p /\ q \in Procs /\ pc[q] = "dirty" /\ Top(q)' = Top(q)
      BY <2>2 DEF Pending, Top
    <3>2. blockno'[Top(q).buf] = blockno[Top(q).buf]
      <4>1. CASE blockno' = blockno
        BY <4>1
      <4>2. CASE refcnt[x] = 0
        <5>1. Top(q).buf # x /\ Top(q).buf \in Bufs
          BY <3>1, <4>2, DirtyIs, UnusedIsFree
        <5>2. QED
          BY <2>1, <5>1 DEF Got, TypeOK
      <4>3. QED
        BY <2>1, <4>1, <4>2 DEF Got
    <3>3. QED
      BY <2>2, <2>3, <3>1, <3>2 DEF Pending, Logged
  <2>4. QED
    BY <2>2, <2>3, PendingShrinks
<1>3. CASE \E i \in Asked(p) : Lets(p, i)
  <2>1. /\ UNCHANGED <<lh, blockno>> /\ pc'[p] = "deref"
        /\ \A q \in Procs : q # p => use'[q] = use[q] /\ pc'[q] = pc[q]
    BY <1>3, AskedOneLess DEF Lets, Unlock, log
  <2>2. Pending' \subseteq Pending
    BY <2>1, SMTT(30) DEF Pending, Top, Logged
  <2>3. QED
    BY <2>1, <2>2, PendingShrinks
<1>4. CASE Modify(p)
  <2>1. /\ UNCHANGED <<lh, blockno, use>> /\ Logged' = Logged
        /\ \A q \in Procs : pc'[q] = IF q = p THEN "dirty" ELSE pc[q]
    BY <1>4 DEF Modify, Goto, TypeOK, log, Logged
  <2>2. CASE blockno[Top(p).buf] \in Logged
    <3>1. Pending' \subseteq Pending
      BY <2>1, <2>2 DEF Pending, Top
    <3>2. QED
      BY <2>1, <3>1, PendingShrinks
  <2>3. CASE Len(lh) + Cardinality({q \in Procs : pc[q] = "dirty"}) < LOGSIZE
    <3>1. PICK D \in SUBSET Procs : D = {q \in Procs : pc[q] = "dirty"}
      OBVIOUS
    <3>2. IsFiniteSet(D)
      BY SizesAssumption, FS_Subset
    <3>3. /\ IsFiniteSet(D \cup {p}) /\ Cardinality(D) \in Nat
          /\ Cardinality(D \cup {p}) <= Cardinality(D) + 1
      <4>1. /\ IsFiniteSet(D \cup {p})
            /\ Cardinality(D \cup {p}) = IF p \in D THEN Cardinality(D) ELSE Cardinality(D) + 1
        BY <3>2, FS_AddElement
      <4>2. Cardinality(D) \in Nat
        BY <3>2, FS_CardinalityType
      <4>3. QED
        BY <4>1, <4>2
    <3>4. Pending' \subseteq D \cup {p}
      BY <2>1, <3>1 DEF Pending
    <3>5. PICK P \in SUBSET (D \cup {p}) : P = Pending'
      BY <3>4
    <3>6. Cardinality(P) <= Cardinality(D \cup {p}) /\ Cardinality(P) \in Nat
          /\ Cardinality(D \cup {p}) \in Nat
      BY <3>3, FS_Subset, FS_CardinalityType
    <3>7. Len(lh) + Cardinality(P) <= LOGSIZE
      BY <2>3, <3>1, <3>3, <3>6, SizesAssumption
    <3>8. QED
      BY <2>1, <3>5, <3>7 DEF Room
  <2>4. QED
    BY <1>4, <2>2, <2>3 DEF Modify
<1>5. CASE Lock(p) \/ Fill(p) \/ Deref(p) \/ BeginOp(p) \/ EndOp(p) \/ WriteLog(p) \/ Install(p)
           \/ Unpin(p)
  <2>1. UNCHANGED <<lh, blockno, use>>
    BY <1>5 DEF Lock, Fill, Deref, BeginOp, EndOp, WriteLog, Install, Unpin, log, buf, proc
  <2>2. \A q \in Procs : pc'[q] = "dirty" => pc[q] = "dirty"
    BY <1>5 DEF Lock, Fill, Deref, BeginOp, EndOp, WriteLog, Install, Unpin, Goto, TypeOK,
                proc
  <2>3. Pending' \subseteq Pending
    BY <2>1, <2>2 DEF Pending, Top, Logged
  <2>4. QED
    BY <2>1, <2>3, PendingShrinks
<1>6. CASE LogWrite(p)
  <2>1. /\ UNCHANGED <<blockno, use>> /\ pc[p] = "dirty"
        /\ \A q \in Procs : pc'[q] = IF q = p THEN "ready" ELSE pc[q]
    BY <1>6 DEF LogWrite, Goto, TypeOK
  <2>2. PICK b \in Blocks : b = blockno[Top(p).buf]
    BY <2>1, DirtyIs
  <2>3. /\ Logged' = Logged \cup {b}
        /\ Len(lh') = IF b \in Logged THEN Len(lh) ELSE Len(lh) + 1
    BY <1>6, <2>2, LogWriteAdds
  <2>4. Pending' \subseteq Pending \ {p}
    BY <2>1, <2>3 DEF Pending, Top
  <2>5. CASE b \in Logged
    BY <2>3, <2>4, <2>5, PendingShrinks
  <2>6. CASE b \notin Logged
    <3>1. p \in Pending
      BY <2>1, <2>2, <2>6 DEF Pending
    <3>2. /\ IsFiniteSet(Pending \ {p})
          /\ Cardinality(Pending \ {p}) = Cardinality(Pending) - 1
      BY <3>1, PendingIs, FS_RemoveElement
    <3>3. PICK P \in SUBSET (Pending \ {p}) : P = Pending'
      BY <2>4
    <3>4. Cardinality(P) <= Cardinality(Pending \ {p}) /\ Cardinality(P) \in Nat
      BY <3>2, FS_Subset, FS_CardinalityType
    <3>5. QED
      BY <2>3, <2>6, <3>2, <3>3, <3>4, PendingIs, SizesAssumption DEF Room
  <2>7. QED
    BY <2>5, <2>6
<1>7. CASE NextPhase(p)
  <2>1. Pending' \subseteq Pending
    <3>1. ops = {} /\ UNCHANGED <<pc, use, blockno>>
      BY <1>7, SizesAssumption DEF NextPhase, Phases, proc, buf
    <3>2. QED
      BY <3>1 DEF Pending, Places, PlaceOf
  <2>2. Len(lh') \in Nat /\ Len(lh') <= Len(lh)
    BY <1>7 DEF NextPhase
  <2>3. QED
    BY <2>1, <2>2, PendingShrinks
<1>8. QED
  BY <1>1, <1>2, <1>3, <1>4, <1>5, <1>6, <1>7 DEF LogKept, LogSteps

LEMMA TypesKept ==
  ASSUME BcacheInv, Next
  PROVE  TypeOK'
<1> TypeOK /\ Places /\ Phases /\ Named /\ Room /\ Len(lh) \in Nat
  BY Facts DEF BcacheInv
<1> Wrap \in Nat \ {0} /\ LOGSIZE \in Nat
  <2>1. Cardinality(Procs) \in Nat
    BY SizesAssumption, FS_CardinalityType
  <2>2. QED
    BY <2>1, SizesAssumption
<1> DEFINE Turned == \A x \in Bufs : (refcnt[x] + 1) % Wrap \in 0..(Wrap - 1)
                                     /\ (refcnt[x] + Wrap - 1) % Wrap \in 0..(Wrap - 1)
<1> Turned
  BY SMTT(30) DEF TypeOK
<1> HIDE DEF Turned
<1>1. PICK p \in Procs : LogKept(p) \/ LogSteps(p)
  BY StepsAre
<1>2. CASE Gets(p)
  <2>1. PICK b \in Stored, x \in Bufs : Wants(p, b) /\ Got(p, b, x)
    BY <1>2, BgetGets
  <2>2. use' \in [Procs -> Seq([block : Blocks \cup LogBlocks, buf : Bufs])]
    BY <2>1, AskedOneMore DEF Got, Stored
  <2>3. blockno' \in [Bufs -> Blocks \cup LogBlocks \cup {NoBlock}] /\ valid' \in [Bufs -> BOOLEAN]
    <3>1. b \in Blocks \cup LogBlocks \cup {NoBlock}
      BY DEF Stored
    <3>2. CASE UNCHANGED <<blockno, valid>>
      BY <3>2 DEF TypeOK
    <3>3. CASE /\ blockno' = [blockno EXCEPT ![x] = b]
               /\ valid' = [valid EXCEPT ![x] = FALSE]
      BY <3>1, <3>3 DEF TypeOK
    <3>4. QED
      BY <2>1, <3>2, <3>3 DEF Got
  <2>4. refcnt' \in [Bufs -> 0..(Wrap - 1)]
    BY <2>1 DEF Got, TypeOK, Turned
  <2>5. pc' = [pc EXCEPT ![p] = "lock"]
    BY <2>1 DEF Got, Asks, Goto
  <2>6. QED
    BY <2>1, <2>2, <2>3, <2>4, <2>5 DEF Got, Asks, TypeOK, log
<1>3. CASE \E i \in Asked(p) : Lets(p, i)
  <2>1. PICK i \in Asked(p) : Lets(p, i)
    BY <1>3
  <2>2. use' \in [Procs -> Seq([block : Blocks \cup LogBlocks, buf : Bufs])]
    BY <2>1, AskedOneLess DEF Stored
  <2>3. PICK x \in Bufs : x = use[p][i].buf
    BY Facts
  <2>4. x \in 0..NBUF
    BY BufsAre
  <2>5. /\ drop' = [drop EXCEPT ![p] = x]
        /\ owner' = [owner EXCEPT ![x] = NoProc]
        /\ pc' = [pc EXCEPT ![p] = "deref"]
        /\ UNCHANGED <<lru, blockno, valid, data, refcnt, disk, log>>
    BY <2>1, <2>3 DEF Lets, Unlock, Goto
  <2>6. QED
    BY <2>2, <2>4, <2>5 DEF TypeOK, log
<1>4. CASE Lock(p) \/ Fill(p)
  <2>1. PICK x \in Bufs : x = Top(p).buf /\ blockno[x] \in Blocks \cup LogBlocks
    <3>1. use[p] # <<>>
      BY <1>4 DEF Lock, Fill, Places, PlaceOf
    <3>2. Len(use[p]) \in Asked(p)
      BY <3>1, Facts DEF Asked
    <3>3. QED
      BY <3>2, Facts DEF Top, Named, Stored
  <2>2. CASE Lock(p)
    BY <2>1, <2>2 DEF Lock, Goto, TypeOK, log
  <2>3. CASE Fill(p)
    BY <2>1, <2>3 DEF Fill, Goto, TypeOK, log
  <2>4. QED
    BY <1>4, <2>2, <2>3
<1>5. CASE Deref(p)
  <2>1. PICK x \in Bufs : x = drop[p]
    <3>1. drop[p] # 0 /\ drop[p] \in 0..NBUF
      BY <1>5 DEF Deref, Places, PlaceOf, TypeOK
    <3>2. QED
      BY <3>1, BufsAre
  <2>2. refcnt' \in [Bufs -> 0..(Wrap - 1)]
    BY <1>5, <2>1 DEF Deref, Dropped, TypeOK, Turned
  <2>3. lru' \in [Bufs -> Bufs] /\ \A y \in Bufs : \E i \in Bufs : lru'[i] = y
    <3>1. lru' = ToFront(x) \/ lru' = lru
      BY <1>5, <2>1 DEF Deref
    <3>2. CASE lru' = ToFront(x)
      BY <3>2, FrontKeepsAll, Zenon
    <3>3. CASE lru' = lru
      BY <3>3 DEF TypeOK
    <3>4. QED
      BY <3>1, <3>2, <3>3
  <2>4. 0 \in 0..NBUF
    BY BufsAre
  <2>5. QED
    BY <1>5, <2>2, <2>3, <2>4 DEF Deref, Goto, TypeOK, log
<1>6. CASE Modify(p)
  <2>1. PICK x \in Bufs : x = Top(p).buf
    <3>1. Len(use[p]) \in Asked(p)
      BY <1>6, Facts DEF Asked, Modify
    <3>2. QED
      BY <3>1, Facts DEF Top
  <2>2. data' \in [Bufs -> Vals]
    <3>1. PICK v \in Vals : data' = [data EXCEPT ![x] = v]
      BY <1>6, <2>1 DEF Modify
    <3>2. QED
      BY <3>1 DEF TypeOK
  <2>3. pc' = [pc EXCEPT ![p] = "dirty"]
    BY <1>6 DEF Modify, Goto
  <2>4. UNCHANGED <<lru, blockno, valid, refcnt, owner, disk, log, use, drop>>
    BY <1>6 DEF Modify
  <2>5. QED
    BY <2>2, <2>3, <2>4 DEF TypeOK, log
<1>7. CASE WriteLog(p) \/ Install(p)
  <2>1. p = committer /\ pc[p] = "ready" /\ Len(use[p]) = 2
    BY <1>7 DEF WriteLog, Install
  <2>2. PICK x \in Bufs, y \in Bufs : /\ x = use[p][1].buf /\ y = use[p][2].buf
                                      /\ blockno[x] \in Blocks \cup LogBlocks
                                      /\ blockno[y] \in Blocks \cup LogBlocks
    BY <2>1, BothInUse
  <2>3. data' \in [Bufs -> Vals] /\ disk' \in [Blocks \cup LogBlocks -> Vals]
    <3>1. CASE WriteLog(p)
      BY <2>2, <3>1 DEF WriteLog, Copy, TypeOK
    <3>2. CASE Install(p)
      BY <2>2, <3>2 DEF Install, Copy, TypeOK
    <3>3. QED
      BY <1>7, <3>1, <3>2
  <2>4. tail' \in 1..(LOGSIZE + 1)
    <3>1. tail \in 1..LOGSIZE
      BY <2>1, BothInUse DEF LogBlocks
    <3>2. QED
      BY <1>7, <3>1 DEF WriteLog, Install, log
  <2>5. QED
    BY <1>7, <2>3, <2>4 DEF WriteLog, Install, Goto, TypeOK, log
<1>8. CASE LogWrite(p)
  <2>1. PICK x \in Bufs : x = Top(p).buf
    BY <1>8, DirtyIs DEF LogWrite
  <2>2. refcnt' \in [Bufs -> 0..(Wrap - 1)]
    BY <1>8, <2>1 DEF LogWrite, TypeOK, Turned
  <2>3. lh' \in Seq(Blocks)
    BY <1>8, LogWriteAdds
  <2>4. Len(lh') <= LOGSIZE
    <3>1. Room' /\ Len(lh') \in Nat
      BY <2>3, RoomKept, LenProperties
    <3>2. PICK P \in SUBSET Procs : P = Pending'
      BY DEF Pending
    <3>3. Cardinality(P) \in Nat
      BY SizesAssumption, FS_Subset, FS_CardinalityType
    <3>4. QED
      BY <3>1, <3>2, <3>3 DEF Room
  <2>5. QED
    BY <1>8, <2>2, <2>3, <2>4 DEF LogWrite, Goto, TypeOK
<1> 1 \in 1..(LOGSIZE + 1)
  OBVIOUS
<1>9. CASE BeginOp(p) \/ EndOp(p)
  <2>1. ops' \subseteq Procs /\ committer' \in Procs \cup {NoProc}
        /\ phase' \in {"idle", "copy", "install", "recover"} /\ tail' \in 1..(LOGSIZE + 1)
    <3>1. CASE BeginOp(p)
      BY <3>1 DEF BeginOp, TypeOK
    <3>2. CASE EndOp(p)
      BY <3>2 DEF EndOp, TypeOK
    <3>3. QED
      BY <1>9, <3>1, <3>2
  <2>2. UNCHANGED <<buf, disk, lh, proc>>
    BY <1>9 DEF BeginOp, EndOp
  <2>3. QED
    BY <2>1, <2>2 DEF TypeOK, buf, proc
<1>10. CASE NextPhase(p)
  <2>1. lh' \in Seq(Blocks) /\ Len(lh') <= LOGSIZE
    BY <1>10 DEF NextPhase, TypeOK
  <2>2. committer' \in Procs \cup {NoProc} /\ phase' \in {"idle", "copy", "install", "recover"}
    BY <1>10 DEF NextPhase, TypeOK
  <2>3. tail' \in 1..(LOGSIZE + 1) /\ UNCHANGED <<buf, disk, ops, proc>>
    BY <1>10 DEF NextPhase
  <2>4. QED
    BY <2>1, <2>2, <2>3 DEF TypeOK, buf, proc
<1>11. CASE Unpin(p)
  <2>1. p = committer /\ Len(use[p]) = 2
    BY <1>11 DEF Unpin, Places, PlaceOf, CommitterAt, UserAt
  <2>2. tail \in 1..LOGSIZE /\ use[p][2].buf \in Bufs
    BY <1>11, <2>1, BothInUse DEF Unpin, LogBlocks
  <2>3. refcnt' \in [Bufs -> 0..(Wrap - 1)] /\ tail' \in 1..(LOGSIZE + 1)
    <3>1. PICK x \in Bufs : x = use[p][2].buf
      BY <2>2
    <3>2. refcnt' = [refcnt EXCEPT ![x] = (@ + Wrap - 1) % Wrap] /\ tail' = tail + 1
      BY <1>11, <3>1 DEF Unpin, Dropped
    <3>3. refcnt' \in [Bufs -> 0..(Wrap - 1)]
      BY <3>2 DEF TypeOK, Turned
    <3>4. QED
      BY <2>2, <3>2, <3>3
  <2>4. QED
    BY <1>11, <2>3 DEF Unpin, Goto, TypeOK
<1>12. QED
  BY <1>1, <1>2, <1>3, <1>4, <1>5, <1>6, <1>7, <1>8, <1>9, <1>10, <1>11
     DEF LogKept, LogSteps

LEMMA StaysPut ==
  ASSUME NEW q, PlaceOf(q), UNCHANGED <<lh, ops, committer, phase, tail>>,
         UNCHANGED <<pc[q], use[q], drop[q]>>
  PROVE  PlaceOf(q)'
BY DEF PlaceOf, CommitterAt, UserAt, Asked

LEMMA PlacesKept ==
  ASSUME BcacheInv, Next
  PROVE  Places'
<1> TypeOK /\ Places /\ Phases /\ Len(lh) \in Nat
  BY Facts DEF BcacheInv
<1>1. PICK p \in Procs : LogKept(p) \/ LogSteps(p)
  BY StepsAre
<1>2. CASE Gets(p)
  <2>1. PICK b \in Stored, x \in Bufs : Wants(p, b) /\ Got(p, b, x)
    BY <1>2, BgetGets
  <2>2. /\ UNCHANGED <<lh, ops, committer, phase, tail>>
        /\ \A q \in Procs : q # p => UNCHANGED <<pc[q], use[q], drop[q]>>
    BY <2>1, AskedOneMore DEF Got, log
  <2>3. /\ Len(use'[p]) = Len(use[p]) + 1 /\ use'[p][Len(use[p]) + 1].block = b
        /\ \A i \in Asked(p) : use'[p][i] = use[p][i]
        /\ pc'[p] = "lock" /\ drop'[p] = drop[p] /\ use'[p] # <<>>
    <3>1. /\ use'[p] \in Seq([block : Stored, buf : Bufs])
          /\ Len(use'[p]) = Len(use[p]) + 1
          /\ use'[p][Len(use[p]) + 1] = [block |-> b, buf |-> x]
          /\ \A i \in Asked(p) : use'[p][i] = use[p][i]
          /\ pc'[p] = "lock" /\ drop'[p] = drop[p]
      BY <2>1, AskedOneMore DEF Got
    <3>2. use'[p] # <<>>
      BY <3>1, Facts, EmptySeq
    <3>3. QED
      BY <3>1, <3>2
  <2>4. PlaceOf(p)'
    <3>1. CASE p = committer
      <4>1. CASE use[p] = <<>>
        BY <2>1, <2>2, <2>3, <3>1, <4>1, Facts DEF Places, PlaceOf, CommitterAt, Wants
      <4>2. CASE use[p] # <<>>
        <5>1. Len(use[p]) = 1 /\ b = lh[tail] /\ 1 \in Asked(p) /\ tail <= Len(lh)
          <6>1. Len(use[p]) < 2 /\ Len(use[p]) # 0 /\ Len(use[p]) \in {0, 1, 2}
            BY <2>1, <3>1, <4>2, Facts DEF Wants
          <6>2. Len(use[p]) # 2
            BY <6>1, 2 # 1 /\ ~(2 < 2)
          <6>3. Len(use[p]) = 1
            BY <6>1, <6>2, Zenon
          <6>4. QED
            BY <2>1, <3>1, <4>2, <6>3 DEF Wants, Asked
        <5>2. tail \in 1..Len(lh) /\ tail \in LogBlocks /\ lh[tail] \in Blocks
          <6>1. tail \in 1..(LOGSIZE + 1) /\ Len(lh) <= LOGSIZE /\ LOGSIZE \in Nat
            BY SizesAssumption DEF TypeOK
          <6>2. tail \in 1..Len(lh) /\ tail \in LogBlocks
            BY <5>1, <6>1 DEF LogBlocks
          <6>3. QED
            BY <6>2, Facts
        <5>3. use[p][1].block = tail
          BY <2>1, <3>1, <5>1 DEF Places, PlaceOf, CommitterAt, Wants
        <5>4. QED
          BY <2>1, <2>2, <2>3, <3>1, <5>1, <5>2, <5>3
             DEF Places, PlaceOf, CommitterAt, Wants
      <4>3. QED
        BY <4>1, <4>2
    <3>2. CASE p # committer
      <4>1. Len(use[p]) = 0 /\ Len(use'[p]) = 1 /\ use'[p][1].block \in Blocks
        BY <2>1, <2>3, <3>2, Facts DEF Wants
      <4>2. \A i \in Asked(p)' : use'[p][i].block \in Blocks
        BY <4>1 DEF Asked
      <4>3. QED
        BY <2>1, <2>2, <2>3, <3>2, <4>1, <4>2 DEF Places, PlaceOf, UserAt, Wants
    <3>3. QED
      BY <3>1, <3>2
  <2>5. QED
    BY <2>2, <2>4, StaysPut DEF Places
<1>3. CASE \E i \in Asked(p) : Lets(p, i)
  <2>1. PICK i \in Asked(p) : Lets(p, i)
    BY <1>3
  <2>2. /\ UNCHANGED <<lh, ops, committer, phase, tail>>
        /\ \A q \in Procs : q # p => UNCHANGED <<pc[q], use[q], drop[q]>>
    BY <2>1, AskedOneLess DEF Lets, Unlock, log
  <2>3. /\ use'[p] \in Seq([block : Stored, buf : Bufs]) /\ Len(use'[p]) = Len(use[p]) - 1
        /\ pc'[p] = "deref" /\ drop'[p] \in Bufs /\ drop'[p] # 0
    <3>1. /\ use' \in [Procs -> Seq([block : Stored, buf : Bufs])]
          /\ Len(use'[p]) = Len(use[p]) - 1 /\ pc'[p] = "deref" /\ drop'[p] = use[p][i].buf
      BY <2>1, AskedOneLess
    <3>2. use[p][i].buf \in Bufs
      BY Facts
    <3>3. \A x \in Bufs : x # 0
      BY BufsAre
    <3>4. QED
      BY <3>1, <3>2, <3>3
  <2>4. Len(use'[p]) <= 1
    BY <2>3, Facts, SMTT(30)
  <2>5. PlaceOf(p)'
    <3>1. CASE p = committer
      BY <2>2, <2>3, <2>4, <3>1, SMTT(30) DEF PlaceOf, CommitterAt
    <3>2. CASE p # committer
      <4>1. Len(use'[p]) = 0
        <5>1. Len(use[p]) <= 1 /\ i \in 1..Len(use[p]) /\ Len(use[p]) \in {0, 1, 2}
          BY <2>1, <3>2, Facts DEF Places, PlaceOf, UserAt, Asked
        <5>2. Len(use[p]) = 1
          BY <5>1
        <5>3. QED
          BY <2>3, <5>2
      <4>2. use'[p] = <<>>
        BY <2>3, <4>1, EmptySeq
      <4>3. UserAt(p)' /\ p # committer'
        <5>1. \A j \in Asked(p)' : FALSE
          BY <4>1 DEF Asked
        <5>2. Len(use'[p]) <= 1
          BY <4>1
        <5>3. \A j \in Asked(p)' : use'[p][j].block \in Blocks
          BY <5>1, Zenon
        <5>4. p # committer' /\ pc'[p] \notin {"unpin", "drain"}
          BY <2>2, <2>3, <3>2
        <5>5. QED
          BY <4>2, <5>2, <5>3, <5>4 DEF UserAt
      <4>4. QED
        BY <2>3, <4>3 DEF PlaceOf
    <3>3. QED
      BY <3>1, <3>2
  <2>6. QED
    BY <2>2, <2>5, StaysPut DEF Places
<1>4. CASE Lock(p) \/ Fill(p) \/ Deref(p) \/ Modify(p) \/ Install(p)
  <2>1. /\ UNCHANGED <<lh, ops, committer, phase, tail>> /\ UNCHANGED use
        /\ \A q \in Procs : q # p => UNCHANGED <<pc[q], drop[q]>>
    BY <1>4, LogIsKept DEF LogKept, Lock, Fill, Deref, Modify, Install, Goto, TypeOK
  <2>2. PlaceOf(p)'
    <3>1. CASE Lock(p) \/ Fill(p)
      <4>1. /\ pc[p] \in {"lock", "fill"} /\ pc'[p] \in {"fill", "ready"} /\ drop' = drop
            /\ pc'[p] = "fill" => pc[p] = "lock"
        BY <3>1 DEF Lock, Fill, Goto, TypeOK
      <4>2. QED
        BY <2>1, <4>1 DEF Places, PlaceOf, CommitterAt, UserAt, Asked
    <3>2. CASE Deref(p)
      <4>1. pc[p] = "deref" /\ pc'[p] = (IF use[p] = <<>> THEN "ready" ELSE "drain") /\ drop'[p] = 0
        BY <3>2 DEF Deref, Goto, TypeOK
      <4>2. QED
        BY <2>1, <4>1, Facts DEF Places, PlaceOf, CommitterAt, UserAt, Asked
    <3>3. CASE Modify(p)
      <4>1. p \in ops /\ pc[p] = "ready" /\ pc'[p] = "dirty" /\ use[p] # <<>> /\ drop' = drop
        BY <3>3 DEF Modify, Goto, TypeOK
      <4>2. p # committer
        BY <4>1, SizesAssumption DEF Phases
      <4>3. QED
        BY <2>1, <4>1, <4>2 DEF Places, PlaceOf, UserAt, Asked
    <3>4. CASE Install(p)
      <4>1. /\ p = committer /\ phase # "copy" /\ pc[p] = "ready" /\ pc'[p] = "unpin"
            /\ Len(use[p]) = 2 /\ drop' = drop
        BY <3>4 DEF Install, Goto, TypeOK
      <4>2. tail \in 1..Len(lh)
        BY <4>1, BothInUse
      <4>3. phase = "install"
        BY <4>1, <4>2, SizesAssumption DEF Phases, TypeOK
      <4>4. QED
        BY <2>1, <4>1, <4>3 DEF Places, PlaceOf, CommitterAt, Asked
    <3>5. QED
      BY <1>4, <3>1, <3>2, <3>3, <3>4
  <2>3. QED
    BY <2>1, <2>2, StaysPut DEF Places
<1>5. CASE BeginOp(p)
  BY <1>5 DEF BeginOp, Places, PlaceOf, CommitterAt, UserAt, Asked, proc
<1>6. CASE EndOp(p)
  <2>1. /\ committer = NoProc /\ p \in ops /\ pc[p] = "ready" /\ use[p] = <<>> /\ ops' = ops \ {p}
        /\ committer' = p \/ committer' = NoProc
        /\ UNCHANGED <<pc, use, drop>>
    BY <1>6 DEF EndOp, Phases, proc
  <2>2. ASSUME NEW q \in Procs, q # p PROVE PlaceOf(q)'
    <3>1. q # committer /\ q # committer'
      BY <2>1, <2>2, SizesAssumption
    <3>2. QED
      BY <2>1, <2>2, <3>1 DEF Places, PlaceOf, UserAt, Asked
  <2>3. PlaceOf(p)'
    <3>1. p # committer /\ Len(use[p]) = 0
      BY <2>1, SizesAssumption, Facts
    <3>2. QED
      BY <2>1, <3>1 DEF Places, PlaceOf, UserAt, CommitterAt, Asked
  <2>4. QED
    BY <2>2, <2>3 DEF Places
<1>7. CASE LogWrite(p)
  <2>1. /\ committer = NoProc /\ pc[p] = "dirty" /\ UNCHANGED <<ops, committer, use, drop>>
        /\ \A q \in Procs : pc'[q] = IF q = p THEN "ready" ELSE pc[q]
    BY <1>7, DirtyIs DEF LogWrite, Goto, TypeOK
  <2>2. ASSUME NEW q \in Procs PROVE PlaceOf(q)'
    <3>1. q # committer
      BY <2>1, SizesAssumption
    <3>2. QED
      BY <2>1, <2>2, <3>1 DEF Places, PlaceOf, UserAt, Asked
  <2>3. QED
    BY <2>2 DEF Places
<1>8. CASE WriteLog(p) \/ Unpin(p)
  <2>1. /\ p = committer /\ Len(use[p]) = 2 /\ pc[p] \in {"ready", "unpin"}
        /\ UNCHANGED <<lh, ops, committer, phase, use, drop>>
        /\ \A q \in Procs : pc'[q] = IF q = p THEN "drain" ELSE pc[q]
    BY <1>8 DEF WriteLog, Unpin, Goto, TypeOK, Places, PlaceOf, CommitterAt, UserAt
  <2>2. ASSUME NEW q \in Procs, q # p PROVE PlaceOf(q)'
    BY <2>1, <2>2 DEF Places, PlaceOf, UserAt, Asked
  <2>3. PlaceOf(p)'
    BY <2>1, Facts DEF Places, PlaceOf, CommitterAt, Asked
  <2>4. QED
    BY <2>2, <2>3 DEF Places
<1>9. CASE NextPhase(p)
  <2>1. /\ p = committer /\ pc[p] = "ready" /\ use[p] = <<>> /\ Len(use[p]) = 0
        /\ committer' \in {p, NoProc} /\ UNCHANGED <<pc, use, drop, ops>>
    BY <1>9, Facts DEF NextPhase, proc
  <2>2. ASSUME NEW q \in Procs, q # p PROVE PlaceOf(q)'
    <3>1. q # committer /\ q # committer'
      BY <2>1, <2>2, SizesAssumption
    <3>2. QED
      BY <2>1, <2>2, <3>1 DEF Places, PlaceOf, UserAt, Asked
  <2>3. PlaceOf(p)'
    BY <2>1 DEF Places, PlaceOf, UserAt, CommitterAt, Asked
  <2>4. QED
    BY <2>2, <2>3 DEF Places
<1>10. QED
  BY <1>1, <1>2, <1>3, <1>4, <1>5, <1>6, <1>7, <1>8, <1>9 DEF LogKept, LogSteps

\* The two blocks of the committer are in two buffers.
LEMMA BufsDiffer ==
  ASSUME BcacheInv, NEW p \in Procs, NEW i \in Asked(p), NEW j \in Asked(p), i # j
  PROVE  use[p][i].buf # use[p][j].buf
<1> Places /\ Named
  BY DEF BcacheInv
<1>1. Len(use[p]) = 2 /\ {i, j} = {1, 2}
  <2>1. Len(use[p]) \in {0, 1, 2} /\ i \in 1..Len(use[p]) /\ j \in 1..Len(use[p])
    BY Facts DEF Asked
  <2>2. Len(use[p]) = 2
    BY <2>1
  <2>3. i \in {1, 2} /\ j \in {1, 2}
    BY <2>1, <2>2
  <2>4. QED
    BY <2>2, <2>3
<1>2. use[p][1].block \in LogBlocks /\ use[p][2].block \in Blocks
  BY <1>1 DEF Places, PlaceOf, CommitterAt, UserAt
<1>3. use[p][i].block # use[p][j].block
  BY <1>1, <1>2, SizesAssumption
<1>4. QED
  BY <1>3 DEF Named

\* What is unlocked was held.
LEMMA LetsHeld ==
  ASSUME BcacheInv, NEW p \in Procs, NEW i, Lets(p, i)
  PROVE  /\ i \in Asked(p) /\ use[p][i].buf \in Bufs
         /\ owner[use[p][i].buf] = p /\ valid[use[p][i].buf]
         /\ \A j \in Asked(p) : Held(p, j)
<1>1. i \in Asked(p) /\ pc[p] \in {"ready", "drain"}
  BY DEF Lets
<1>2. \A j \in Asked(p) : Held(p, j)
  <2>1. \A j \in Asked(p) : j < Len(use[p]) \/ j = Len(use[p])
    BY Facts DEF Asked
  <2>2. QED
    BY <1>1, <2>1 DEF Held
<1>3. QED
  BY <1>1, <1>2, Facts DEF BcacheInv, Holding

\* Steps that neither bget() nor acquiresleep() nor releasesleep() is part of.
Rest(p) ==
  \/ Deref(p) \/ Modify(p) \/ Install(p) \/ LogSteps(p)

LEMMA RestKeeps ==
  ASSUME BcacheInv, NEW p \in Procs, Rest(p)
  PROVE  /\ UNCHANGED <<blockno, valid, owner, use>>
         /\ \A q \in Procs : \/ pc'[q] = pc[q]
                             \/ pc[q] \notin {"lock", "fill"} /\ pc'[q] \notin {"lock", "fill"}
<1> TypeOK
  BY DEF BcacheInv
<1>1. CASE Deref(p) \/ Modify(p) \/ Install(p)
  BY <1>1 DEF Deref, Modify, Install, Goto, TypeOK
<1>2. CASE LogWrite(p) \/ WriteLog(p) \/ Unpin(p)
  BY <1>2 DEF LogWrite, WriteLog, Unpin, Goto, TypeOK
<1>3. CASE BeginOp(p) \/ EndOp(p) \/ NextPhase(p)
  BY <1>3 DEF BeginOp, EndOp, NextPhase, buf, proc
<1>4. QED
  BY <1>1, <1>2, <1>3 DEF Rest, LogSteps

LEMMA KindsAre ==
  ASSUME BcacheInv, Next
  PROVE  \E p \in Procs : Gets(p) \/ (\E i \in Asked(p) : Lets(p, i)) \/ Lock(p) \/ Fill(p) \/ Rest(p)
BY StepsAre DEF LogKept, Rest

LEMMA OneBufferKept ==
  ASSUME BcacheInv, Next
  PROVE  OneBufferPerBlock'
<1> TypeOK /\ OneBufferPerBlock
  BY DEF BcacheInv
<1>1. PICK p \in Procs : Gets(p) \/ (\E i \in Asked(p) : Lets(p, i)) \/ Lock(p) \/ Fill(p) \/ Rest(p)
  BY KindsAre
<1>2. CASE Gets(p)
  <2>1. PICK b \in Stored, x \in Bufs : Got(p, b, x)
    BY <1>2, BgetGets
  <2>2. CASE blockno' = blockno
    BY <2>2 DEF OneBufferPerBlock
  <2>3. CASE Cached(b) = {} /\ blockno' = [blockno EXCEPT ![x] = b]
    <3>1. \A y \in Bufs : blockno[y] # b
      BY <2>3 DEF Cached
    <3>2. \A y \in Bufs : blockno'[y] = IF y = x THEN b ELSE blockno[y]
      BY <2>3 DEF TypeOK
    <3>3. QED
      BY <3>1, <3>2 DEF OneBufferPerBlock
  <2>4. QED
    BY <2>1, <2>2, <2>3 DEF Got
<1>3. CASE (\E i \in Asked(p) : Lets(p, i)) \/ Lock(p) \/ Fill(p) \/ Rest(p)
  <2>1. blockno' = blockno
    BY <1>3, RestKeeps DEF Lets, Unlock, Lock, Fill
  <2>2. QED
    BY <2>1 DEF OneBufferPerBlock
<1>4. QED
  BY <1>1, <1>2, <1>3

LEMMA NamedKept ==
  ASSUME BcacheInv, Next
  PROVE  Named'
<1> TypeOK /\ Named /\ Places
  BY DEF BcacheInv
<1>1. PICK p \in Procs : Gets(p) \/ (\E i \in Asked(p) : Lets(p, i)) \/ Lock(p) \/ Fill(p) \/ Rest(p)
  BY KindsAre
<1>2. CASE Gets(p)
  <2>1. PICK b \in Stored, x \in Bufs : Wants(p, b) /\ Got(p, b, x)
    BY <1>2, BgetGets
  <2>2. /\ Len(use'[p]) = Len(use[p]) + 1 /\ use'[p][Len(use[p]) + 1] = [block |-> b, buf |-> x]
        /\ \A i \in Asked(p) : use'[p][i] = use[p][i]
        /\ \A q \in Procs : q # p => use'[q] = use[q] /\ pc'[q] = pc[q]
        /\ pc'[p] = "lock" /\ owner' = owner
    BY <2>1, AskedOneMore DEF Got
  <2>3. /\ blockno'[x] = b
        /\ \A y \in Bufs : \/ blockno'[y] = blockno[y] /\ valid'[y] = valid[y]
                           \/ y = x /\ refcnt[x] = 0
    BY <2>1, SMTT(30) DEF Got, TypeOK
  <2>4. ASSUME NEW q \in Procs, NEW i \in Asked(q)
        PROVE  /\ blockno'[use[q][i].buf] = use[q][i].block
               /\ valid'[use[q][i].buf] = valid[use[q][i].buf]
    BY <2>3, UnusedIsFree, Facts DEF Named
  <2>5. ASSUME NEW q \in Procs, NEW i \in Asked(q)'
        PROVE  blockno'[use'[q][i].buf] = use'[q][i].block
    <3>1. CASE i \in Asked(q)
      BY <2>2, <2>4, <3>1
    <3>2. CASE i \notin Asked(q)
      <4>1. q = p /\ i = Len(use[p]) + 1
        BY <2>2, <3>2, Facts DEF Asked
      <4>2. QED
        BY <2>2, <2>3, <4>1
    <3>3. QED
      BY <3>1, <3>2
  <2>6. ASSUME NEW y \in Bufs, owner'[y] # NoProc
        PROVE  \E i \in Asked(owner[y])' : use'[owner'[y]][i].buf = y
    <3>1. owner'[y] = owner[y] /\ owner[y] \in Procs
      BY <2>2, <2>6 DEF TypeOK
    <3>2. PICK i \in Asked(owner[y]) : use[owner[y]][i].buf = y
      BY <2>6, <3>1 DEF Named
    <3>3. i \in 1..Len(use'[owner[y]]) /\ use'[owner[y]][i] = use[owner[y]][i]
      BY <2>2, <3>1, <3>2, Facts DEF Asked
    <3>4. QED
      BY <3>1, <3>2, <3>3 DEF Asked
  <2>7. ASSUME NEW q \in Procs, pc'[q] = "fill"
        PROVE  owner'[Top(q)'.buf] = q /\ ~valid'[Top(q)'.buf]
    <3>1. q # p /\ pc[q] = "fill" /\ Top(q)' = Top(q)
      BY <2>2, <2>7 DEF Top
    <3>2. Len(use[q]) \in Asked(q)
      BY <3>1, Facts DEF Places, PlaceOf, Asked
    <3>3. QED
      BY <2>2, <2>4, <3>1, <3>2 DEF Named, Top
  <2>8. QED
    BY <2>5, <2>6, <2>7 DEF Named
<1>3. CASE \E i \in Asked(p) : Lets(p, i)
  <2>1. PICK i \in Asked(p) : Lets(p, i)
    BY <1>3
  <2>2. /\ Len(use'[p]) = Len(use[p]) - 1
        /\ \A j \in Asked(p)' : use'[p][j] = use[p][IF j < i THEN j ELSE j + 1]
        /\ \A q \in Procs : q # p => use'[q] = use[q] /\ pc'[q] = pc[q]
        /\ pc'[p] = "deref"
    BY <2>1, AskedOneLess
  <2>3. PICK x \in Bufs : x = use[p][i].buf /\ owner[x] = p
    BY <2>1, LetsHeld
  <2>4. UNCHANGED <<blockno, valid>> /\ \A y \in Bufs : owner'[y] = IF y = x THEN NoProc ELSE owner[y]
    BY <2>1, <2>3 DEF Lets, Unlock, TypeOK
  <2>5. ASSUME NEW q \in Procs, NEW j \in Asked(q)'
        PROVE  blockno'[use'[q][j].buf] = use'[q][j].block
    <3>1. CASE q # p
      BY <2>2, <2>4, <3>1 DEF Named, Asked
    <3>2. CASE q = p
      <4>1. (IF j < i THEN j ELSE j + 1) \in Asked(p)
        BY <2>2, <3>2, Facts DEF Asked
      <4>2. QED
        BY <2>2, <2>4, <3>2, <4>1 DEF Named
    <3>3. QED
      BY <3>1, <3>2
  <2>6. ASSUME NEW y \in Bufs, owner'[y] # NoProc
        PROVE  \E j \in Asked(owner[y])' : use'[owner'[y]][j].buf = y
    <3>1. y # x /\ owner'[y] = owner[y] /\ owner[y] \in Procs
      BY <2>4, <2>6 DEF TypeOK
    <3>2. PICK j \in Asked(owner[y]) : use[owner[y]][j].buf = y
      BY <2>6, <3>1 DEF Named
    <3>3. CASE owner[y] # p
      BY <2>2, <3>1, <3>2, <3>3 DEF Asked
    <3>4. CASE owner[y] = p
      <4>1. j # i /\ j \in 1..Len(use[p]) /\ i \in 1..Len(use[p])
        BY <2>3, <3>1, <3>2, <3>4 DEF Asked
      <4>2. PICK k \in 1..(Len(use[p]) - 1) : j = IF k < i THEN k ELSE k + 1
        <5>1. CASE j < i
          BY <4>1, <5>1, Facts, SMTT(30)
        <5>2. CASE ~(j < i)
          <6>1. j - 1 \in 1..(Len(use[p]) - 1) /\ ~(j - 1 < i) /\ (j - 1) + 1 = j
            BY <4>1, <5>2, Facts
          <6>2. QED
            BY <6>1
        <5>3. QED
          BY <5>1, <5>2
      <4>3. k \in Asked(p)' /\ use'[p][k] = use[p][j]
        BY <2>2, <4>2 DEF Asked
      <4>4. QED
        BY <3>1, <3>2, <3>4, <4>3
    <3>5. QED
      BY <3>3, <3>4
  <2>7. ASSUME NEW q \in Procs, pc'[q] = "fill"
        PROVE  owner'[Top(q)'.buf] = q /\ ~valid'[Top(q)'.buf]
    <3>1. q # p /\ pc[q] = "fill" /\ Top(q)' = Top(q)
      BY <2>2, <2>7 DEF Top
    <3>2. Len(use[q]) \in Asked(q) /\ Top(q).buf \in Bufs
      BY <3>1, Facts DEF Places, PlaceOf, Asked, Top
    <3>3. QED
      BY <2>3, <2>4, <3>1, <3>2 DEF Named
  <2>8. QED
    BY <2>5, <2>6, <2>7 DEF Named
<1>4. CASE Lock(p) \/ Fill(p)
  <2>1. pc[p] \in {"lock", "fill"} /\ UNCHANGED <<blockno, use>>
        /\ \A q \in Procs : q # p => pc'[q] = pc[q]
    BY <1>4 DEF Lock, Fill, Goto, TypeOK
  <2>2. Len(use[p]) \in Asked(p)
    BY <2>1, Facts DEF Places, PlaceOf, Asked
  <2>3. PICK x \in Bufs : x = Top(p).buf
    BY <2>2, Facts DEF Top
  <2>4. \A q \in Procs : pc[q] = "fill" => Top(q).buf \in Bufs
    <3>1. \A q \in Procs : pc[q] = "fill" => Len(use[q]) \in Asked(q)
      BY Facts DEF Places, PlaceOf, Asked
    <3>2. QED
      BY <3>1, Facts DEF Top
  <2>5. \A q \in Procs : \A i \in Asked(q)' : blockno'[use'[q][i].buf] = use'[q][i].block
    BY <2>1 DEF Named, Asked
  <2>6. CASE Lock(p)
    <3>1. /\ owner[x] = NoProc /\ valid' = valid
          /\ \A y \in Bufs : owner'[y] = IF y = x THEN p ELSE owner[y]
          /\ pc'[p] = "fill" => ~valid[x]
      BY <2>3, <2>6 DEF Lock, Goto, TypeOK
    <3>2. ASSUME NEW y \in Bufs, owner'[y] # NoProc
          PROVE  \E j \in Asked(owner[y])' : use'[owner'[y]][j].buf = y
      BY <2>1, <2>2, <2>3, <3>1, <3>2 DEF Named, Asked, Top
    <3>3. ASSUME NEW q \in Procs, pc'[q] = "fill"
          PROVE  owner'[Top(q)'.buf] = q /\ ~valid'[Top(q)'.buf]
      BY <2>1, <2>3, <2>4, <3>1, <3>3, SizesAssumption DEF Named, Top
    <3>4. QED
      BY <2>5, <3>2, <3>3 DEF Named
  <2>7. CASE Fill(p)
    <3>1. /\ pc[p] = "fill" /\ owner[x] = p /\ owner' = owner /\ pc'[p] = "ready"
          /\ \A y \in Bufs : valid'[y] = IF y = x THEN TRUE ELSE valid[y]
      BY <2>3, <2>7 DEF Fill, Goto, TypeOK, Named
    <3>2. ASSUME NEW y \in Bufs, owner'[y] # NoProc
          PROVE  \E j \in Asked(owner[y])' : use'[owner'[y]][j].buf = y
      BY <2>1, <3>1, <3>2 DEF Named, Asked
    <3>3. ASSUME NEW q \in Procs, pc'[q] = "fill"
          PROVE  owner'[Top(q)'.buf] = q /\ ~valid'[Top(q)'.buf]
      <4>1. q # p /\ pc[q] = "fill"
        BY <2>1, <3>1, <3>3
      <4>2. Top(q)' = Top(q) /\ Top(q).buf \in Bufs
        BY <2>1, <2>4, <4>1 DEF Top
      <4>3. owner[Top(q).buf] = q /\ ~valid[Top(q).buf]
        BY <4>1 DEF Named
      <4>4. Top(q).buf # x
        BY <3>1, <4>1, <4>3
      <4>5. owner'[Top(q).buf] = owner[Top(q).buf] /\ valid'[Top(q).buf] = valid[Top(q).buf]
        BY <3>1, <4>2, <4>4
      <4>6. QED
        BY <4>2, <4>3, <4>5, Zenon
    <3>4. QED
      BY <2>5, <3>2, <3>3 DEF Named
  <2>8. QED
    BY <1>4, <2>6, <2>7
<1>5. CASE Rest(p)
  <2>1. /\ UNCHANGED <<blockno, valid, owner, use>>
        /\ \A q \in Procs : pc'[q] = "fill" => pc[q] = "fill"
    BY <1>5, RestKeeps
  <2>2. QED
    BY <2>1 DEF Named, Asked, Top
<1>6. QED
  BY <1>1, <1>2, <1>3, <1>4, <1>5

LEMMA HoldingKept ==
  ASSUME BcacheInv, Next
  PROVE  Holding'
<1> TypeOK /\ Named /\ Places /\ Holding
  BY DEF BcacheInv
<1>1. PICK p \in Procs : Gets(p) \/ (\E i \in Asked(p) : Lets(p, i)) \/ Lock(p) \/ Fill(p) \/ Rest(p)
  BY KindsAre
<1> SUFFICES ASSUME NEW q \in Procs, NEW j \in Asked(q)', Held(q, j)'
             PROVE  owner'[use'[q][j].buf] = q /\ valid'[use'[q][j].buf]
  BY DEF Holding
<1>2. CASE Gets(p)
  <2>1. PICK b \in Stored, x \in Bufs : Wants(p, b) /\ Got(p, b, x)
    BY <1>2, BgetGets
  <2>2. /\ Len(use'[p]) = Len(use[p]) + 1
        /\ \A i \in Asked(p) : use'[p][i] = use[p][i]
        /\ q # p => use'[q] = use[q] /\ pc'[q] = pc[q]
        /\ pc'[p] = "lock" /\ owner' = owner
    BY <2>1, AskedOneMore DEF Got
  <2>3. \A y \in Bufs : valid'[y] = valid[y] \/ (y = x /\ refcnt[x] = 0)
    BY <2>1 DEF Got, TypeOK
  <2>4. j \in Asked(q) /\ Held(q, j) /\ use'[q][j] = use[q][j]
    <3>1. CASE q # p
      BY <2>2, <3>1 DEF Asked, Held
    <3>2. CASE q = p
      <4>1. j \in 1..(Len(use[p]) + 1) /\ j < Len(use[p]) + 1
        BY <2>2, <3>2 DEF Asked, Held
      <4>2. j \in Asked(p) /\ (j < Len(use[p]) \/ j = Len(use[p]))
        BY <4>1, Facts DEF Asked
      <4>3. QED
        BY <2>1, <2>2, <3>2, <4>2 DEF Wants, Held
    <3>3. QED
      BY <3>1, <3>2
  <2>5. QED
    BY <2>2, <2>3, <2>4, UnusedIsFree, Facts DEF Holding
<1>3. CASE \E i \in Asked(p) : Lets(p, i)
  <2>1. PICK i \in Asked(p) : Lets(p, i)
    BY <1>3
  <2>2. /\ Len(use'[p]) = Len(use[p]) - 1
        /\ \A k \in Asked(p)' : use'[p][k] = use[p][IF k < i THEN k ELSE k + 1]
        /\ q # p => use'[q] = use[q] /\ pc'[q] = pc[q]
    BY <2>1, AskedOneLess
  <2>3. PICK x \in Bufs : x = use[p][i].buf /\ owner[x] = p
    BY <2>1, LetsHeld
  <2>4. valid' = valid /\ \A y \in Bufs : owner'[y] = IF y = x THEN NoProc ELSE owner[y]
    BY <2>1, <2>3 DEF Lets, Unlock, TypeOK
  <2>5. CASE q # p
    <3>1. j \in Asked(q) /\ Held(q, j) /\ use'[q][j] = use[q][j] /\ use[q][j].buf \in Bufs
      BY <2>2, <2>5, Facts DEF Asked, Held
    <3>2. QED
      BY <2>3, <2>4, <2>5, <3>1 DEF Holding
  <2>6. CASE q = p
    <3>1. PICK k \in Asked(p) : use'[p][j] = use[p][k] /\ k # i
      <4>1. j \in 1..(Len(use[p]) - 1) /\ i \in 1..Len(use[p])
        BY <2>2, <2>6 DEF Asked
      <4>2. (IF j < i THEN j ELSE j + 1) \in Asked(p) /\ (IF j < i THEN j ELSE j + 1) # i
        BY <4>1, Facts DEF Asked
      <4>3. QED
        BY <2>2, <2>6, <4>2
    <3>2. use[p][k].buf # x /\ use[p][k].buf \in Bufs /\ Held(p, k)
      BY <2>1, <2>3, <3>1, BufsDiffer, LetsHeld, Facts
    <3>3. QED
      BY <2>4, <2>6, <3>1, <3>2 DEF Holding
  <2>7. QED
    BY <2>5, <2>6
<1>4. CASE Lock(p) \/ Fill(p)
  <2>1. /\ pc[p] \in {"lock", "fill"} /\ pc'[p] \in {"fill", "ready"} /\ use' = use
        /\ q # p => pc'[q] = pc[q]
    BY <1>4 DEF Lock, Fill, Goto, TypeOK
  <2>2. Len(use[p]) \in Asked(p)
    BY <2>1, Facts DEF Places, PlaceOf, Asked
  <2>3. PICK x \in Bufs : x = Top(p).buf /\ x = use[p][Len(use[p])].buf
    BY <2>2, Facts DEF Top
  <2>4. /\ \A y \in Bufs : y # x => owner'[y] = owner[y] /\ valid'[y] = valid[y]
        /\ owner[x] \in {NoProc, p} /\ owner'[x] = p
        /\ pc'[p] = "ready" => valid'[x]
        /\ valid[x] => valid'[x]
    <3>1. CASE Lock(p)
      BY <2>3, <3>1 DEF Lock, Goto, TypeOK
    <3>2. CASE Fill(p)
      BY <2>3, <3>2 DEF Fill, Goto, TypeOK, Named
    <3>3. QED
      BY <1>4, <3>1, <3>2
  <2>5. j \in Asked(q) /\ use[q][j].buf \in Bufs
    BY <2>1, Facts DEF Asked
  <2>6. CASE q = p /\ j = Len(use[p])
    BY <2>1, <2>3, <2>4, <2>6 DEF Held
  <2>7. CASE ~(q = p /\ j = Len(use[p]))
    <3>1. Held(q, j)
      BY <2>1, <2>7 DEF Held
    <3>2. owner[use[q][j].buf] = q /\ valid[use[q][j].buf]
      BY <2>5, <3>1 DEF Holding
    <3>3. QED
      BY <2>1, <2>4, <2>5, <3>2, SizesAssumption
  <2>8. QED
    BY <2>6, <2>7
<1>5. CASE Rest(p)
  <2>1. /\ UNCHANGED <<valid, owner, use>>
        /\ pc[q] \in {"lock", "fill"} => pc'[q] \in {"lock", "fill"}
    BY <1>5, RestKeeps
  <2>2. j \in Asked(q) /\ Held(q, j)
    BY <2>1 DEF Asked, Held
  <2>3. QED
    BY <2>1, <2>2 DEF Holding
<1>6. QED
  BY <1>1, <1>2, <1>3, <1>4, <1>5

-----------------------------------------------------------------------------
(* References. *)

\* log_write() pins a block that it appends, install_trans() unpins the one installed.
LEMMA PinnedIs ==
  ASSUME BcacheInv, NEW p \in Procs
  PROVE  /\ LogWrite(p) => /\ Pinned = Logged
                           /\ Pinned' = Pinned \cup {blockno[Top(p).buf]}
         /\ Unpin(p) => /\ lh[tail] \in Pinned
                        /\ Pinned' = Pinned \ {lh[tail]}
         /\ LogKept(p) \/ BeginOp(p) \/ EndOp(p) \/ WriteLog(p) \/ NextPhase(p)
              => Pinned' = Pinned
<1> TypeOK /\ Phases /\ Places /\ Len(lh) \in Nat
  BY Facts DEF BcacheInv
<1> tail \in Nat /\ tail >= 1
  BY SizesAssumption DEF TypeOK
<1>1. ASSUME LogKept(p) \/ BeginOp(p) \/ WriteLog(p) PROVE Pinned' = Pinned
  <2>1. UNCHANGED <<lh, phase>> /\ (phase = "install" => tail' = tail)
    BY <1>1, LogIsKept DEF BeginOp, WriteLog
  <2>2. QED
    BY <2>1 DEF Pinned, Logged
<1>2. ASSUME EndOp(p) PROVE Pinned' = Pinned
  <2>1. /\ lh' = lh /\ phase = "idle"
        /\ phase' \in {"idle", "copy"}
    BY <1>2 DEF EndOp, Phases
  <2>2. QED
    BY <2>1 DEF Pinned, Logged
<1>3. ASSUME NextPhase(p) PROVE Pinned' = Pinned
  <2>1. p = committer /\ phase # "idle" /\ tail > Len(lh) /\ tail' = 1
    BY <1>3, SizesAssumption DEF NextPhase, Phases
  <2>2. CASE phase = "copy"
    <3>1. phase' = "install" /\ lh' = lh
      BY <1>3, <2>2 DEF NextPhase
    <3>2. QED
      BY <2>1, <2>2, <3>1 DEF Pinned, Logged
  <2>3. CASE phase # "copy"
    <3>1. phase' = "idle" /\ lh' = <<>>
      BY <1>3, <2>3 DEF NextPhase
    <3>2. Pinned' = {}
      BY <3>1 DEF Pinned, Logged
    <3>3. phase \in {"install", "recover"}
      BY <2>1, <2>3 DEF TypeOK
    <3>4. Pinned = {}
      BY <2>1, <3>3 DEF Pinned
    <3>5. QED
      BY <3>2, <3>4
  <2>4. QED
    BY <2>2, <2>3
<1>4. ASSUME LogWrite(p)
      PROVE  Pinned = Logged /\ Pinned' = Pinned \cup {blockno[Top(p).buf]}
  <2>1. phase = "idle" /\ phase' = "idle"
    BY <1>4, DirtyIs DEF LogWrite
  <2>2. Logged' = Logged \cup {blockno[Top(p).buf]}
    BY <1>4, LogWriteAdds, Zenon
  <2>3. Pinned = Logged /\ Pinned' = Logged'
    BY <2>1 DEF Pinned
  <2>4. QED
    BY <2>2, <2>3
<1>5. ASSUME Unpin(p)
      PROVE  lh[tail] \in Pinned /\ Pinned' = Pinned \ {lh[tail]}
  <2>1. /\ phase = "install" /\ phase' = "install" /\ lh' = lh /\ tail' = tail + 1
        /\ p = committer /\ Len(use[p]) = 2 /\ pc[p] = "unpin"
    BY <1>5 DEF Unpin, Places, PlaceOf, CommitterAt, UserAt
  <2>2. tail \in 1..Len(lh)
    BY <2>1, BothInUse
  <2>3. tail..Len(lh) = {tail} \cup ((tail + 1)..Len(lh))
    BY <2>2
  <2>4. Pinned = {lh[i] : i \in tail..Len(lh)} /\ Pinned' = {lh[i] : i \in (tail + 1)..Len(lh)}
    BY <2>1 DEF Pinned
  <2>5. \A i \in (tail + 1)..Len(lh) : i \in 1..Len(lh) /\ i # tail
    BY <2>2
  <2>6. \A i \in (tail + 1)..Len(lh) : lh[i] # lh[tail]
    BY <2>2, <2>5 DEF Phases
  <2>7. QED
    BY <2>2, <2>3, <2>4, <2>6
<1>6. QED
  BY <1>1, <1>2, <1>3, <1>4, <1>5

LEMMA PinsCachedKept ==
  ASSUME BcacheInv, Next
  PROVE  PinsCached'
<1> TypeOK /\ PinsCached
  BY DEF BcacheInv
<1>1. PICK p \in Procs : LogKept(p) \/ LogSteps(p)
  BY StepsAre
<1>2. CASE Gets(p)
  <2>1. PICK b \in Stored, x \in Bufs : Got(p, b, x)
    BY <1>2, BgetGets
  <2>2. Pinned' = Pinned
    BY <1>2, PinnedIs DEF LogKept
  <2>3. \A y \in Bufs : blockno'[y] = blockno[y] \/ blockno[y] \notin Pinned
    BY <2>1, UnusedIsFree DEF Got, TypeOK
  <2>4. QED
    BY <2>2, <2>3 DEF PinsCached
<1>3. CASE LogWrite(p)
  <2>1. Pinned' = Pinned \cup {blockno[Top(p).buf]} /\ Top(p).buf \in Bufs /\ blockno' = blockno
    BY <1>3, PinnedIs, DirtyIs DEF LogWrite
  <2>2. QED
    BY <2>1 DEF PinsCached
<1>4. CASE ~Gets(p) /\ ~LogWrite(p)
  <2>1. (\E i \in Asked(p) : Lets(p, i)) \/ Lock(p) \/ Fill(p) \/ Rest(p)
    BY <1>1, <1>4 DEF LogKept, Rest
  <2>2. blockno' = blockno
    BY <2>1, RestKeeps DEF Lets, Unlock, Lock, Fill
  <2>3. Pinned' \subseteq Pinned
    BY <1>1, <1>4, PinnedIs DEF LogSteps
  <2>4. QED
    BY <2>2, <2>3 DEF PinsCached
<1>5. QED
  BY <1>2, <1>3, <1>4

LEMMA NoMultiple ==
  ASSUME NEW w \in Nat \ {0}, NEW q \in Int, -w < w * q, w * q < w
  PROVE  q = 0
<1>1. CASE q >= 1
  <2>1. w * q >= w * 1
    BY <1>1
  <2>2. QED
    BY <2>1
<1>2. CASE q <= -1
  <2>1. w * q <= w * (-1)
    BY <1>2
  <2>2. QED
    BY <2>1
<1>3. QED
  BY <1>1, <1>2

\* A counter within its width does not change by a turn, nor by none.
LEMMA InWidth ==
  ASSUME NEW w \in Nat \ {0}, NEW a \in 0..(w - 1)
  PROVE  a % w = a /\ (a + w) % w = a
<1>1. \A n \in Int : n = w * (n \div w) + (n % w) /\ n \div w \in Int /\ n % w \in 0..(w - 1)
  BY SMTT(30)
<1>2. a % w = a
  <2>1. PICK q \in Int, r \in 0..(w - 1) : a = w * q + r /\ r = a % w
    <3>1. a \in Int
      OBVIOUS
    <3>2. QED
      BY <1>1, <3>1
  <2>2. w * q = a - r /\ -w < a - r /\ a - r < w
    BY <2>1
  <2>3. q = 0
    BY <2>2, NoMultiple
  <2>4. QED
    BY <2>1, <2>3
<1>3. (a + w) % w = a
  <2>1. PICK n \in Int : n = a + w
    OBVIOUS
  <2>2. PICK q \in Int, r \in 0..(w - 1) : n = w * q + r /\ r = n % w
    BY <1>1
  <2>3. w * (q - 1) = w * q - w
    OBVIOUS
  <2>4. w * (q - 1) = a - r /\ -w < a - r /\ a - r < w /\ q - 1 \in Int
    BY <2>1, <2>2, <2>3
  <2>5. q - 1 = 0
    BY <2>4, NoMultiple
  <2>6. QED
    BY <2>1, <2>2, <2>4, <2>5
<1>4. QED
  BY <1>2, <1>3

LEMMA UsesGrow ==
  ASSUME BcacheInv, NEW p \in Procs, NEW b \in Stored, NEW x \in Bufs,
         Wants(p, b), Got(p, b, x), NEW y \in Bufs
  PROVE  Cardinality(Uses(y)') = Cardinality(Uses(y)) + (IF y = x THEN 1 ELSE 0)
<1> DEFINE n == Len(use[p]) + 1
<1>1. /\ Len(use'[p]) = n /\ use'[p][n] = [block |-> b, buf |-> x]
      /\ \A i \in Asked(p) : use'[p][i] = use[p][i]
      /\ \A q \in Procs : q # p => use'[q] = use[q]
  BY AskedOneMore DEF Got
<1>2. n \in 1..2 /\ n \notin Asked(p) /\ \A i \in 1..2 : i <= n <=> i \in Asked(p) \/ i = n
  <2>1. Len(use[p]) \in {0, 1, 2} /\ Len(use[p]) # 2
    BY Facts, SMTT(30) DEF Wants, BcacheInv, Places, PlaceOf
  <2>2. CASE Len(use[p]) = 0
    BY <2>2 DEF Asked
  <2>3. CASE Len(use[p]) = 1
    BY <2>3 DEF Asked
  <2>4. QED
    BY <2>1, <2>2, <2>3
<1> HIDE DEF n
<1>3. ASSUME NEW u \in Procs \X (1..2)
      PROVE  u \in Uses(y)' <=> u \in Uses(y) \/ (u = <<p, n>> /\ y = x)
  <2>1. PICK q \in Procs, i \in 1..2 : u = <<q, i>>
    OBVIOUS
  <2>2. u \in Uses(y) <=> i <= Len(use[q]) /\ use[q][i].buf = y
    BY <2>1 DEF Uses
  <2>3. u \in Uses(y)' <=> i <= Len(use'[q]) /\ use'[q][i].buf = y
    BY <2>1 DEF Uses
  <2>4. CASE q # p
    BY <1>1, <2>1, <2>2, <2>3, <2>4
  <2>5. CASE q = p /\ i # n
    <3>1. i <= Len(use'[q]) <=> i \in Asked(p)
      BY <1>1, <1>2, <2>5
    <3>2. i \in Asked(p) <=> i <= Len(use[p])
      BY Facts DEF Asked
    <3>3. QED
      BY <1>1, <2>1, <2>2, <2>3, <2>5, <3>1, <3>2
  <2>6. CASE q = p /\ i = n
    <3>1. ~(i <= Len(use[q]))
      BY <1>2, <2>6, Facts DEF Asked
    <3>2. i <= Len(use'[q]) /\ use'[q][i].buf = x
      BY <1>1, <1>2, <2>6
    <3>3. QED
      BY <2>1, <2>2, <2>3, <2>6, <3>1, <3>2
  <2>7. QED
    BY <2>4, <2>5, <2>6
<1>4. /\ Uses(y)' \subseteq Procs \X (1..2) /\ Uses(y) \subseteq Procs \X (1..2)
      /\ <<p, n>> \in Procs \X (1..2) /\ <<p, n>> \notin Uses(y)
  <2>1. <<p, n>> \notin Uses(y)
    BY <1>2, Facts DEF Uses, Asked
  <2>2. QED
    BY <1>2, <2>1 DEF Uses
<1>5. PICK U \in SUBSET (Procs \X (1..2)) : U = Uses(y)
  BY <1>4
<1>6. IsFiniteSet(U) /\ Cardinality(U) \in Nat
  BY Countable, {} \in SUBSET Procs
<1>7. CASE y = x
  <2>1. Uses(y)' = U \cup {<<p, n>>}
    BY <1>3, <1>4, <1>5, <1>7
  <2>2. Cardinality(U \cup {<<p, n>>}) = Cardinality(U) + 1
    BY <1>4, <1>5, <1>6, FS_AddElement
  <2>3. QED
    BY <1>5, <1>7, <2>1, <2>2
<1>8. CASE y # x
  <2>1. Uses(y)' = U
    BY <1>3, <1>4, <1>5, <1>8
  <2>2. QED
    BY <1>5, <1>6, <1>8, <2>1
<1>9. QED
  BY <1>7, <1>8

LEMMA UsesShrink ==
  ASSUME BcacheInv, NEW p \in Procs, NEW i, Lets(p, i), NEW y \in Bufs
  PROVE  Cardinality(Uses(y)') = Cardinality(Uses(y)) - (IF y = use[p][i].buf THEN 1 ELSE 0)
<1>1. /\ Len(use'[p]) = Len(use[p]) - 1
      /\ \A j \in Asked(p)' : use'[p][j] = use[p][IF j < i THEN j ELSE j + 1]
      /\ \A q \in Procs : q # p => use'[q] = use[q]
      /\ i \in Asked(p)
  BY AskedOneLess DEF Lets
<1>2. PICK n \in {1, 2} : Len(use[p]) = n /\ i \in 1..n
  BY <1>1, Facts DEF Asked
<1>3. PICK x \in Bufs : x = use[p][i].buf
  BY <1>1, Facts
<1>4. PICK U \in SUBSET (Procs \X (1..2)) : U = Uses(y)
  BY DEF Uses
<1>5. IsFiniteSet(U) /\ Cardinality(U) \in Nat
  BY Countable, {} \in SUBSET Procs
<1>6. ASSUME NEW q \in Procs, NEW j \in 1..2
      PROVE  /\ <<q, j>> \in U <=> j <= Len(use[q]) /\ use[q][j].buf = y
             /\ <<q, j>> \in Uses(y)' <=> j <= Len(use'[q]) /\ use'[q][j].buf = y
  BY <1>4 DEF Uses
<1>7. ASSUME NEW q \in Procs, NEW j \in 1..2, q # p
      PROVE  <<q, j>> \in U <=> <<q, j>> \in Uses(y)'
  BY <1>1, <1>6, <1>7
<1>8. <<p, i>> \in U <=> y = x
  <2>1. i \in 1..2 /\ i <= Len(use[p])
    BY <1>2
  <2>2. QED
    BY <1>3, <1>6, <2>1
<1>9. \A u \in Procs \X (1..2) : \E q \in Procs, j \in 1..2 : u = <<q, j>>
  OBVIOUS
<1>10. CASE i = n
  <2>1. ASSUME NEW j \in 1..2
        PROVE  <<p, j>> \in Uses(y)' <=> <<p, j>> \in U /\ j # i
    <3>1. j <= n - 1 => j \in Asked(p)' /\ use'[p][j] = use[p][j]
      BY <1>1, <1>2, <1>10 DEF Asked
    <3>2. j <= n /\ j # i <=> j <= n - 1
      BY <1>2, <1>10
    <3>3. QED
      BY <1>1, <1>2, <1>6, <3>1, <3>2
  <2>2. Uses(y)' = U \ {<<p, i>>}
    <3>1. ASSUME NEW q \in Procs, NEW j \in 1..2
          PROVE  <<q, j>> \in Uses(y)' <=> <<q, j>> \in U \ {<<p, i>>}
      BY <1>7, <2>1
    <3>2. ASSUME NEW u \in Procs \X (1..2) PROVE u \in Uses(y)' <=> u \in U \ {<<p, i>>}
      <4>1. PICK q \in Procs, j \in 1..2 : u = <<q, j>>
        BY <1>9
      <4>2. QED
        BY <3>1, <4>1
    <3>3. Uses(y)' \subseteq Procs \X (1..2) /\ U \ {<<p, i>>} \subseteq Procs \X (1..2)
      BY DEF Uses
    <3>4. QED
      BY <3>2, <3>3
  <2>3. Cardinality(U \ {<<p, i>>}) = IF <<p, i>> \in U THEN Cardinality(U) - 1 ELSE Cardinality(U)
    BY <1>5, FS_RemoveElement
  <2>4. QED
    BY <1>3, <1>4, <1>5, <1>8, <2>2, <2>3
<1>11. CASE i # n
  <2>1. i = 1 /\ n = 2 /\ 1 \in Asked(p) /\ 2 \in Asked(p) /\ 1 \in Asked(p)'
    BY <1>1, <1>2, <1>11 DEF Asked
  <2>2. PICK z \in Bufs : z = use[p][2].buf /\ z = use'[p][1].buf /\ z # x
    BY <1>1, <1>3, <2>1, BufsDiffer, Facts, SMTT(30)
  <2>3. Len(use'[p]) = 1
    BY <1>1, <1>2, <2>1
  <2>4. /\ <<p, 1>> \in U <=> y = x
        /\ <<p, 2>> \in U <=> y = z
        /\ <<p, 1>> \in Uses(y)' <=> y = z
        /\ <<p, 2>> \notin Uses(y)'
    <3>1. 1 <= Len(use[p]) /\ 2 <= Len(use[p]) /\ 1 <= Len(use'[p]) /\ ~(2 <= Len(use'[p]))
          /\ 1 \in 1..2 /\ 2 \in 1..2
      BY <1>2, <2>1, <2>3
    <3>2. use[p][1].buf = x /\ use[p][2].buf = z /\ use'[p][1].buf = z
      BY <1>3, <2>1, <2>2
    <3>3. QED
      BY <1>6, <3>1, <3>2
  <2>5. Uses(y)' = (IF y = z THEN (U \ {<<p, 2>>}) \cup {<<p, 1>>} ELSE U \ {<<p, 1>>})
    <3>1. ASSUME NEW q \in Procs, NEW j \in 1..2
          PROVE  <<q, j>> \in Uses(y)' <=>
                   <<q, j>> \in (IF y = z THEN (U \ {<<p, 2>>}) \cup {<<p, 1>>} ELSE U \ {<<p, 1>>})
      <4>1. CASE q # p
        BY <1>7, <4>1
      <4>2. CASE q = p
        <5>1. j \in {1, 2}
          OBVIOUS
        <5>2. QED
          BY <2>2, <2>4, <4>2, <5>1
      <4>3. QED
        BY <4>1, <4>2
    <3>2. PICK R : R = IF y = z THEN (U \ {<<p, 2>>}) \cup {<<p, 1>>} ELSE U \ {<<p, 1>>}
      OBVIOUS
    <3>3. ASSUME NEW u \in Procs \X (1..2) PROVE u \in Uses(y)' <=> u \in R
      <4>1. PICK q \in Procs, j \in 1..2 : u = <<q, j>>
        BY <1>9
      <4>2. QED
        BY <3>1, <3>2, <4>1
    <3>4. Uses(y)' \subseteq Procs \X (1..2) /\ R \subseteq Procs \X (1..2)
      BY <3>2 DEF Uses
    <3>5. QED
      BY <3>2, <3>3, <3>4
  <2>6. CASE y = z
    <3>1. Cardinality(U \ {<<p, 2>>}) = Cardinality(U) - 1 /\ IsFiniteSet(U \ {<<p, 2>>})
      BY <1>5, <2>4, <2>6, FS_RemoveElement
    <3>2. <<p, 1>> \notin U \ {<<p, 2>>}
      BY <2>2, <2>4, <2>6
    <3>3. Cardinality((U \ {<<p, 2>>}) \cup {<<p, 1>>}) = Cardinality(U \ {<<p, 2>>}) + 1
      BY <3>1, <3>2, FS_AddElement
    <3>4. y # use[p][i].buf
      BY <1>3, <2>2, <2>6
    <3>5. QED
      BY <1>4, <1>5, <2>5, <2>6, <3>1, <3>3, <3>4
  <2>7. CASE y # z
    <3>1. Cardinality(U \ {<<p, 1>>}) = IF <<p, 1>> \in U THEN Cardinality(U) - 1 ELSE Cardinality(U)
      BY <1>5, FS_RemoveElement
    <3>2. QED
      BY <1>3, <1>4, <1>5, <2>4, <2>5, <2>7, <3>1
  <2>8. QED
    BY <2>6, <2>7
<1>12. QED
  BY <1>10, <1>11

LEMMA DroppersAre ==
  ASSUME BcacheInv, NEW p \in Procs, NEW y \in Bufs
  PROVE  /\ (drop' = drop) => Droppers(y)' = Droppers(y)
         /\ \A x \in Bufs : drop[p] = 0 /\ drop' = [drop EXCEPT ![p] = x] =>
              Cardinality(Droppers(y)') = Cardinality(Droppers(y)) + (IF y = x THEN 1 ELSE 0)
         /\ drop' = [drop EXCEPT ![p] = 0] =>
              Cardinality(Droppers(y)') = Cardinality(Droppers(y)) - (IF y = drop[p] THEN 1 ELSE 0)
<1> drop \in [Procs -> 0..NBUF] /\ y \in 1..NBUF /\ NBUF \in Nat
  BY BufsAre DEF BcacheInv, TypeOK
<1>1. PICK D \in SUBSET Procs : D = Droppers(y)
  BY DEF Droppers
<1>2. IsFiniteSet(D) /\ Cardinality(D) \in Nat
  BY Countable, {} \in SUBSET (Procs \X (1..2))
<1>3. ASSUME NEW x \in Bufs, drop[p] = 0, drop' = [drop EXCEPT ![p] = x]
      PROVE  Cardinality(Droppers(y)') = Cardinality(Droppers(y)) + (IF y = x THEN 1 ELSE 0)
  <2>1. p \notin D /\ Droppers(y)' = IF y = x THEN D \cup {p} ELSE D
    BY <1>1, <1>3, BufsAre DEF Droppers
  <2>2. Cardinality(D \cup {p}) = Cardinality(D) + 1
    BY <1>2, <2>1, FS_AddElement
  <2>3. QED
    BY <1>1, <1>2, <2>1, <2>2
<1>4. ASSUME drop' = [drop EXCEPT ![p] = 0]
      PROVE  Cardinality(Droppers(y)') = Cardinality(Droppers(y)) - (IF y = drop[p] THEN 1 ELSE 0)
  <2>1. Droppers(y)' = D \ {p} /\ (p \in D <=> y = drop[p])
    BY <1>1, <1>4 DEF Droppers
  <2>2. Cardinality(D \ {p}) = IF p \in D THEN Cardinality(D) - 1 ELSE Cardinality(D)
    BY <1>2, FS_RemoveElement
  <2>3. QED
    BY <1>1, <1>2, <2>1, <2>2
<1>5. drop' = drop => Droppers(y)' = Droppers(y)
  BY DEF Droppers
<1>6. QED
  BY <1>3, <1>4, <1>5

\* What a reference count is, and that counting the next state does not wrap.
LEMMA Counted ==
  ASSUME BcacheInv, NEW y \in Bufs
  PROVE  /\ Cardinality(Uses(y)) \in Nat /\ Cardinality(Droppers(y)) \in Nat
         /\ refcnt[y] = Cardinality(Uses(y)) + Cardinality(Droppers(y))
                        + (IF blockno[y] \in Pinned THEN 1 ELSE 0)
         /\ refcnt[y] \in 0..(Wrap - 1) /\ Wrap \in Nat \ {0}
         /\ Cardinality(Uses(y)') \in Nat /\ Cardinality(Droppers(y)') \in Nat
         /\ Cardinality(Uses(y)') + Cardinality(Droppers(y)') + 1 < Wrap
<1>1. PICK U \in SUBSET (Procs \X (1..2)), D \in SUBSET Procs : U = Uses(y) /\ D = Droppers(y)
  BY DEF Uses, Droppers
<1>2. PICK V \in SUBSET (Procs \X (1..2)), E \in SUBSET Procs : V = Uses(y)' /\ E = Droppers(y)'
  BY DEF Uses, Droppers
<1>3. Cardinality(U) \in Nat /\ Cardinality(D) \in Nat
  BY Countable
<1>4. /\ Cardinality(V) \in Nat /\ Cardinality(E) \in Nat
      /\ Cardinality(V) + Cardinality(E) + 1 < Wrap
  BY Countable
<1>5. refcnt[y] \in 0..(Wrap - 1)
  BY DEF BcacheInv, TypeOK
<1>6. Wrap \in Nat \ {0}
  BY <1>4, SizesAssumption
<1>7. refcnt[y] = Cardinality(Uses(y)) + Cardinality(Droppers(y))
                  + (IF blockno[y] \in Pinned THEN 1 ELSE 0)
  BY DEF BcacheInv, RefcntExact
<1>8. QED
  BY <1>1, <1>2, <1>3, <1>4, <1>5, <1>6, <1>7

\* One reference more, and one less.
LEMMA CountsOn ==
  ASSUME NEW w \in Nat \ {0}, NEW n \in 0..(w - 1)
  PROVE  /\ n + 1 < w => (n + 1) % w = n + 1
         /\ n > 0 => (n + w - 1) % w = n - 1
<1>1. ASSUME n + 1 < w PROVE (n + 1) % w = n + 1
  <2>1. n + 1 \in 0..(w - 1)
    BY <1>1
  <2>2. QED
    BY <2>1, InWidth
<1>2. ASSUME n > 0 PROVE (n + w - 1) % w = n - 1
  <2>1. n - 1 \in 0..(w - 1) /\ n + w - 1 = (n - 1) + w
    BY <1>2
  <2>2. ((n - 1) + w) % w = n - 1
    BY <2>1, InWidth
  <2>3. QED
    BY <2>1, <2>2
<1>3. QED
  BY <1>1, <1>2

\* The references to y.
Total(y) == Cardinality(Uses(y)) + Cardinality(Droppers(y))
            + (IF blockno[y] \in Pinned THEN 1 ELSE 0)

LEMMA ExactAt ==
  ASSUME BcacheInv, NEW y \in Bufs, NEW d \in {-1, 0, 1}, Total(y)' = Total(y) + d,
         d = 0 => refcnt'[y] = refcnt[y],
         d = 1 => refcnt'[y] = (refcnt[y] + 1) % Wrap,
         d = -1 => refcnt'[y] = (refcnt[y] + Wrap - 1) % Wrap
  PROVE  refcnt'[y] = Total(y)'
<1> DEFINE n == refcnt[y]
<1>1. n = Total(y) /\ n \in 0..(Wrap - 1) /\ Wrap \in Nat \ {0}
  BY Counted DEF Total
<1>2. Total(y)' \in 0..(Wrap - 1)
  BY Counted DEF Total
<1>3. Total(y)' = n + d
  BY <1>1
<1> HIDE DEF n
<1>4. CASE d = 0
  BY <1>1, <1>3, <1>4 DEF n
<1>5. CASE d = 1
  <2>1. (n + 1) % Wrap = n + 1
    BY <1>1, <1>2, <1>3, <1>5, CountsOn
  <2>2. QED
    BY <1>3, <1>5, <2>1 DEF n
<1>6. CASE d = -1
  <2>1. (n + Wrap - 1) % Wrap = n - 1
    BY <1>1, <1>2, <1>3, <1>6, CountsOn
  <2>2. QED
    BY <1>1, <1>3, <1>6, <2>1 DEF n
<1>7. QED
  BY <1>4, <1>5, <1>6

LEMMA RefcntKept ==
  ASSUME BcacheInv, Next
  PROVE  RefcntExact'
<1> TypeOK /\ OneBufferPerBlock /\ PinsCached /\ refcnt \in [Bufs -> 0..(Wrap - 1)]
  BY DEF BcacheInv, TypeOK
<1>1. PICK p \in Procs : Gets(p) \/ (\E i \in Asked(p) : Lets(p, i)) \/ Lock(p) \/ Fill(p) \/ Rest(p)
  BY KindsAre
<1> SUFFICES ASSUME NEW y \in Bufs PROVE refcnt'[y] = Total(y)'
  BY DEF RefcntExact, Total
<1> DEFINE U == Cardinality(Uses(y))
           D == Cardinality(Droppers(y))
<1>2. U \in Nat /\ D \in Nat /\ U' \in Nat /\ D' \in Nat
  BY Counted
<1> HIDE DEF U, D
<1>3. /\ Total(y) = U + D + (IF blockno[y] \in Pinned THEN 1 ELSE 0)
      /\ Total(y)' = U' + D' + (IF blockno'[y] \in Pinned' THEN 1 ELSE 0)
  BY DEF Total, U, D
<1>4. CASE Gets(p)
  <2>1. PICK b \in Stored, x \in Bufs : Wants(p, b) /\ Got(p, b, x)
    BY <1>4, BgetGets
  <2>2. U' = U + (IF y = x THEN 1 ELSE 0)
    BY <2>1, UsesGrow DEF U
  <2>3. D' = D
    BY <2>1, DroppersAre DEF Got, Asks, D
  <2>4. Pinned' = Pinned
    BY <1>4, PinnedIs DEF LogKept
  <2>5. blockno'[y] \in Pinned' <=> blockno[y] \in Pinned
    <3>1. CASE blockno' = blockno
      BY <2>4, <3>1
    <3>2. CASE Cached(b) = {} /\ refcnt[x] = 0 /\ blockno' = [blockno EXCEPT ![x] = b]
      <4>1. blockno[x] \notin Pinned
        BY <3>2, UnusedIsFree
      <4>2. b \notin Pinned
        BY <3>2 DEF PinsCached, Cached
      <4>3. QED
        BY <2>4, <3>2, <4>1, <4>2 DEF TypeOK
    <3>3. QED
      BY <2>1, <3>1, <3>2 DEF Got
  <2>6. refcnt' = [refcnt EXCEPT ![x] = (@ + 1) % Wrap]
    BY <2>1 DEF Got
  <2>7. CASE y = x
    <3>1. Total(y)' = Total(y) + 1
      BY <1>2, <1>3, <2>2, <2>3, <2>5, <2>7
    <3>2. QED
      BY <2>6, <2>7, <3>1, ExactAt
  <2>8. CASE y # x
    <3>1. Total(y)' = Total(y) + 0
      BY <1>2, <1>3, <2>2, <2>3, <2>5, <2>8
    <3>2. QED
      BY <2>6, <2>8, <3>1, ExactAt
  <2>9. QED
    BY <2>7, <2>8
<1>5. CASE \E i \in Asked(p) : Lets(p, i)
  <2>1. PICK i \in Asked(p) : Lets(p, i)
    BY <1>5
  <2>2. PICK x \in Bufs : x = use[p][i].buf
    BY Facts
  <2>3. U' = U - (IF y = x THEN 1 ELSE 0)
    BY <2>1, <2>2, UsesShrink DEF U
  <2>4. D' = D + (IF y = x THEN 1 ELSE 0)
    <3>1. drop' = [drop EXCEPT ![p] = x]
      BY <2>1, <2>2 DEF Lets, Unlock
    <3>2. drop[p] = 0
      BY <2>1, AskedOneLess
    <3>3. QED
      BY <3>1, <3>2, DroppersAre DEF D
  <2>5. Pinned' = Pinned /\ blockno' = blockno /\ refcnt' = refcnt
    BY <1>5, <2>1, PinnedIs DEF LogKept, Lets, Unlock
  <2>6. Total(y)' = Total(y) + 0
    BY <1>2, <1>3, <2>3, <2>4, <2>5
  <2>7. QED
    BY <2>5, <2>6, ExactAt
<1>6. CASE Deref(p)
  <2>1. use' = use /\ blockno' = blockno /\ drop' = [drop EXCEPT ![p] = 0] /\ Pinned' = Pinned
    BY <1>6, PinnedIs DEF Deref, LogKept
  <2>2. U' = U /\ D' = D - (IF y = drop[p] THEN 1 ELSE 0)
    BY <2>1, DroppersAre DEF U, D, Uses
  <2>3. refcnt' = [refcnt EXCEPT ![drop[p]] = (@ + Wrap - 1) % Wrap]
    BY <1>6 DEF Deref, Dropped
  <2>4. CASE y = drop[p]
    <3>1. Total(y)' = Total(y) + (-1)
      BY <1>2, <1>3, <2>1, <2>2, <2>4
    <3>2. QED
      BY <2>3, <2>4, <3>1, ExactAt
  <2>5. CASE y # drop[p]
    <3>1. Total(y)' = Total(y) + 0
      BY <1>2, <1>3, <2>1, <2>2, <2>5
    <3>2. QED
      BY <2>3, <2>5, <3>1, ExactAt
  <2>6. QED
    BY <2>4, <2>5
<1>7. CASE LogWrite(p)
  <2>1. /\ use' = use /\ blockno' = blockno /\ drop' = drop
        /\ Pinned = Logged /\ Pinned' = Pinned \cup {blockno[Top(p).buf]}
    BY <1>7, PinnedIs DEF LogWrite
  <2>2. U' = U /\ D' = D
    BY <2>1, DroppersAre DEF U, D, Uses
  <2>3. PICK x \in Bufs : x = Top(p).buf /\ blockno[x] # NoBlock
    BY <1>7, DirtyIs, SizesAssumption DEF LogWrite
  <2>4. y # x => blockno[y] # blockno[x]
    BY <2>3 DEF OneBufferPerBlock
  <2>5. CASE y = x /\ blockno[x] \notin Pinned
    <3>1. Total(y)' = Total(y) + 1
      BY <1>2, <1>3, <2>1, <2>2, <2>3, <2>5
    <3>2. refcnt'[y] = (refcnt[y] + 1) % Wrap
      BY <1>7, <2>1, <2>3, <2>5 DEF LogWrite
    <3>3. QED
      BY <3>1, <3>2, ExactAt
  <2>6. CASE ~(y = x /\ blockno[x] \notin Pinned)
    <3>1. blockno'[y] \in Pinned' <=> blockno[y] \in Pinned
      BY <2>1, <2>3, <2>4, <2>6
    <3>2. Total(y)' = Total(y) + 0
      BY <1>2, <1>3, <2>2, <3>1
    <3>3. refcnt'[y] = refcnt[y]
      BY <1>7, <2>1, <2>3, <2>6 DEF LogWrite
    <3>4. QED
      BY <3>2, <3>3, ExactAt
  <2>7. QED
    BY <2>5, <2>6
<1>8. CASE Unpin(p)
  <2>1. /\ use' = use /\ blockno' = blockno /\ drop' = drop
        /\ lh[tail] \in Pinned /\ Pinned' = Pinned \ {lh[tail]}
    BY <1>8, PinnedIs DEF Unpin
  <2>2. U' = U /\ D' = D
    BY <2>1, DroppersAre DEF U, D, Uses
  <2>3. PICK x \in Bufs : x = use[p][2].buf /\ blockno[x] = lh[tail] /\ blockno[x] # NoBlock
    <3>1. p = committer /\ Len(use[p]) = 2 /\ pc[p] = "unpin"
      BY <1>8 DEF Unpin, BcacheInv, Places, PlaceOf, CommitterAt, UserAt
    <3>2. QED
      BY <3>1, BothInUse, SizesAssumption
  <2>4. y # x => blockno[y] # blockno[x]
    BY <2>3 DEF OneBufferPerBlock
  <2>5. refcnt' = [refcnt EXCEPT ![x] = (@ + Wrap - 1) % Wrap]
    BY <1>8, <2>3 DEF Unpin, Dropped
  <2>6. CASE y = x
    <3>1. Total(y)' = Total(y) + (-1)
      BY <1>2, <1>3, <2>1, <2>2, <2>3, <2>6
    <3>2. QED
      BY <2>5, <2>6, <3>1, ExactAt
  <2>7. CASE y # x
    <3>1. Total(y)' = Total(y) + 0
      BY <1>2, <1>3, <2>1, <2>2, <2>3, <2>4, <2>7
    <3>2. QED
      BY <2>5, <2>7, <3>1, ExactAt
  <2>8. QED
    BY <2>6, <2>7
<1>9. CASE Lock(p) \/ Fill(p) \/ Modify(p) \/ Install(p) \/ BeginOp(p) \/ EndOp(p) \/ WriteLog(p)
           \/ NextPhase(p)
  <2>1. UNCHANGED <<blockno, refcnt, use, drop>>
    BY <1>9 DEF Lock, Fill, Modify, Install, BeginOp, EndOp, WriteLog, NextPhase, buf, proc
  <2>2. Pinned' = Pinned
    BY <1>9, PinnedIs DEF LogKept
  <2>3. U' = U /\ D' = D
    BY <2>1, DroppersAre DEF U, D, Uses
  <2>4. Total(y)' = Total(y) + 0
    BY <1>2, <1>3, <2>1, <2>2, <2>3
  <2>5. QED
    BY <2>1, <2>4, ExactAt
<1>10. QED
  BY <1>1, <1>4, <1>5, <1>6, <1>7, <1>8, <1>9 DEF Rest, LogSteps

-----------------------------------------------------------------------------
(* The contents of the blocks. *)

LEMMA BlockIs ==
  ASSUME OneBufferPerBlock, OneBufferPerBlock', NEW b \in Stored
  PROVE  /\ \A x \in Bufs : blockno[x] = b /\ valid[x] =>
              Block(b) = [val |-> data[x], holder |-> owner[x]]
         /\ (\A x \in Bufs : ~(blockno[x] = b /\ valid[x])) =>
              Block(b) = [val |-> disk[b], holder |-> NoProc]
         /\ \A x \in Bufs : blockno'[x] = b /\ valid'[x] =>
              Block(b)' = [val |-> data'[x], holder |-> owner'[x]]
         /\ (\A x \in Bufs : ~(blockno'[x] = b /\ valid'[x])) =>
              Block(b)' = [val |-> disk'[b], holder |-> NoProc]
<1>1. b # NoBlock
  BY SizesAssumption DEF Stored
<1>2. ASSUME NEW x \in Bufs, blockno[x] = b, valid[x]
      PROVE  Block(b) = [val |-> data[x], holder |-> owner[x]]
  <2>1. \A y \in Bufs : blockno[y] = b /\ valid[y] <=> y = x
    BY <1>1, <1>2 DEF OneBufferPerBlock
  <2>2. x = CHOOSE y \in Bufs : blockno[y] = b /\ valid[y]
    BY <2>1
  <2>3. QED
    BY <1>2, <2>2 DEF Block
<1>3. (\A x \in Bufs : ~(blockno[x] = b /\ valid[x])) =>
         Block(b) = [val |-> disk[b], holder |-> NoProc]
  BY DEF Block
<1>4. ASSUME NEW x \in Bufs, blockno'[x] = b, valid'[x]
      PROVE  Block(b)' = [val |-> data'[x], holder |-> owner'[x]]
  <2>1. \A y \in Bufs : blockno'[y] = b /\ valid'[y] <=> y = x
    BY <1>1, <1>4 DEF OneBufferPerBlock
  <2>2. x = CHOOSE y \in Bufs : blockno'[y] = b /\ valid'[y]
    BY <2>1
  <2>3. QED
    BY <1>4, <2>2 DEF Block
<1>5. (\A x \in Bufs : ~(blockno'[x] = b /\ valid'[x])) =>
         Block(b)' = [val |-> disk'[b], holder |-> NoProc]
  BY DEF Block
<1>6. QED
  BY <1>2, <1>3, <1>4, <1>5

\* Only the process itself moves.
LEMMA OthersStay ==
  ASSUME BcacheInv, NEW p \in Procs, LogKept(p) \/ LogSteps(p)
  PROVE  /\ \A q \in Procs : q # p => pc'[q] = pc[q] /\ use'[q] = use[q]
         /\ pc[p] = "dirty" => LogWrite(p)
         /\ pc'[p] = "unpin" => Install(p)
         /\ pc[p] = "unpin" => Unpin(p)
<1> TypeOK
  BY DEF BcacheInv
<1>1. CASE Gets(p)
  <2>1. PICK b \in Stored, x \in Bufs : Wants(p, b) /\ Asks(p, b, x)
    BY <1>1, BgetGets DEF Got
  <2>2. QED
    BY <2>1, AskedOneMore DEF Wants
<1>2. CASE \E i \in Asked(p) : Lets(p, i)
  BY <1>2, AskedOneLess DEF Lets
<1>3. CASE Lock(p) \/ Fill(p) \/ Deref(p) \/ Modify(p) \/ Install(p)
  BY <1>3 DEF Lock, Fill, Deref, Modify, Install, Goto, TypeOK
<1>4. CASE LogWrite(p) \/ WriteLog(p) \/ Unpin(p)
  BY <1>4 DEF LogWrite, WriteLog, Unpin, Goto, TypeOK
<1>5. CASE BeginOp(p) \/ EndOp(p) \/ NextPhase(p)
  BY <1>5 DEF BeginOp, EndOp, NextPhase, proc
<1>6. QED
  BY <1>1, <1>2, <1>3, <1>4, <1>5 DEF LogKept, LogSteps

\* A block that somebody holds is in his buffer.
LEMMA HeldBlock ==
  ASSUME BcacheInv, NEW p \in Procs, NEW i \in Asked(p), Held(p, i)
  PROVE  /\ use[p][i].buf \in Bufs /\ use[p][i].block \in Stored
         /\ blockno[use[p][i].buf] = use[p][i].block
         /\ valid[use[p][i].buf] /\ owner[use[p][i].buf] = p
BY Facts DEF BcacheInv, Named, Holding

\* Recycling a buffer changes no block.
LEMMA GetsKeepBlocks ==
  ASSUME BcacheInv, OneBufferPerBlock', NEW p \in Procs, Gets(p)
  PROVE  \A b \in Stored : Block(b)' = Block(b)
<1> TypeOK /\ Clean /\ OneBufferPerBlock
  BY DEF BcacheInv
<1>1. PICK c \in Stored, x \in Bufs : Got(p, c, x)
  BY BgetGets
<1>2. UNCHANGED <<data, owner, disk>>
  BY <1>1 DEF Got
<1>3. CASE UNCHANGED <<blockno, valid>>
  BY <1>2, <1>3 DEF Block
<1>4. CASE /\ Cached(c) = {} /\ refcnt[x] = 0
           /\ blockno' = [blockno EXCEPT ![x] = c]
           /\ valid' = [valid EXCEPT ![x] = FALSE]
  <2>1. owner[x] = NoProc /\ (valid[x] /\ blockno[x] # NoBlock => data[x] = disk[blockno[x]])
    BY <1>4, UnusedIsFree, DirtyIs DEF Clean, Dirty
  <2>2. /\ ~valid'[x]
        /\ \A y \in Bufs : y # x => blockno'[y] = blockno[y] /\ valid'[y] = valid[y]
    BY <1>4 DEF TypeOK
  <2> SUFFICES ASSUME NEW b \in Stored PROVE Block(b)' = Block(b)
    OBVIOUS
  <2>3. CASE blockno[x] = b /\ valid[x]
    <3>1. Block(b) = [val |-> disk[b], holder |-> NoProc]
      BY <2>1, <2>3, BlockIs, SizesAssumption DEF Stored
    <3>2. \A y \in Bufs : ~(blockno'[y] = b /\ valid'[y])
      BY <2>2, <2>3, SizesAssumption DEF OneBufferPerBlock, Stored
    <3>3. QED
      BY <1>2, <3>1, <3>2, BlockIs
  <2>4. CASE ~(blockno[x] = b /\ valid[x])
    <3>1. CASE \E y \in Bufs : blockno[y] = b /\ valid[y]
      <4>1. PICK y \in Bufs : blockno[y] = b /\ valid[y]
        BY <3>1
      <4>2. blockno'[y] = b /\ valid'[y]
        BY <2>2, <2>4, <4>1
      <4>3. QED
        BY <1>2, <4>1, <4>2, BlockIs
    <3>2. CASE ~\E y \in Bufs : blockno[y] = b /\ valid[y]
      <4>1. \A y \in Bufs : ~(blockno'[y] = b /\ valid'[y])
        BY <2>2, <3>2
      <4>2. QED
        BY <1>2, <3>2, <4>1, BlockIs
    <3>3. QED
      BY <3>1, <3>2
  <2>5. QED
    BY <2>3, <2>4
<1>5. QED
  BY <1>1, <1>3, <1>4 DEF Got

LEMMA PlainSteps ==
  ASSUME NEW p \in Procs,
         Deref(p) \/ LogWrite(p) \/ BeginOp(p) \/ EndOp(p) \/ Unpin(p) \/ NextPhase(p)
  PROVE  /\ UNCHANGED <<blockno, valid, data, owner, disk>>
         /\ \A b \in Stored : Block(b)' = Block(b)
<1>1. UNCHANGED <<blockno, valid, data, owner, disk>>
  BY DEF Deref, LogWrite, BeginOp, EndOp, Unpin, NextPhase, buf
<1>2. QED
  BY <1>1 DEF Block

\* acquiresleep(), the read of a block that is not cached yet, and releasesleep()
\* change who holds one block.
LEMMA HolderSteps ==
  ASSUME BcacheInv, OneBufferPerBlock', NEW p \in Procs,
         Lock(p) \/ Fill(p) \/ \E i \in Asked(p) : Lets(p, i)
  PROVE  \/ \A b \in Stored : Block(b)' = Block(b)
         \/ \E c \in Stored, h \in {p, NoProc} :
              /\ h = p <=> Block(c).holder = NoProc
              /\ \A b \in Stored :
                   Block(b)' = [val |-> Block(b).val,
                                holder |-> IF b = c THEN h ELSE Block(b).holder]
<1> TypeOK /\ Named /\ Places /\ OneBufferPerBlock
  BY DEF BcacheInv
<1>1. CASE Lock(p) \/ Fill(p)
  <2>1. Len(use[p]) \in Asked(p)
    BY <1>1, Facts DEF Lock, Fill, Places, PlaceOf, Asked
  <2>2. PICK x \in Bufs, c \in Stored : x = Top(p).buf /\ c = blockno[x]
    BY <2>1, Facts DEF Named, Top
  <2>3. CASE Lock(p)
    <3>1. /\ UNCHANGED <<blockno, valid, data, disk>>
          /\ \A y \in Bufs : owner'[y] = IF y = x THEN p ELSE owner[y]
          /\ owner[x] = NoProc
      BY <2>2, <2>3 DEF Lock, TypeOK
    <3>2. CASE valid[x]
      <4>1. Block(c) = [val |-> data[x], holder |-> NoProc]
        BY <2>2, <3>1, <3>2, BlockIs
      <4>2. ASSUME NEW b \in Stored
            PROVE  Block(b)' = [val |-> Block(b).val,
                                holder |-> IF b = c THEN p ELSE Block(b).holder]
        <5>1. CASE b = c
          BY <2>2, <3>1, <3>2, <4>1, <5>1, BlockIs
        <5>2. CASE b # c /\ \E y \in Bufs : blockno[y] = b /\ valid[y]
          <6>1. PICK y \in Bufs : blockno[y] = b /\ valid[y]
            BY <5>2
          <6>2. y # x
            BY <2>2, <5>2, <6>1
          <6>3. QED
            BY <3>1, <5>2, <6>1, <6>2, BlockIs
        <5>3. CASE b # c /\ ~\E y \in Bufs : blockno[y] = b /\ valid[y]
          BY <3>1, <5>3, BlockIs
        <5>4. QED
          BY <5>1, <5>2, <5>3
      <4>3. QED
        BY <4>1, <4>2
    <3>3. CASE ~valid[x]
      <4>1. ASSUME NEW b \in Stored PROVE Block(b)' = Block(b)
        <5>1. CASE \E y \in Bufs : blockno[y] = b /\ valid[y]
          <6>1. PICK y \in Bufs : blockno[y] = b /\ valid[y]
            BY <5>1
          <6>2. QED
            BY <3>1, <3>3, <6>1, BlockIs
        <5>2. CASE ~\E y \in Bufs : blockno[y] = b /\ valid[y]
          BY <3>1, <5>2, BlockIs
        <5>3. QED
          BY <5>1, <5>2
      <4>2. QED
        BY <4>1
    <3>4. QED
      BY <3>2, <3>3
  <2>4. CASE Fill(p)
    <3>1. /\ UNCHANGED <<blockno, owner, disk>>
          /\ \A y \in Bufs : y # x => data'[y] = data[y] /\ valid'[y] = valid[y]
          /\ data'[x] = disk[c] /\ valid'[x] /\ ~valid[x] /\ owner[x] = p
      BY <2>2, <2>4 DEF Fill, TypeOK, Named
    <3>2. \A y \in Bufs : ~(blockno[y] = c /\ valid[y])
      BY <2>2, <3>1, SizesAssumption DEF OneBufferPerBlock, Stored
    <3>3. Block(c) = [val |-> disk[c], holder |-> NoProc]
      BY <3>2, BlockIs
    <3>4. ASSUME NEW b \in Stored
          PROVE  Block(b)' = [val |-> Block(b).val,
                              holder |-> IF b = c THEN p ELSE Block(b).holder]
      <4>1. CASE b = c
        BY <2>2, <3>1, <3>3, <4>1, BlockIs
      <4>2. CASE b # c /\ \E y \in Bufs : blockno[y] = b /\ valid[y]
        <5>1. PICK y \in Bufs : blockno[y] = b /\ valid[y]
          BY <4>2
        <5>2. y # x
          BY <2>2, <4>2, <5>1
        <5>3. QED
          BY <3>1, <4>2, <5>1, <5>2, BlockIs
      <4>3. CASE b # c /\ ~\E y \in Bufs : blockno[y] = b /\ valid[y]
        <5>1. \A y \in Bufs : ~(blockno'[y] = b /\ valid'[y])
          BY <2>2, <3>1, <4>3
        <5>2. QED
          BY <3>1, <4>3, <5>1, BlockIs
      <4>4. QED
        BY <4>1, <4>2, <4>3
    <3>5. QED
      BY <3>3, <3>4
  <2>5. QED
    BY <1>1, <2>3, <2>4
<1>2. CASE \E i \in Asked(p) : Lets(p, i)
  <2>1. PICK i \in Asked(p) : Lets(p, i)
    BY <1>2
  <2>2. PICK x \in Bufs, c \in Stored : /\ x = use[p][i].buf /\ c = blockno[x]
                                        /\ valid[x] /\ owner[x] = p
    BY <2>1, LetsHeld, HeldBlock
  <2>3. /\ UNCHANGED <<blockno, valid, data, disk>>
        /\ \A y \in Bufs : owner'[y] = IF y = x THEN NoProc ELSE owner[y]
    BY <2>1, <2>2 DEF Lets, Unlock, TypeOK
  <2>4. Block(c) = [val |-> data[x], holder |-> p]
    BY <2>2, BlockIs
  <2>5. ASSUME NEW b \in Stored
        PROVE  Block(b)' = [val |-> Block(b).val,
                            holder |-> IF b = c THEN NoProc ELSE Block(b).holder]
    <3>1. CASE b = c
      BY <2>2, <2>3, <2>4, <3>1, BlockIs
    <3>2. CASE b # c /\ \E y \in Bufs : blockno[y] = b /\ valid[y]
      <4>1. PICK y \in Bufs : blockno[y] = b /\ valid[y]
        BY <3>2
      <4>2. y # x
        BY <2>2, <3>2, <4>1
      <4>3. QED
        BY <2>3, <3>2, <4>1, <4>2, BlockIs
    <3>3. CASE b # c /\ ~\E y \in Bufs : blockno[y] = b /\ valid[y]
      BY <2>3, <3>3, BlockIs
    <3>4. QED
      BY <3>1, <3>2, <3>3
  <2>6. NoProc # p
    BY SizesAssumption
  <2>7. QED
    BY <2>4, <2>5, <2>6
<1>3. QED
  BY <1>1, <1>2

\* Only an operation changes what a block contains, and only one that it holds.
LEMMA ModifySteps ==
  ASSUME BcacheInv, OneBufferPerBlock', NEW p \in Procs, Modify(p)
  PROVE  /\ p \in ops /\ UNCHANGED <<blockno, valid, owner, disk>>
         /\ \E c \in Blocks, v \in Vals :
              /\ Block(c).holder = p
              /\ \A b \in Stored :
                   Block(b)' = [val |-> IF b = c THEN v ELSE Block(b).val,
                                holder |-> Block(b).holder]
<1> TypeOK /\ Named /\ Places /\ Phases /\ OneBufferPerBlock
  BY DEF BcacheInv
<1>1. p \in ops /\ p # committer /\ Len(use[p]) = 1 /\ use[p][1].block \in Blocks
  <2>1. p \in ops /\ use[p] # <<>> /\ committer = NoProc
    BY DEF Modify, Phases
  <2>2. p # committer
    BY <2>1, SizesAssumption
  <2>3. UserAt(p) /\ Len(use[p]) = 1
    BY <2>1, <2>2, Facts DEF Places, PlaceOf, UserAt
  <2>4. QED
    BY <2>1, <2>2, <2>3 DEF UserAt, Asked
<1>2. 1 \in Asked(p) /\ Held(p, 1) /\ Top(p) = use[p][1]
  BY <1>1 DEF Asked, Held, Top, Modify
<1>3. PICK x \in Bufs, c \in Blocks : /\ x = Top(p).buf /\ blockno[x] = c
                                      /\ valid[x] /\ owner[x] = p /\ c \in Stored
  BY <1>1, <1>2, HeldBlock DEF Stored
<1>4. PICK v \in Vals : data' = [data EXCEPT ![x] = v]
  BY <1>3 DEF Modify
<1>5. UNCHANGED <<blockno, valid, owner, disk>>
  BY DEF Modify
<1>6. Block(c) = [val |-> data[x], holder |-> p]
  BY <1>3, BlockIs
<1>7. ASSUME NEW b \in Stored
      PROVE  Block(b)' = [val |-> IF b = c THEN v ELSE Block(b).val,
                          holder |-> Block(b).holder]
  <2>1. CASE b = c
    <3>1. data'[x] = v
      BY <1>4 DEF TypeOK
    <3>2. QED
      BY <1>3, <1>5, <1>6, <2>1, <3>1, BlockIs
  <2>2. CASE b # c /\ \E y \in Bufs : blockno[y] = b /\ valid[y]
    <3>1. PICK y \in Bufs : blockno[y] = b /\ valid[y]
      BY <2>2
    <3>2. y # x /\ data'[y] = data[y]
      BY <1>3, <1>4, <2>2, <3>1 DEF TypeOK
    <3>3. QED
      BY <1>5, <2>2, <3>1, <3>2, BlockIs
  <2>3. CASE b # c /\ ~\E y \in Bufs : blockno[y] = b /\ valid[y]
    BY <1>5, <2>3, BlockIs
  <2>4. QED
    BY <2>1, <2>2, <2>3
<1>8. QED
  BY <1>1, <1>5, <1>6, <1>7

\* What the committer copies: both buffers are its own, and valid.
LEMMA CopiesOwn ==
  ASSUME BcacheInv, NEW p \in Procs, WriteLog(p) \/ Install(p)
  PROVE  LET x == use[p][1].buf
             y == use[p][2].buf
         IN  /\ x \in Bufs /\ y \in Bufs /\ x # y
             /\ tail \in 1..Len(lh) /\ tail \in LogBlocks /\ lh[tail] \in Blocks
             /\ use[p][2].block = lh[tail]
             /\ blockno[x] = tail /\ valid[x] /\ owner[x] = p
             /\ blockno[y] = lh[tail] /\ valid[y] /\ owner[y] = p
             /\ p = committer /\ pc[p] = "ready" /\ UNCHANGED <<blockno, valid, owner, use>>
<1>1. p = committer /\ Len(use[p]) = 2 /\ pc[p] = "ready"
  BY DEF WriteLog, Install
<1>2. 1 \in Asked(p) /\ 2 \in Asked(p) /\ Held(p, 1) /\ Held(p, 2)
  BY <1>1 DEF Asked, Held
<1>3. UNCHANGED <<blockno, valid, owner, use>>
  BY DEF WriteLog, Install
<1>4. QED
  BY <1>1, <1>2, <1>3, BothInUse, HeldBlock

LEMMA WriteLogSteps ==
  ASSUME BcacheInv, OneBufferPerBlock', NEW p \in Procs, WriteLog(p)
  PROVE  /\ tail \in 1..Len(lh) /\ tail \in LogBlocks /\ lh[tail] \in Blocks
         /\ \A b \in Stored :
              Block(b)' = [val |-> IF b = tail THEN Val(lh[tail]) ELSE Block(b).val,
                           holder |-> Block(b).holder]
         /\ \E x \in Bufs : /\ blockno[x] = tail /\ data'[x] = disk'[tail]
                            /\ \A y \in Bufs : y # x => data'[y] = data[y]
         /\ \A b \in Stored : b # tail => disk'[b] = disk[b]
<1> TypeOK /\ OneBufferPerBlock
  BY DEF BcacheInv
<1>1. PICK x \in Bufs, y \in Bufs :
        /\ x = use[p][1].buf /\ y = use[p][2].buf /\ x # y
        /\ blockno[x] = tail /\ valid[x] /\ owner[x] = p
        /\ blockno[y] = lh[tail] /\ valid[y] /\ owner[y] = p
  BY CopiesOwn
<1>2. tail \in 1..Len(lh) /\ tail \in LogBlocks /\ lh[tail] \in Blocks
  BY CopiesOwn
<1>3. UNCHANGED <<blockno, valid, owner>>
  BY CopiesOwn
<1>4. data' = [data EXCEPT ![x] = data[y]] /\ disk' = [disk EXCEPT ![blockno[x]] = data'[x]]
  BY <1>1 DEF WriteLog, Copy
<1>5. /\ \A z \in Bufs : data'[z] = IF z = x THEN data[y] ELSE data[z]
      /\ \A b \in Stored : disk'[b] = IF b = tail THEN data[y] ELSE disk[b]
  BY <1>1, <1>2, <1>4 DEF TypeOK, Stored
<1>6. tail \in Stored /\ lh[tail] \in Stored
  BY <1>2 DEF Stored
<1>7. Val(lh[tail]) = data[y] /\ Block(tail) = [val |-> data[x], holder |-> p]
  BY <1>1, <1>6, BlockIs DEF Val
<1>8. ASSUME NEW b \in Stored
      PROVE  Block(b)' = [val |-> IF b = tail THEN Val(lh[tail]) ELSE Block(b).val,
                          holder |-> Block(b).holder]
  <2>1. CASE b = tail
    BY <1>1, <1>3, <1>5, <1>7, <2>1, BlockIs
  <2>2. CASE b # tail /\ \E z \in Bufs : blockno[z] = b /\ valid[z]
    <3>1. PICK z \in Bufs : blockno[z] = b /\ valid[z]
      BY <2>2
    <3>2. z # x
      BY <1>1, <2>2, <3>1
    <3>3. QED
      BY <1>3, <1>5, <2>2, <3>1, <3>2, BlockIs
  <2>3. CASE b # tail /\ ~\E z \in Bufs : blockno[z] = b /\ valid[z]
    BY <1>3, <1>5, <2>3, BlockIs
  <2>4. QED
    BY <2>1, <2>2, <2>3
<1>9. QED
  BY <1>1, <1>2, <1>5, <1>6, <1>8

\* Installing a block writes to the disk what the cache has, and nothing else.
LEMMA InstallSteps ==
  ASSUME BcacheInv, OneBufferPerBlock', NEW p \in Procs, Install(p)
  PROVE  /\ \A b \in Stored : Block(b)' = Block(b)
         /\ UNCHANGED <<blockno, valid, data>>
         /\ \A b \in Stored : b # lh[tail] => disk'[b] = disk[b]
         /\ data[use[p][2].buf] = disk'[use[p][2].block]
         /\ \A y \in Bufs : blockno[y] = lh[tail] => data[y] = disk'[lh[tail]]
<1> TypeOK /\ OneBufferPerBlock /\ Phases /\ Copied
  BY DEF BcacheInv
<1>1. PICK x \in Bufs, y \in Bufs :
        /\ x = use[p][1].buf /\ y = use[p][2].buf /\ x # y
        /\ blockno[x] = tail /\ valid[x] /\ owner[x] = p
        /\ blockno[y] = lh[tail] /\ valid[y] /\ owner[y] = p
  BY CopiesOwn
<1>2. tail \in 1..Len(lh) /\ tail \in LogBlocks /\ lh[tail] \in Blocks
  BY CopiesOwn
<1>3. UNCHANGED <<blockno, valid, owner>> /\ use[p][2].block = lh[tail]
  BY CopiesOwn
<1>4. data' = [data EXCEPT ![y] = data[x]] /\ disk' = [disk EXCEPT ![blockno[y]] = data'[y]]
  BY <1>1 DEF Install, Copy
<1>5. tail \in Stored /\ lh[tail] \in Stored
  BY <1>2 DEF Stored
<1>6. Val(tail) = data[x] /\ Val(lh[tail]) = data[y]
  BY <1>1, <1>5, BlockIs DEF Val
<1>7. phase = "install"
  <2>1. lh # <<>>
    BY <1>2
  <2>2. p = committer /\ phase # "copy"
    BY DEF Install
  <2>3. QED
    BY <2>1, <2>2, SizesAssumption DEF Phases, TypeOK
<1>8. data[x] = data[y]
  BY <1>2, <1>6, <1>7 DEF Copied
<1>9. data' = data /\ \A b \in Stored : disk'[b] = IF b = lh[tail] THEN data[y] ELSE disk[b]
  BY <1>1, <1>2, <1>4, <1>8, ZenonT(30) DEF TypeOK, Stored
<1>10. ASSUME NEW b \in Stored PROVE Block(b)' = Block(b)
  <2>1. CASE \E z \in Bufs : blockno[z] = b /\ valid[z]
    <3>1. PICK z \in Bufs : blockno[z] = b /\ valid[z]
      BY <2>1
    <3>2. QED
      BY <1>3, <1>9, <3>1, BlockIs
  <2>2. CASE ~\E z \in Bufs : blockno[z] = b /\ valid[z]
    <3>1. b # lh[tail]
      BY <1>1, <2>2
    <3>2. QED
      BY <1>3, <1>9, <2>2, <3>1, BlockIs
  <2>3. QED
    BY <2>1, <2>2
<1>11. \A z \in Bufs : blockno[z] = lh[tail] => z = y
  BY <1>1, <1>5, SizesAssumption DEF OneBufferPerBlock, Stored
<1>12. QED
  BY <1>1, <1>3, <1>5, <1>9, <1>10, <1>11

LEMMA CopiedKept ==
  ASSUME BcacheInv, Next
  PROVE  Copied'
<1> TypeOK /\ Phases /\ Copied /\ OneBufferPerBlock' /\ Len(lh) \in Nat
  BY OneBufferKept, Facts DEF BcacheInv
<1> tail \in Nat /\ LOGSIZE \in Nat /\ Len(lh) <= LOGSIZE
  BY SizesAssumption DEF TypeOK
<1>1. PICK p \in Procs : LogKept(p) \/ LogSteps(p)
  BY StepsAre
<1>2. \A i \in 1..Len(lh) : i \in Stored /\ lh[i] \in Stored /\ lh[i] \in Blocks /\ i \notin Blocks
  <2>1. \A i \in 1..Len(lh) : i \in LogBlocks /\ lh[i] \in Blocks
    BY Facts DEF LogBlocks
  <2>2. QED
    BY <2>1, SizesAssumption DEF Stored
<1>3. CASE UNCHANGED <<lh, phase, tail>> /\ \A b \in Stored : Val(b)' = Val(b)
  BY <1>2, <1>3 DEF Copied
<1>4. CASE Gets(p) \/ Lock(p) \/ Fill(p) \/ (\E i \in Asked(p) : Lets(p, i)) \/ Deref(p)
           \/ Install(p)
  <2>1. \A b \in Stored : Val(b)' = Val(b)
    <3>1. CASE Lock(p) \/ Fill(p) \/ (\E i \in Asked(p) : Lets(p, i))
      BY <3>1, HolderSteps DEF Val
    <3>2. CASE Gets(p) \/ Deref(p) \/ Install(p)
      BY <3>2, GetsKeepBlocks, PlainSteps, InstallSteps DEF Val
    <3>3. QED
      BY <1>4, <3>1, <3>2
  <2>2. QED
    BY <1>3, <1>4, <2>1, LogIsKept DEF LogKept
<1>5. CASE Modify(p) \/ LogWrite(p) \/ BeginOp(p)
  <2>1. phase' = "idle"
    BY <1>5, DirtyIs, SizesAssumption DEF Modify, LogWrite, BeginOp, Phases, log
  <2>2. QED
    BY <2>1 DEF Copied
<1>6. CASE EndOp(p)
  <2>1. phase' = "idle" \/ (phase' = "copy" /\ tail' = 1)
    BY <1>6 DEF EndOp, Phases
  <2>2. \A i \in 1..Len(lh') : ~(i < 1)
    OBVIOUS
  <2>3. QED
    BY <2>1, <2>2 DEF Copied
<1>7. CASE WriteLog(p)
  <2>1. phase = "copy" /\ phase' = "copy" /\ lh' = lh /\ tail' = tail + 1
    BY <1>7 DEF WriteLog
  <2>2. ASSUME NEW i \in 1..Len(lh), i < tail + 1 PROVE Val(i)' = Val(lh[i])'
    <3>1. lh[i] # tail /\ Val(lh[i])' = Val(lh[i])
      <4>1. tail \in 1..Len(lh)
        BY <1>7, WriteLogSteps
      <4>2. lh[i] # tail
        BY <1>2, <4>1
      <4>3. PICK b \in Stored : b = lh[i] /\ b = lh'[i] /\ b # tail
        BY <1>2, <2>1, <4>2
      <4>4. Val(b)' = Val(b)
        BY <1>7, <4>3, WriteLogSteps DEF Val
      <4>5. QED
        BY <4>2, <4>3, <4>4
    <3>2. CASE i = tail
      BY <1>2, <1>7, <3>1, <3>2, WriteLogSteps DEF Val
    <3>3. CASE i # tail
      <4>1. i < tail
        BY <2>2, <3>3
      <4>2. Val(i)' = Val(i)
        BY <1>2, <1>7, <3>3, WriteLogSteps DEF Val
      <4>3. QED
        BY <2>1, <3>1, <4>1, <4>2 DEF Copied
    <3>4. QED
      BY <3>2, <3>3
  <2>3. QED
    BY <2>1, <2>2 DEF Copied
<1>8. CASE Unpin(p)
  <2>1. phase = "install" /\ phase' = "install" /\ lh' = lh
    BY <1>8 DEF Unpin, BcacheInv, Places, PlaceOf, CommitterAt, UserAt
  <2>2. \A b \in Stored : Val(b)' = Val(b)
    BY <1>8, PlainSteps DEF Val
  <2>3. QED
    BY <1>2, <2>1, <2>2 DEF Copied
<1>9. CASE NextPhase(p)
  <2>1. \A b \in Stored : Val(b)' = Val(b)
    BY <1>9, PlainSteps DEF Val
  <2>2. CASE phase = "copy"
    <3>1. phase' = "install" /\ lh' = lh /\ \A i \in 1..Len(lh) : i < tail
      BY <1>9, <2>2 DEF NextPhase
    <3>2. QED
      BY <1>2, <2>1, <2>2, <3>1 DEF Copied
  <2>3. CASE phase # "copy"
    BY <1>9, <2>3 DEF NextPhase, Copied
  <2>4. QED
    BY <2>2, <2>3
<1>10. QED
  BY <1>1, <1>4, <1>5, <1>6, <1>7, <1>8, <1>9 DEF LogKept, LogSteps

LEMMA CleanKept ==
  ASSUME BcacheInv, Next
  PROVE  Clean'
<1> TypeOK /\ OneBufferPerBlock /\ OneBufferPerBlock' /\ Clean /\ Places /\ Phases /\ Named
  BY OneBufferKept DEF BcacheInv
<1>1. PICK p \in Procs : LogKept(p) \/ LogSteps(p)
  BY StepsAre
<1>2. /\ \A q \in Procs : q # p => pc'[q] = pc[q] /\ use'[q] = use[q]
      /\ pc[p] = "dirty" => LogWrite(p)
      /\ pc'[p] = "unpin" => Install(p)
      /\ pc[p] = "unpin" => Unpin(p)
  BY <1>1, OthersStay
<1>3. ~LogWrite(p) => \A x \in Bufs : Dirty(x) => Dirty(x)'
  BY <1>2 DEF Dirty, Top
<1>4. \A q \in Procs : pc[q] = "unpin" => /\ q = committer /\ Len(use[q]) = 2 /\ 2 \in Asked(q)
                                          /\ Held(q, 2) /\ use[q][2].buf \in Bufs
                                          /\ use[q][2].block \in Blocks
                                          /\ blockno[use[q][2].buf] = use[q][2].block
                                          /\ owner[use[q][2].buf] = q
  <2> SUFFICES ASSUME NEW q \in Procs, pc[q] = "unpin"
               PROVE  /\ q = committer /\ Len(use[q]) = 2 /\ 2 \in Asked(q)
                      /\ Held(q, 2) /\ use[q][2].buf \in Bufs
                      /\ use[q][2].block \in Blocks
                      /\ blockno[use[q][2].buf] = use[q][2].block
                      /\ owner[use[q][2].buf] = q
    OBVIOUS
  <2>1. q = committer /\ Len(use[q]) = 2 /\ use[q][2].block \in Blocks
    BY DEF Places, PlaceOf, CommitterAt, UserAt
  <2>2. 2 \in Asked(q) /\ Held(q, 2)
    BY <2>1 DEF Asked, Held
  <2>3. QED
    BY <2>1, <2>2, HeldBlock
\* Nothing but the list of references, or who holds what.
<1>5. CASE (\E i \in Asked(p) : Lets(p, i)) \/ Lock(p) \/ Deref(p) \/ BeginOp(p) \/ EndOp(p)
           \/ NextPhase(p)
  <2>1. UNCHANGED <<blockno, valid, data, disk>>
    <3>1. CASE (\E i \in Asked(p) : Lets(p, i)) \/ Lock(p)
      BY <3>1 DEF Lets, Unlock, Lock
    <3>2. CASE Deref(p) \/ BeginOp(p) \/ EndOp(p) \/ NextPhase(p)
      BY <3>2, PlainSteps
    <3>3. QED
      BY <1>5, <3>1, <3>2
  <2>2. Pinned' = Pinned
    BY <1>5, PinnedIs DEF LogKept
  <2>3. pc[p] # "dirty" /\ pc'[p] # "unpin"
    <3>1. CASE (\E i \in Asked(p) : Lets(p, i)) \/ Lock(p) \/ Deref(p)
      BY <3>1 DEF Lets, Unlock, Lock, Deref, Goto, TypeOK
    <3>2. CASE BeginOp(p) \/ EndOp(p) \/ NextPhase(p)
      BY <3>2 DEF BeginOp, EndOp, NextPhase, proc
    <3>3. QED
      BY <1>5, <3>1, <3>2
  <2>4. \A x \in Bufs : Dirty(x) => Dirty(x)'
    BY <1>2, <2>3 DEF Dirty, Top
  <2>5. \A q \in Procs : pc'[q] = "unpin" => pc[q] = "unpin" /\ use'[q] = use[q]
    BY <1>2, <2>3
  <2>6. QED
    BY <2>1, <2>2, <2>4, <2>5 DEF Clean
<1>6. CASE Gets(p)
  <2>1. PICK b \in Stored, x \in Bufs : Wants(p, b) /\ Got(p, b, x)
    BY <1>6, BgetGets
  <2>2. pc[p] = "ready" /\ pc'[p] = "lock" /\ UNCHANGED <<data, disk>> /\ Pinned' = Pinned
    BY <1>6, <2>1, PinnedIs, AskedOneMore DEF Wants, Got, LogKept
  <2>3. \A y \in Bufs : Dirty(y) => Dirty(y)'
    BY <1>2, <2>2 DEF Dirty, Top
  <2>4. \A y \in Bufs : \/ blockno'[y] = blockno[y] /\ valid'[y] = valid[y]
                        \/ ~valid'[y]
    BY <2>1 DEF Got, TypeOK
  <2>5. \A q \in Procs : pc'[q] = "unpin" => pc[q] = "unpin" /\ use'[q] = use[q]
    BY <1>2, <2>2
  <2>6. QED
    BY <2>2, <2>3, <2>4, <2>5 DEF Clean
<1>7. CASE Fill(p)
  <2>1. Len(use[p]) \in Asked(p)
    BY <1>7, Facts DEF Fill, Places, PlaceOf, Asked
  <2>2. PICK x \in Bufs : x = Top(p).buf /\ blockno[x] \in Stored /\ owner[x] = p
    BY <1>7, <2>1, Facts DEF Fill, Named, Top
  <2>3. /\ UNCHANGED <<blockno, disk>> /\ data'[x] = disk[blockno[x]]
        /\ \A y \in Bufs : y # x => data'[y] = data[y] /\ valid'[y] = valid[y]
    BY <1>7, <2>2 DEF Fill, TypeOK
  <2>4. Pinned' = Pinned /\ pc[p] = "fill" /\ pc'[p] = "ready"
    BY <1>7, PinnedIs DEF LogKept, Fill, Goto, TypeOK
  <2>5. \A y \in Bufs : Dirty(y) => Dirty(y)'
    BY <1>2, <2>4 DEF Dirty, Top
  <2>6. ASSUME NEW q \in Procs, pc'[q] = "unpin"
        PROVE  data'[use'[q][2].buf] = disk'[use'[q][2].block]
    <3>1. q # p /\ pc[q] = "unpin" /\ use'[q] = use[q]
      BY <1>2, <2>4, <2>6
    <3>2. use[q][2].buf # x /\ use[q][2].buf \in Bufs
      BY <1>4, <2>2, <3>1
    <3>3. QED
      BY <2>3, <3>1, <3>2 DEF Clean
  <2>7. QED
    BY <2>3, <2>4, <2>5, <2>6 DEF Clean
<1>8. CASE Modify(p)
  <2>1. committer = NoProc /\ Len(use[p]) \in Asked(p)
    BY <1>8, Facts DEF Modify, Phases, Asked
  <2>2. PICK x \in Bufs : x = Top(p).buf
    BY <2>1, Facts DEF Top
  <2>3. /\ UNCHANGED <<blockno, valid, disk, use>> /\ pc'[p] = "dirty"
        /\ \A y \in Bufs : y # x => data'[y] = data[y]
    BY <1>8, <2>2 DEF Modify, Goto, TypeOK
  <2>4. Dirty(x)' /\ \A y \in Bufs : Dirty(y) => Dirty(y)'
    BY <1>2, <2>2, <2>3 DEF Dirty, Top
  <2>5. Pinned' = Pinned
    BY <1>8, PinnedIs DEF LogKept
  <2>6. \A q \in Procs : pc'[q] # "unpin"
    BY <1>2, <1>4, <2>1, <2>3, SizesAssumption
  <2>7. QED
    BY <2>3, <2>4, <2>5, <2>6 DEF Clean
<1>9. CASE LogWrite(p)
  <2>1. UNCHANGED <<blockno, valid, data, disk, use>> /\ pc[p] = "dirty" /\ pc'[p] = "ready"
    BY <1>9 DEF LogWrite, Goto, TypeOK
  <2>2. Pinned' = Pinned \cup {blockno[Top(p).buf]}
    BY <1>9, PinnedIs
  <2>3. \A x \in Bufs : Dirty(x) => Dirty(x)' \/ blockno[x] \in Pinned'
    BY <1>2, <2>1, <2>2 DEF Dirty, Top
  <2>4. \A q \in Procs : pc'[q] = "unpin" => pc[q] = "unpin"
    BY <1>2, <2>1
  <2>5. QED
    BY <2>1, <2>2, <2>3, <2>4 DEF Clean
<1>10. CASE WriteLog(p)
  <2>1. PICK x \in Bufs : /\ blockno[x] = tail /\ data'[x] = disk'[tail]
                          /\ \A y \in Bufs : y # x => data'[y] = data[y]
    BY <1>10, WriteLogSteps
  <2>2. /\ \A b \in Stored : b # tail => disk'[b] = disk[b]
        /\ tail \in Stored
    BY <1>10, WriteLogSteps DEF Stored
  <2>3. UNCHANGED <<blockno, valid, use>> /\ pc[p] = "ready" /\ p = committer /\ pc'[p] = "drain"
    BY <1>10 DEF WriteLog, Goto, TypeOK
  <2>4. Pinned' = Pinned
    BY <1>10, PinnedIs
  <2>5. \A y \in Bufs : Dirty(y) => Dirty(y)'
    BY <1>2, <2>3 DEF Dirty, Top
  <2>6. \A q \in Procs : pc'[q] # "unpin"
    BY <1>2, <1>4, <2>3
  <2>7. ASSUME NEW y \in Bufs, valid'[y], blockno'[y] # NoBlock
        PROVE  data'[y] = disk'[blockno'[y]] \/ blockno'[y] \in Pinned' \/ Dirty(y)'
    <3>1. CASE y = x
      BY <2>1, <2>3, <3>1
    <3>2. CASE y # x
      <4>1. blockno[y] # tail
        BY <2>1, <2>2, <3>2, SizesAssumption DEF OneBufferPerBlock, Stored
      <4>2. blockno[y] \in Stored
        BY <2>3, <2>7 DEF TypeOK, Stored
      <4>3. data'[y] = data[y] /\ disk'[blockno[y]] = disk[blockno[y]]
        BY <2>1, <2>2, <3>2, <4>1, <4>2
      <4>4. QED
        BY <2>3, <2>4, <2>5, <2>7, <4>3 DEF Clean
    <3>3. QED
      BY <3>1, <3>2
  <2>8. QED
    BY <2>6, <2>7 DEF Clean

<1>11. CASE Install(p)
  <2>1. /\ UNCHANGED <<blockno, valid, data>>
        /\ \A b \in Stored : b # lh[tail] => disk'[b] = disk[b]
        /\ data[use[p][2].buf] = disk'[use[p][2].block]
        /\ \A y \in Bufs : blockno[y] = lh[tail] => data[y] = disk'[lh[tail]]
    BY <1>11, InstallSteps
  <2>2. use' = use /\ pc[p] = "ready" /\ p = committer
    BY <1>11, CopiesOwn
  <2>3. Pinned' = Pinned
    BY <1>11, PinnedIs DEF LogKept
  <2>4. \A y \in Bufs : Dirty(y) => Dirty(y)'
    BY <1>2, <2>2 DEF Dirty, Top
  <2>5. ASSUME NEW q \in Procs, pc'[q] = "unpin"
        PROVE  data'[use'[q][2].buf] = disk'[use'[q][2].block]
    <3>1. q = p
      BY <1>2, <1>4, <2>2, <2>5
    <3>2. QED
      BY <2>1, <2>2, <3>1
  <2>6. ASSUME NEW y \in Bufs, valid'[y], blockno'[y] # NoBlock
        PROVE  data'[y] = disk'[blockno'[y]] \/ blockno'[y] \in Pinned' \/ Dirty(y)'
    <3>1. CASE blockno[y] = lh[tail]
      BY <2>1, <3>1
    <3>2. CASE blockno[y] # lh[tail]
      <4>1. blockno[y] \in Stored
        BY <2>1, <2>6 DEF TypeOK, Stored
      <4>2. QED
        BY <2>1, <2>3, <2>4, <2>6, <3>2, <4>1 DEF Clean
    <3>3. QED
      BY <3>1, <3>2
  <2>7. QED
    BY <2>5, <2>6 DEF Clean
<1>12. CASE Unpin(p)
  <2>1. UNCHANGED <<blockno, valid, data, disk>> /\ Pinned' = Pinned \ {lh[tail]}
    BY <1>12, PlainSteps, PinnedIs
  <2>2. pc[p] = "unpin" /\ use' = use /\ pc'[p] = "drain"
    BY <1>12 DEF Unpin, Goto, TypeOK
  <2>3. /\ p = committer /\ Len(use[p]) = 2
        /\ use[p][2].block = lh[tail] /\ use[p][2].buf \in Bufs
        /\ blockno[use[p][2].buf] = lh[tail] /\ lh[tail] \in Blocks
    BY <1>4, <2>2, BothInUse
  <2>4. ASSUME NEW y \in Bufs, blockno[y] = lh[tail] PROVE data[y] = disk[blockno[y]]
    <3>1. y = use[p][2].buf
      BY <2>3, <2>4, SizesAssumption DEF OneBufferPerBlock
    <3>2. QED
      BY <2>2, <2>3, <3>1 DEF Clean
  <2>5. \A y \in Bufs : Dirty(y) => Dirty(y)'
    BY <1>2, <2>2 DEF Dirty, Top
  <2>6. \A q \in Procs : pc'[q] = "unpin" => pc[q] = "unpin"
    BY <1>2, <2>2
  <2>7. QED
    BY <2>1, <2>2, <2>4, <2>5, <2>6 DEF Clean
<1>13. QED
  BY <1>1, <1>5, <1>6, <1>7, <1>8, <1>9, <1>10, <1>11, <1>12 DEF LogKept, LogSteps

-----------------------------------------------------------------------------
(* Theorems. *)

LEMMA Initial ==
  ASSUME Committed = <<>>, Init
  PROVE  BcacheInv
<1> NBUF \in Nat /\ Bufs = 1..NBUF /\ LOGSIZE \in Nat /\ NoProc \notin Procs
  BY BufsAre, SizesAssumption
<1>1. /\ \A p \in Procs : pc[p] = "ready" /\ use[p] = <<>> /\ drop[p] = 0
      /\ lh = <<>> /\ ops = {} /\ tail = 1 /\ committer \in Procs /\ phase = "recover"
      /\ \A x \in Bufs : /\ blockno[x] = NoBlock /\ ~valid[x] /\ refcnt[x] = 0
                         /\ owner[x] = NoProc
  BY DEF Init
<1>2. /\ \A p \in Procs : Len(use[p]) = 0 /\ Asked(p) = {}
      /\ Len(lh) = 0
  <2>1. Len(<<>>) = 0 /\ 1..0 = {}
    OBVIOUS
  <2>2. QED
    BY <1>1, <2>1 DEF Asked
<1>3. TypeOK
  <2>1. lru \in [Bufs -> Bufs] /\ \A x \in Bufs : \E i \in Bufs : lru[i] = x
    <3>1. \A i \in Bufs : NBUF + 1 - i \in Bufs /\ NBUF + 1 - (NBUF + 1 - i) = i
      OBVIOUS
    <3>2. \A i \in Bufs : lru[i] = NBUF + 1 - i
      BY DEF Init
    <3>3. lru \in [Bufs -> Bufs]
      BY <3>1 DEF Init
    <3>4. QED
      BY <3>1, <3>2, <3>3
  <2>2. refcnt \in [Bufs -> 0..(Wrap - 1)]
    <3>1. 0 \in 0..(Wrap - 1)
      <4>1. Cardinality(Procs) \in Nat
        BY SizesAssumption, FS_CardinalityType
      <4>2. QED
        BY <4>1, SizesAssumption
    <3>2. QED
      BY <3>1 DEF Init
  <2>3. /\ lh \in Seq(Blocks) /\ Len(lh) <= LOGSIZE /\ tail \in 1..(LOGSIZE + 1)
    BY <1>1, <1>2
  <2>4. /\ blockno \in [Bufs -> Blocks \cup LogBlocks \cup {NoBlock}] /\ valid \in [Bufs -> BOOLEAN]
        /\ data \in [Bufs -> Vals] /\ owner \in [Bufs -> Procs \cup {NoProc}]
        /\ disk \in [Blocks \cup LogBlocks -> Vals]
    BY DEF Init
  <2>5. /\ pc \in [Procs -> {"ready", "lock", "fill", "dirty", "unpin", "drain", "deref"}]
        /\ use \in [Procs -> Seq([block : Blocks \cup LogBlocks, buf : Bufs])]
        /\ drop \in [Procs -> 0..NBUF]
    BY DEF Init
  <2>6. QED
    BY <1>1, <2>1, <2>2, <2>3, <2>4, <2>5 DEF TypeOK
<1>4. OneBufferPerBlock
  BY <1>1 DEF OneBufferPerBlock
<1>5. Pinned = {}
  BY <1>1 DEF Pinned
<1>6. RefcntExact
  <2> SUFFICES ASSUME NEW x \in Bufs
               PROVE  refcnt[x] = Cardinality(Uses(x)) + Cardinality(Droppers(x))
                                  + (IF blockno[x] \in Pinned THEN 1 ELSE 0)
    BY DEF RefcntExact
  <2>1. Uses(x) = {} /\ Droppers(x) = {}
    BY <1>1, <1>2 DEF Uses, Droppers
  <2>2. QED
    BY <1>1, <1>5, <2>1, FS_EmptySet
<1>7. Phases
  BY <1>1, <1>2 DEF Phases
<1>8. Places
  BY <1>1, <1>2 DEF Places, PlaceOf, CommitterAt, UserAt
<1>9. Named /\ Holding
  BY <1>1, <1>2 DEF Named, Holding
<1>10. PinsCached
  BY <1>5 DEF PinsCached
<1>11. Room
  <2>1. Pending = {}
    BY <1>1 DEF Pending
  <2>2. QED
    BY <1>2, <2>1, FS_EmptySet DEF Room
<1>12. Clean /\ Copied
  BY <1>1 DEF Clean, Copied
<1>13. QED
  BY <1>3, <1>4, <1>6, <1>7, <1>8, <1>9, <1>10, <1>11, <1>12 DEF BcacheInv

LEMMA NothingMoves ==
  ASSUME BcacheInv, UNCHANGED vars
  PROVE  BcacheInv'
<1>1. /\ UNCHANGED <<lru, blockno, valid, data, refcnt, owner, disk>>
      /\ UNCHANGED <<lh, ops, committer, phase, tail, pc, use, drop>>
  BY DEF vars, buf, log, proc
<1>2. TypeOK' /\ OneBufferPerBlock'
  BY <1>1 DEF BcacheInv, TypeOK, OneBufferPerBlock
<1>3. Pinned' = Pinned /\ Logged' = Logged
  BY <1>1 DEF Pinned, Logged
<1>4. RefcntExact' /\ PinsCached'
  BY <1>1, <1>3 DEF BcacheInv, RefcntExact, Uses, Droppers, PinsCached
<1>5. Phases' /\ Places'
  BY <1>1 DEF BcacheInv, Phases, Places, PlaceOf, CommitterAt, UserAt, Asked
<1>6. Named' /\ Holding'
  BY <1>1 DEF BcacheInv, Named, Holding, Held, Asked, Top
<1>7. Room'
  BY <1>1, <1>3 DEF BcacheInv, Room, Pending, Top
<1>8. Clean' /\ Copied'
  <2>1. \A b : Block(b)' = Block(b)
    BY <1>1 DEF Block
  <2>2. Copied'
    BY <1>1, <2>1 DEF BcacheInv, Copied, Val
  <2>3. \A x : Dirty(x)' <=> Dirty(x)
    BY <1>1 DEF Dirty, Top
  <2>4. Clean'
    BY <1>1, <1>3, <2>3 DEF BcacheInv, Clean
  <2>5. QED
    BY <2>2, <2>4
<1>9. QED
  BY <1>2, <1>4, <1>5, <1>6, <1>7, <1>8 DEF BcacheInv

LEMMA BcacheInvariance ==
  ASSUME Committed = <<>>
  PROVE  Spec => []BcacheInv
<1>1. Init => BcacheInv
  BY Initial
<1>2. BcacheInv /\ [Next]_vars => BcacheInv'
  <2> SUFFICES ASSUME BcacheInv, [Next]_vars PROVE BcacheInv'
    OBVIOUS
  <2>1. CASE Next
    BY <2>1, TypesKept, OneBufferKept, RefcntKept, PhasesKept, PlacesKept, NamedKept,
       HoldingKept, PinsCachedKept, RoomKept, CleanKept, CopiedKept
       DEF BcacheInv
  <2>2. CASE UNCHANGED vars
    BY <2>2, NothingMoves
  <2>3. QED
    BY <2>1, <2>2
<1>3. QED
  BY <1>1, <1>2, PTL DEF Spec

\* Whatever is read, recycled, modified, committed and installed at once, the cache has
\* at most one buffer for a block, and a buffer's refcnt is the number of processes that
\* use it, wait for it or have still to drop it, plus the log's pin (bio.c:62-94,121-152):
\* it is never recycled under them, and never lost. The log is empty at boot.
THEOREM CacheIsSound ==
  ASSUME Committed = <<>>
  PROVE  Spec => []CacheSound
<1>1. BcacheInv => CacheSound
  BY DEF BcacheInv, CacheSound
<1>2. QED
  BY <1>1, BcacheInvariance, PTL

\* From bread() to brelse() a process has the buffer to itself, and the buffer is the
\* block's and valid, for any number of processes and buffers (bio.c:10-12).
THEOREM HoldersKeepTheirBlocks ==
  ASSUME Committed = <<>>
  PROVE  Spec => []HolderKeepsItsBlock
<1>1. ASSUME BcacheInv PROVE HolderKeepsItsBlock
  <2> SUFFICES ASSUME NEW p \in Procs, NEW i \in 1..2, Held(p, i)
               PROVE  LET h == use[p][i]
                      IN  owner[h.buf] = p /\ blockno[h.buf] = h.block /\ valid[h.buf]
    BY DEF HolderKeepsItsBlock
  <2>1. i \in Asked(p)
    BY Facts DEF Held, Asked
  <2>2. QED
    BY <1>1, <2>1, HeldBlock
<1>2. QED
  BY <1>1, BcacheInvariance, PTL

\* What the store is to the file system.
TheStore == [b \in Blocks |-> Block(b)]

LEMMA BlockTypes ==
  ASSUME BcacheInv, OneBufferPerBlock', NEW b \in Stored
  PROVE  /\ Block(b) \in [val : Vals, holder : Procs \cup {NoProc}]
         /\ Block(b).holder # NoProc => \E x \in Bufs : owner[x] = Block(b).holder
<1> TypeOK /\ OneBufferPerBlock
  BY DEF BcacheInv
<1>1. CASE \E x \in Bufs : blockno[x] = b /\ valid[x]
  <2>1. PICK x \in Bufs : blockno[x] = b /\ valid[x]
    BY <1>1
  <2>2. Block(b) = [val |-> data[x], holder |-> owner[x]]
    BY <2>1, BlockIs
  <2>3. QED
    BY <2>2 DEF TypeOK
<1>2. CASE ~\E x \in Bufs : blockno[x] = b /\ valid[x]
  <2>1. Block(b) = [val |-> disk[b], holder |-> NoProc]
    BY <1>2, BlockIs
  <2>2. QED
    BY <2>1 DEF TypeOK, Stored
<1>3. QED
  BY <1>1, <1>2

LEMMA StepRefines ==
  ASSUME BcacheInv, Next
  PROVE  Store!Next \/ UNCHANGED <<TheStore, ops>>
<1> TypeOK /\ OneBufferPerBlock /\ OneBufferPerBlock' /\ Named
  BY OneBufferKept DEF BcacheInv
<1>1. PICK p \in Procs : LogKept(p) \/ LogSteps(p)
  BY StepsAre
<1>2. \A b \in Blocks : /\ b \in Stored
                        /\ Block(b) = [val |-> Block(b).val, holder |-> Block(b).holder]
                        /\ Block(b).holder # NoProc => \E x \in Bufs : owner[x] = Block(b).holder
  <2> SUFFICES ASSUME NEW b \in Blocks
               PROVE  /\ b \in Stored
                      /\ Block(b) = [val |-> Block(b).val, holder |-> Block(b).holder]
                      /\ Block(b).holder # NoProc => \E x \in Bufs : owner[x] = Block(b).holder
    OBVIOUS
  <2>1. b \in Stored
    BY DEF Stored
  <2>2. Block(b) \in [val : Vals, holder : Procs \cup {NoProc}]
    BY <2>1, BlockTypes
  <2>3. QED
    BY <2>1, <2>2, BlockTypes
<1>3. CASE (\A b \in Blocks : Block(b)' = Block(b)) /\ ops' = ops
  BY <1>3 DEF TheStore
<1>4. CASE Gets(p) \/ Deref(p) \/ LogWrite(p) \/ Unpin(p) \/ NextPhase(p) \/ Install(p)
  <2>1. \A b \in Blocks : Block(b)' = Block(b)
    BY <1>2, <1>4, GetsKeepBlocks, PlainSteps, InstallSteps
  <2>2. ops' = ops
    <3>1. CASE Gets(p) \/ Deref(p) \/ Install(p)
      BY <3>1, LogIsKept DEF LogKept
    <3>2. CASE LogWrite(p) \/ Unpin(p) \/ NextPhase(p)
      BY <3>2 DEF LogWrite, Unpin, NextPhase
    <3>3. QED
      BY <1>4, <3>1, <3>2
  <2>3. QED
    BY <1>3, <2>1, <2>2
<1>5. CASE WriteLog(p)
  <2>1. tail \in LogBlocks /\ ops' = ops
    BY <1>5, WriteLogSteps DEF WriteLog
  <2>2. \A b \in Blocks : b # tail
    BY <2>1, SizesAssumption
  <2>3. \A b \in Blocks : Block(b)' = Block(b)
    BY <1>2, <1>5, <2>2, WriteLogSteps
  <2>4. QED
    BY <1>3, <2>1, <2>3
<1>6. CASE Lock(p) \/ Fill(p) \/ \E i \in Asked(p) : Lets(p, i)
  <2>1. ops' = ops
    BY <1>6, LogIsKept DEF LogKept
  <2>2. CASE \A b \in Stored : Block(b)' = Block(b)
    BY <1>2, <1>3, <2>1, <2>2
  <2>3. CASE \E c \in Stored, h \in {p, NoProc} :
               /\ h = p <=> Block(c).holder = NoProc
               /\ \A b \in Stored :
                    Block(b)' = [val |-> Block(b).val,
                                 holder |-> IF b = c THEN h ELSE Block(b).holder]
    <3>1. PICK c \in Stored, h \in {p, NoProc} :
               /\ h = p <=> Block(c).holder = NoProc
               /\ \A b \in Stored :
                    Block(b)' = [val |-> Block(b).val,
                                 holder |-> IF b = c THEN h ELSE Block(b).holder]
      BY <2>3
    <3>2. \A b \in Blocks :
            Block(b)' = [val |-> Block(b).val,
                         holder |-> IF b = c THEN h ELSE Block(b).holder]
      BY <1>2, <3>1
    <3>3. CASE c \notin Blocks
      <4>1. \A b \in Blocks : Block(b)' = Block(b)
        BY <1>2, <3>2, <3>3
      <4>2. QED
        BY <1>3, <2>1, <4>1
    <3>4. CASE c \in Blocks
      <4>1. TheStore' = [TheStore EXCEPT ![c].holder = h]
        <5>1. TheStore' = [b \in Blocks |-> [val |-> Block(b).val,
                                             holder |-> IF b = c THEN h ELSE Block(b).holder]]
          BY <3>2 DEF TheStore
        <5>2. \A b \in Blocks :
                [val |-> Block(b).val, holder |-> IF b = c THEN h ELSE Block(b).holder]
                  = IF b = c THEN [Block(b) EXCEPT !.holder = h] ELSE Block(b)
          BY <1>2
        <5>3. QED
          BY <3>4, <5>1, <5>2 DEF TheStore
      <4>2. CASE h = p
        <5>1. Store!Bread(p, c)
          BY <2>1, <3>1, <3>4, <4>1, <4>2 DEF Store!Bread, TheStore
        <5>2. QED
          BY <3>4, <5>1 DEF Store!Next
      <4>3. CASE h # p
        <5>1. h = NoProc /\ Block(c).holder # NoProc
          BY <3>1, <4>3
        <5>2. Store!Brelse(c)
          BY <2>1, <3>4, <4>1, <5>1 DEF Store!Brelse, TheStore
        <5>3. QED
          BY <3>4, <5>2 DEF Store!Next
      <4>4. QED
        BY <4>2, <4>3
    <3>5. QED
      BY <3>3, <3>4
  <2>4. QED
    BY <1>6, <2>2, <2>3, HolderSteps
<1>7. CASE Modify(p)
  <2>1. p \in ops /\ ops' = ops
    BY <1>7, LogIsKept DEF LogKept, Modify
  <2>2. PICK c \in Blocks, v \in Vals :
          /\ Block(c).holder = p
          /\ \A b \in Stored : Block(b)' = [val |-> IF b = c THEN v ELSE Block(b).val,
                                            holder |-> Block(b).holder]
    BY <1>7, ModifySteps
  <2>3. \A b \in Blocks : Block(b)' = [val |-> IF b = c THEN v ELSE Block(b).val,
                                       holder |-> Block(b).holder]
    BY <1>2, <2>2
  <2>4. TheStore' = [TheStore EXCEPT ![c].val = v]
    <3>1. TheStore' = [b \in Blocks |-> [val |-> IF b = c THEN v ELSE Block(b).val,
                                         holder |-> Block(b).holder]]
      BY <2>3 DEF TheStore
    <3>2. \A b \in Blocks :
            [val |-> IF b = c THEN v ELSE Block(b).val, holder |-> Block(b).holder]
              = IF b = c THEN [Block(b) EXCEPT !.val = v] ELSE Block(b)
      BY <1>2
    <3>3. QED
      BY <3>1, <3>2 DEF TheStore
  <2>5. Store!Write(c, v)
    BY <2>1, <2>2, <2>4 DEF Store!Write, TheStore
  <2>6. QED
    BY <2>5 DEF Store!Next
<1>8. CASE BeginOp(p) \/ EndOp(p)
  <2>1. \A b \in Blocks : Block(b)' = Block(b)
    BY <1>2, <1>8, PlainSteps
  <2>2. TheStore' = TheStore
    BY <2>1 DEF TheStore
  <2>3. CASE BeginOp(p)
    <3>1. Store!Begin(p)
      BY <2>2, <2>3 DEF BeginOp, Store!Begin, TheStore
    <3>2. QED
      BY <3>1 DEF Store!Next
  <2>4. CASE EndOp(p)
    <3>1. Asked(p) = {}
      BY <2>4, Facts DEF EndOp, Asked
    <3>2. \A x \in Bufs : owner[x] # p
      BY <3>1, SizesAssumption DEF Named
    <3>3. \A b \in Blocks : TheStore[b].holder # p
      BY <1>2, <3>2, SizesAssumption DEF TheStore
    <3>4. Store!End(p)
      BY <2>2, <2>4, <3>3 DEF EndOp, Store!End, TheStore
    <3>5. QED
      BY <3>4 DEF Store!Next
  <2>5. QED
    BY <1>8, <2>3, <2>4
<1>9. QED
  BY <1>1, <1>4, <1>5, <1>6, <1>7, <1>8 DEF LogKept, LogSteps

\* Cache, log and disk together are a store with one current copy of every block: a block
\* changes only under the operation that holds it, by one process at a time, and no
\* recycling, commit or installation loses or brings back anything (bio.c:3-14).
THEOREM CacheImplementsBlockStore ==
  ASSUME Committed = <<>>
  PROVE  Spec => ImplementsBlockStore
<1>1. Init => Store!Init
  <2> SUFFICES ASSUME Init PROVE Store!Init
    OBVIOUS
  <2>1. \A b \in Blocks : Block(b) = [val |-> disk[b], holder |-> NoProc]
    BY DEF Init, Block
  <2>2. \A b \in Blocks : disk[b] \in Vals
    BY DEF Init
  <2>3. QED
    BY <2>1, <2>2 DEF Init, Store!Init
<1>2. BcacheInv /\ [Next]_vars => [Store!Next]_<<TheStore, ops>>
  <2> SUFFICES ASSUME BcacheInv, [Next]_vars
               PROVE  Store!Next \/ UNCHANGED <<TheStore, ops>>
    OBVIOUS
  <2>1. CASE UNCHANGED vars
    BY <2>1 DEF vars, buf, log, TheStore, Block
  <2>2. QED
    BY <2>1, StepRefines
<1>3. QED
  BY <1>1, <1>2, BcacheInvariance, PTL DEF Spec, ImplementsBlockStore, Store!Spec, TheStore

-----------------------------------------------------------------------------
(* The content of files: what bmap() does to the blocks of a file. *)

LEMMA ModDiv ==
  ASSUME NEW n \in Nat \ {0}, NEW a \in Int
  PROVE  a = n * (a \div n) + (a % n) /\ a \div n \in Int /\ a % n \in 0..(n - 1)
BY SMTT(30)

LEMMA ModUnique ==
  ASSUME NEW n \in Nat \ {0}, NEW q \in Int, NEW c \in 0..(n - 1)
  PROVE  (n * q + c) % n = c
<1> DEFINE a == n * q + c
<1>1. a \in Int
  OBVIOUS
<1>2. a = n * (a \div n) + (a % n) /\ a \div n \in Int /\ a % n \in 0..(n - 1)
  BY <1>1, ModDiv
<1> HIDE DEF a
<1>3. PICK d \in Int, f \in 0..(n - 1) : a = n * d + f /\ f = a % n
  BY <1>2
<1>4. n * (q - d) = n * q - n * d
  OBVIOUS
<1>5. n * (q - d) = f - c
  BY <1>3, <1>4 DEF a
<1>6. q - d = 0
  BY <1>5, NoMultiple
<1>7. QED
  BY <1>3, <1>5, <1>6 DEF a

LEMMA LeastNat ==
  ASSUME NEW T \in SUBSET Nat, T # {}
  PROVE  \E m \in T : \A n \in T : m <= n
<1>1. PICK m \in T : \A n \in T : ~(<<n, m>> \in OpToRel(<, Nat))
  BY NatLessThanWellFounded, WFMin
<1>2. \A n \in T : ~(n < m)
  BY <1>1 DEF OpToRel
<1>3. QED
  BY <1>2

\* Where a block of a file hangs: its data, and at MAXFILE the indirect block.
Slots == 0..MAXFILE
SlotOf(ip, j) == IF j = MAXFILE THEN ip.addrs[NDIRECT] ELSE BlockAt(ip, j)

Addrs == {0} \cup DataBlocks
InodeType == [size : Nat, addrs : [0..NDIRECT -> Addrs], ind : [0..(NINDIRECT - 1) -> Addrs]]
Contents == [0..(BSIZE - 1) -> {0} \cup Writers]
LogNames == ({"bitmap"} \X Nat) \cup ({"data"} \X DataBlocks) \cup {<<"inode">>}
OpType == [ip : InodeType, used : SUBSET DataBlocks, cached : [DataBlocks -> Contents],
           logged : [DataBlocks -> Contents], log : SUBSET LogNames]

\* Every block has one place in the file, and none hangs on an indirect block that is not there.
WellHung(ip) ==
  /\ \A i, j \in Slots : SlotOf(ip, i) # 0 /\ SlotOf(ip, i) = SlotOf(ip, j) => i = j
  /\ \A j \in NDIRECT..(MAXFILE - 1) : SlotOf(ip, j) # 0 => SlotOf(ip, MAXFILE) # 0
InUse(ip, used) == \A j \in Slots : SlotOf(ip, j) # 0 => SlotOf(ip, j) \in used
GoodOp(o) == o \in OpType /\ IsFiniteSet(o.log) /\ WellHung(o.ip) /\ InUse(o.ip, o.used)

LEMMA FileSizes ==
  /\ NDIRECT \in Nat /\ NDIRECT >= 1 /\ NINDIRECT \in Nat /\ NINDIRECT >= 1
  /\ MAXFILE \in Nat /\ MAXFILE = NDIRECT + NINDIRECT
  /\ BSIZE \in Nat /\ BSIZE >= 1 /\ BPB \in Nat /\ BPB >= 1 /\ FSBLOCKS \in Nat /\ FSBLOCKS >= 1
  /\ IsFiniteSet(DataBlocks) /\ 0 \notin DataBlocks /\ DataBlocks \subseteq Nat
<1>1. IsFiniteSet(1..FSBLOCKS)
  BY FS_Interval, FileDataAssumption
<1>2. QED
  BY <1>1, FileDataAssumption DEF MAXFILE, DataBlocks

\* A slot is an address, and two inodes with the same slots are the same but for the size.
LEMMA SlotType ==
  ASSUME NEW ip \in InodeType, NEW j \in Slots
  PROVE  SlotOf(ip, j) \in Addrs
<1>1. CASE j = MAXFILE
  BY <1>1, FileSizes DEF SlotOf, InodeType
<1>2. CASE j < NDIRECT
  <2>1. SlotOf(ip, j) = ip.addrs[j] /\ j \in 0..NDIRECT
    BY <1>2, FileSizes DEF SlotOf, BlockAt, Slots
  <2>2. QED
    BY <2>1, ZenonT(30) DEF InodeType
<1>3. CASE j >= NDIRECT /\ j # MAXFILE
  <2>1. j - NDIRECT \in 0..(NINDIRECT - 1) /\ ~(j < NDIRECT)
    BY <1>3, FileSizes DEF Slots
  <2>2. SlotOf(ip, j) = ip.ind[j - NDIRECT]
    BY <1>3, <2>1 DEF SlotOf, BlockAt
  <2>3. QED
    BY <2>1, <2>2 DEF InodeType
<1>4. QED
  BY <1>1, <1>2, <1>3, FileSizes DEF Slots

LEMMA OwnedIs ==
  ASSUME NEW ip \in InodeType
  PROVE  Owned(ip) = {SlotOf(ip, j) : j \in Slots} \ {0}
<1>1. DOMAIN ip.addrs = 0..NDIRECT /\ DOMAIN ip.ind = 0..(NINDIRECT - 1)
  BY DEF InodeType
<1>2. ASSUME NEW n \in 0..NDIRECT
      PROVE  \E j \in Slots : ip.addrs[n] = SlotOf(ip, j)
  <2>1. CASE n = NDIRECT
    BY <2>1, FileSizes DEF SlotOf, Slots
  <2>2. CASE n < NDIRECT
    BY <2>2, FileSizes DEF SlotOf, Slots, BlockAt
  <2>3. QED
    BY <2>1, <2>2, FileSizes
<1>3. ASSUME NEW n \in 0..(NINDIRECT - 1)
      PROVE  \E j \in Slots : ip.ind[n] = SlotOf(ip, j)
  <2>1. PICK j \in Slots : j = n + NDIRECT /\ j # MAXFILE /\ ~(j < NDIRECT) /\ j - NDIRECT = n
    BY FileSizes DEF Slots
  <2>2. QED
    BY <2>1 DEF SlotOf, BlockAt
<1>4. ASSUME NEW j \in Slots
      PROVE  \/ \E n \in 0..NDIRECT : ip.addrs[n] = SlotOf(ip, j)
             \/ \E n \in 0..(NINDIRECT - 1) : ip.ind[n] = SlotOf(ip, j)
  <2>1. CASE j = MAXFILE
    BY <2>1, FileSizes DEF SlotOf
  <2>2. CASE j < NDIRECT
    BY <2>2, FileSizes DEF SlotOf, BlockAt, Slots
  <2>3. CASE j >= NDIRECT /\ j # MAXFILE
    <3>1. j - NDIRECT \in 0..(NINDIRECT - 1) /\ ~(j < NDIRECT)
      BY <2>3, FileSizes DEF Slots
    <3>2. QED
      BY <2>3, <3>1 DEF SlotOf, BlockAt
  <2>4. QED
    BY <2>1, <2>2, <2>3, FileSizes DEF Slots
<1>5. QED
  BY <1>1, <1>2, <1>3, <1>4 DEF Owned

LEMMA LeastBlock ==
  ASSUME NEW used \in SUBSET DataBlocks, DataBlocks \ used # {}
  PROVE  FreeBlock(used) \in DataBlocks \ used
<1>1. PICK m \in DataBlocks \ used : \A n \in DataBlocks \ used : m <= n
  <2>1. DataBlocks \ used \in SUBSET Nat
    BY FileSizes
  <2>2. QED
    BY <2>1, LeastNat
<1>2. QED
  BY <1>1 DEF FreeBlock

\* A new block hangs at slot j, and nothing else changes but the log.
Attached(o, o1, j) ==
  \E b \in DataBlocks \ o.used :
    /\ SlotOf(o1.ip, j) = b /\ \A i \in Slots \ {j} : SlotOf(o1.ip, i) = SlotOf(o.ip, i)
    /\ o1.ip.size = o.ip.size
    /\ o1.used = o.used \cup {b}
    /\ o1.cached = [o.cached EXCEPT ![b] = Zeroes]
    /\ o1.logged = [o.logged EXCEPT ![b] = Zeroes]

LEMMA ZeroesType == Zeroes \in Contents
BY DEF Zeroes, Contents

LEMMA BitmapName ==
  ASSUME NEW b \in DataBlocks
  PROVE  BBLOCK(b) \in LogNames /\ <<"data", b>> \in LogNames
<1>1. b - 1 \in Nat /\ BPB \in Nat \ {0}
  BY FileSizes DEF DataBlocks
<1>2. (b - 1) \div BPB \in Nat
  BY <1>1, SMTT(30)
<1>3. QED
  BY <1>2 DEF BBLOCK, LogNames

LEMMA BallocIs ==
  ASSUME NEW o \in OpType, DataBlocks \ o.used # {}
  PROVE  LET b == FreeBlock(o.used) IN
         /\ b \in DataBlocks \ o.used
         /\ balloc(o) = [ip |-> o.ip, used |-> o.used \cup {b},
                         cached |-> [o.cached EXCEPT ![b] = Zeroes],
                         logged |-> [o.logged EXCEPT ![b] = Zeroes],
                         log |-> o.log \cup {BBLOCK(b), <<"data", b>>}]
         /\ balloc(o) \in OpType
<1> DEFINE b == FreeBlock(o.used)
<1>1. b \in DataBlocks \ o.used
  <2>1. o.used \in SUBSET DataBlocks
    BY DEF OpType
  <2>2. QED
    BY <2>1, LeastBlock
<1> HIDE DEF b
<1>2. balloc(o) = [ip |-> o.ip, used |-> o.used \cup {b},
                   cached |-> [o.cached EXCEPT ![b] = Zeroes],
                   logged |-> [o.logged EXCEPT ![b] = Zeroes],
                   log |-> o.log \cup {BBLOCK(b), <<"data", b>>}]
  <2> DEFINE fields == {"ip", "used", "cached", "logged", "log"}
  <2>1. PICK o1 : o1 = balloc(o)
    OBVIOUS
  <2>2. o1 = [o EXCEPT !.used = @ \cup {b}, !.cached[b] = Zeroes, !.logged[b] = Zeroes,
                       !.log = @ \cup {BBLOCK(b), <<"data", b>>}]
    BY <2>1 DEF balloc, b
  <2>3. DOMAIN o1 = fields /\ o1 = [x \in fields |-> o1[x]]
    BY <2>2 DEF OpType
  <2>4. o1.ip = o.ip /\ o1.used = o.used \cup {b}
    BY <2>2 DEF OpType
  <2>5. o1.cached = [o.cached EXCEPT ![b] = Zeroes]
    BY <2>2 DEF OpType
  <2>6. o1.logged = [o.logged EXCEPT ![b] = Zeroes]
    BY <2>2 DEF OpType
  <2>7. o1.log = o.log \cup {BBLOCK(b), <<"data", b>>}
    BY <2>2 DEF OpType
  <2>8. QED
    BY <2>1, <2>3, <2>4, <2>5, <2>6, <2>7
<1>3. /\ o.used \cup {b} \in SUBSET DataBlocks
      /\ [o.cached EXCEPT ![b] = Zeroes] \in [DataBlocks -> Contents]
      /\ [o.logged EXCEPT ![b] = Zeroes] \in [DataBlocks -> Contents]
      /\ o.log \cup {BBLOCK(b), <<"data", b>>} \in SUBSET LogNames
      /\ o.ip \in InodeType
  BY <1>1, ZeroesType, BitmapName DEF OpType
<1>4. balloc(o) \in OpType
  BY <1>2, <1>3 DEF OpType
<1>5. QED
  BY <1>1, <1>2, <1>4 DEF b

\* An address of the inode changes: the slot does.
LEMMA AddrSlot ==
  ASSUME NEW ip \in InodeType, NEW n \in 0..NDIRECT, NEW b \in DataBlocks
  PROVE  LET ip1 == [ip EXCEPT !.addrs[n] = b]
             j == IF n = NDIRECT THEN MAXFILE ELSE n
         IN /\ ip1 \in InodeType /\ ip1.size = ip.size
            /\ SlotOf(ip1, j) = b /\ \A i \in Slots \ {j} : SlotOf(ip1, i) = SlotOf(ip, i)
<1> DEFINE ip1 == [ip EXCEPT !.addrs[n] = b]
<1> DEFINE j == IF n = NDIRECT THEN MAXFILE ELSE n
<1>1. ip1 = [size |-> ip.size, addrs |-> [ip.addrs EXCEPT ![n] = b], ind |-> ip.ind]
  BY DEF InodeType
<1>2. [ip.addrs EXCEPT ![n] = b] \in [0..NDIRECT -> Addrs] /\ ip.ind \in [0..(NINDIRECT - 1) -> Addrs]
      /\ ip.size \in Nat
  BY DEF InodeType, Addrs
<1>3. ip1 \in InodeType
  BY <1>1, <1>2 DEF InodeType
<1>4. ip1.ind = ip.ind /\ ip1.size = ip.size /\ ip1.addrs = [ip.addrs EXCEPT ![n] = b]
  BY <1>1
<1>5. /\ ip1.addrs[n] = b
      /\ \A m \in 0..NDIRECT : m # n => ip1.addrs[m] = ip.addrs[m]
  BY <1>4 DEF InodeType
<1> HIDE DEF ip1
<1>6. SlotOf(ip1, j) = b
  BY <1>5, FileSizes DEF SlotOf, BlockAt
<1>7. ASSUME NEW i \in Slots \ {j}
      PROVE  SlotOf(ip1, i) = SlotOf(ip, i)
  <2>1. CASE i = MAXFILE
    <3>1. NDIRECT # n /\ NDIRECT \in 0..NDIRECT
      BY <2>1, FileSizes
    <3>2. QED
      BY <2>1, <3>1, <1>5 DEF SlotOf
  <2>2. CASE i # MAXFILE /\ i < NDIRECT
    <3>1. i # n /\ i \in 0..NDIRECT
      BY <2>2, FileSizes DEF Slots
    <3>2. QED
      BY <2>2, <3>1, <1>5 DEF SlotOf, BlockAt
  <2>3. CASE i # MAXFILE /\ ~(i < NDIRECT)
    BY <2>3, <1>4 DEF SlotOf, BlockAt
  <2>4. QED
    BY <2>1, <2>2, <2>3
<1>8. QED
  BY <1>3, <1>4, <1>6, <1>7 DEF ip1

LEMMA IndSlot ==
  ASSUME NEW ip \in InodeType, NEW n \in 0..(NINDIRECT - 1), NEW b \in DataBlocks
  PROVE  LET ip1 == [ip EXCEPT !.ind[n] = b]
             bn == n + NDIRECT
         IN /\ ip1 \in InodeType /\ ip1.size = ip.size
            /\ SlotOf(ip1, bn) = b /\ \A i \in Slots \ {bn} : SlotOf(ip1, i) = SlotOf(ip, i)
<1> DEFINE ip1 == [ip EXCEPT !.ind[n] = b]
<1> DEFINE bn == n + NDIRECT
<1>0. n = bn - NDIRECT /\ bn \in NDIRECT..(MAXFILE - 1)
  BY FileSizes
<1>1. ip1 = [size |-> ip.size, addrs |-> ip.addrs, ind |-> [ip.ind EXCEPT ![n] = b]]
  BY <1>0 DEF InodeType
<1>2. [ip.ind EXCEPT ![n] = b] \in [0..(NINDIRECT - 1) -> Addrs] /\ ip.addrs \in [0..NDIRECT -> Addrs]
      /\ ip.size \in Nat
  BY DEF InodeType, Addrs
<1>3. ip1 \in InodeType
  BY <1>1, <1>2 DEF InodeType
<1>4. ip1.addrs = ip.addrs /\ ip1.size = ip.size /\ ip1.ind = [ip.ind EXCEPT ![n] = b]
  BY <1>1
<1>5. /\ ip1.ind[n] = b
      /\ \A m \in 0..(NINDIRECT - 1) : m # n => ip1.ind[m] = ip.ind[m]
  BY <1>4 DEF InodeType
<1> HIDE DEF ip1
<1>6. SlotOf(ip1, bn) = b
  <2>1. bn # MAXFILE /\ ~(bn < NDIRECT)
    BY <1>0, FileSizes
  <2>2. QED
    BY <2>1, <1>0, <1>5 DEF SlotOf, BlockAt
<1>7. ASSUME NEW i \in Slots \ {bn}
      PROVE  SlotOf(ip1, i) = SlotOf(ip, i)
  <2>1. CASE i = MAXFILE
    BY <2>1, <1>4 DEF SlotOf
  <2>2. CASE i # MAXFILE /\ i < NDIRECT
    BY <2>2, <1>4 DEF SlotOf, BlockAt
  <2>3. CASE i # MAXFILE /\ ~(i < NDIRECT)
    <3>1. i - NDIRECT # n /\ i - NDIRECT \in 0..(NINDIRECT - 1)
      BY <2>3, <1>0, FileSizes DEF Slots
    <3>2. QED
      BY <2>3, <3>1, <1>5 DEF SlotOf, BlockAt
  <2>4. QED
    BY <2>1, <2>2, <2>3
<1>8. QED
  BY <1>3, <1>4, <1>6, <1>7 DEF ip1

LEMMA OpFields ==
  ASSUME NEW o, DOMAIN o = {"ip", "used", "cached", "logged", "log"},
         o = [x \in {"ip", "used", "cached", "logged", "log"} |-> o[x]],
         o.ip \in InodeType, o.used \in SUBSET DataBlocks, o.cached \in [DataBlocks -> Contents],
         o.logged \in [DataBlocks -> Contents], o.log \in SUBSET LogNames
  PROVE  o \in OpType
<1>1. o = [ip |-> o.ip, used |-> o.used, cached |-> o.cached, logged |-> o.logged, log |-> o.log]
  OBVIOUS
<1>2. QED
  BY <1>1, Zenon DEF OpType

LEMMA WithAddr ==
  ASSUME NEW o \in OpType, NEW n \in 0..NDIRECT, NEW b \in DataBlocks
  PROVE  LET o1 == [o EXCEPT !.ip.addrs[n] = b]
         IN /\ o1.ip = [o.ip EXCEPT !.addrs[n] = b] /\ o1.used = o.used
            /\ o1.cached = o.cached /\ o1.logged = o.logged /\ o1.log = o.log /\ o1 \in OpType
<1>1. PICK o1 : o1 = [o EXCEPT !.ip.addrs[n] = b]
  OBVIOUS
<1>2. /\ DOMAIN o1 = {"ip", "used", "cached", "logged", "log"}
      /\ o1 = [x \in {"ip", "used", "cached", "logged", "log"} |-> o1[x]]
  BY <1>1 DEF OpType
<1>3. o1.ip = [o.ip EXCEPT !.addrs[n] = b]
  BY <1>1 DEF OpType
<1>4. o1.used = o.used /\ o1.cached = o.cached /\ o1.logged = o.logged /\ o1.log = o.log
  BY <1>1 DEF OpType
<1>5. o1.ip \in InodeType
  <2>1. o.ip \in InodeType
    BY DEF OpType
  <2>2. QED
    BY <2>1, <1>3, AddrSlot
<1>6. /\ o1.used \in SUBSET DataBlocks /\ o1.cached \in [DataBlocks -> Contents]
      /\ o1.logged \in [DataBlocks -> Contents] /\ o1.log \in SUBSET LogNames
  BY <1>4 DEF OpType
<1>7. o1 \in OpType
  BY <1>2, <1>5, <1>6, OpFields
<1>8. QED
  BY <1>1, <1>3, <1>4, <1>7

LEMMA WithInd ==
  ASSUME NEW o \in OpType, NEW n \in 0..(NINDIRECT - 1), NEW b \in DataBlocks, NEW h \in LogNames
  PROVE  LET o1 == [o EXCEPT !.ip.ind[n] = b, !.log = @ \cup {h}]
         IN /\ o1.ip = [o.ip EXCEPT !.ind[n] = b] /\ o1.used = o.used
            /\ o1.cached = o.cached /\ o1.logged = o.logged /\ o1.log = o.log \cup {h}
            /\ o1 \in OpType
<1>1. PICK o1 : o1 = [o EXCEPT !.ip.ind[n] = b, !.log = @ \cup {h}]
  OBVIOUS
<1>2. /\ DOMAIN o1 = {"ip", "used", "cached", "logged", "log"}
      /\ o1 = [x \in {"ip", "used", "cached", "logged", "log"} |-> o1[x]]
  BY <1>1 DEF OpType
<1>3. o1.ip = [o.ip EXCEPT !.ind[n] = b]
  BY <1>1 DEF OpType
<1>4. o1.used = o.used /\ o1.cached = o.cached /\ o1.logged = o.logged
  BY <1>1 DEF OpType
<1>5. o1.log = o.log \cup {h}
  BY <1>1 DEF OpType
<1>6. o1.ip \in InodeType
  <2>1. o.ip \in InodeType
    BY DEF OpType
  <2>2. [o.ip EXCEPT !.ind[n] = b] \in InodeType
    BY <2>1, IndSlot
  <2>3. QED
    BY <2>2, <1>3
<1>7. /\ o1.used \in SUBSET DataBlocks /\ o1.cached \in [DataBlocks -> Contents]
      /\ o1.logged \in [DataBlocks -> Contents] /\ o1.log \in SUBSET LogNames
  BY <1>4, <1>5 DEF OpType
<1>8. o1 \in OpType
  BY <1>2, <1>6, <1>7, OpFields
<1>9. QED
  BY <1>1, <1>3, <1>4, <1>5, <1>8

\* The three places where bmap() may hang a block.
LEMMA HangsAddr ==
  ASSUME NEW o \in OpType, DataBlocks \ o.used # {}, NEW n \in 0..NDIRECT
  PROVE  LET o1 == [balloc(o) EXCEPT !.ip.addrs[n] = FreeBlock(o.used)]
             j == IF n = NDIRECT THEN MAXFILE ELSE n
         IN /\ Attached(o, o1, j) /\ o1 \in OpType
            /\ o1.log = o.log \cup {BBLOCK(SlotOf(o1.ip, j)), <<"data", SlotOf(o1.ip, j)>>}
<1> DEFINE j == IF n = NDIRECT THEN MAXFILE ELSE n
<1>1. PICK b, a : b = FreeBlock(o.used) /\ a = balloc(o)
  OBVIOUS
<1>2. /\ b \in DataBlocks \ o.used /\ a \in OpType
      /\ a = [ip |-> o.ip, used |-> o.used \cup {b},
              cached |-> [o.cached EXCEPT ![b] = Zeroes],
              logged |-> [o.logged EXCEPT ![b] = Zeroes],
              log |-> o.log \cup {BBLOCK(b), <<"data", b>>}]
  BY <1>1, BallocIs
<1>3. PICK o1 : o1 = [a EXCEPT !.ip.addrs[n] = b]
  OBVIOUS
<1>4. /\ o1.ip = [a.ip EXCEPT !.addrs[n] = b] /\ o1.used = a.used
      /\ o1.cached = a.cached /\ o1.logged = a.logged /\ o1.log = a.log /\ o1 \in OpType
  BY <1>2, <1>3, WithAddr
<1>5. /\ a.ip = o.ip /\ a.used = o.used \cup {b}
      /\ a.cached = [o.cached EXCEPT ![b] = Zeroes]
      /\ a.logged = [o.logged EXCEPT ![b] = Zeroes]
      /\ a.log = o.log \cup {BBLOCK(b), <<"data", b>>}
  BY <1>2
<1>6. /\ o1.ip.size = o.ip.size /\ SlotOf(o1.ip, j) = b
      /\ \A i \in Slots \ {j} : SlotOf(o1.ip, i) = SlotOf(o.ip, i)
  <2>1. o.ip \in InodeType
    BY DEF OpType
  <2>2. b \in DataBlocks
    BY <1>2
  <2>3. PICK ip1 : ip1 = [o.ip EXCEPT !.addrs[n] = b]
    OBVIOUS
  <2>4. /\ ip1.size = o.ip.size /\ SlotOf(ip1, j) = b
        /\ \A i \in Slots \ {j} : SlotOf(ip1, i) = SlotOf(o.ip, i)
    BY <2>1, <2>2, <2>3, AddrSlot
  <2>5. o1.ip = ip1
    BY <2>3, <1>4, <1>5, Zenon
  <2>6. QED
    BY <2>4, <2>5, Zenon
<1>7. Attached(o, o1, j)
  BY <1>2, <1>4, <1>5, <1>6, Zenon DEF Attached
<1>8. o1.log = o.log \cup {BBLOCK(SlotOf(o1.ip, j)), <<"data", SlotOf(o1.ip, j)>>}
  BY <1>4, <1>5, <1>6, Zenon
<1>9. QED
  BY <1>1, <1>3, <1>4, <1>7, <1>8, Zenon

LEMMA HangsInd ==
  ASSUME NEW o \in OpType, DataBlocks \ o.used # {}, NEW n \in 0..(NINDIRECT - 1), NEW h \in LogNames
  PROVE  LET o1 == [balloc(o) EXCEPT !.ip.ind[n] = FreeBlock(o.used), !.log = @ \cup {h}]
             j == n + NDIRECT
         IN /\ Attached(o, o1, j) /\ o1 \in OpType
            /\ o1.log = o.log \cup {BBLOCK(SlotOf(o1.ip, j)), <<"data", SlotOf(o1.ip, j)>>} \cup {h}
<1> DEFINE j == n + NDIRECT
<1>1. PICK b, a : b = FreeBlock(o.used) /\ a = balloc(o)
  OBVIOUS
<1>2. /\ b \in DataBlocks \ o.used /\ a \in OpType
      /\ a = [ip |-> o.ip, used |-> o.used \cup {b},
              cached |-> [o.cached EXCEPT ![b] = Zeroes],
              logged |-> [o.logged EXCEPT ![b] = Zeroes],
              log |-> o.log \cup {BBLOCK(b), <<"data", b>>}]
  BY <1>1, BallocIs
<1>3. PICK o1 : o1 = [a EXCEPT !.ip.ind[n] = b, !.log = @ \cup {h}]
  OBVIOUS
<1>4. /\ o1.ip = [a.ip EXCEPT !.ind[n] = b] /\ o1.used = a.used
      /\ o1.cached = a.cached /\ o1.logged = a.logged /\ o1.log = a.log \cup {h} /\ o1 \in OpType
  BY <1>2, <1>3, WithInd
<1>5. /\ a.ip = o.ip /\ a.used = o.used \cup {b}
      /\ a.cached = [o.cached EXCEPT ![b] = Zeroes]
      /\ a.logged = [o.logged EXCEPT ![b] = Zeroes]
      /\ a.log = o.log \cup {BBLOCK(b), <<"data", b>>}
  BY <1>2
<1>6. /\ o1.ip.size = o.ip.size /\ SlotOf(o1.ip, j) = b
      /\ \A i \in Slots \ {j} : SlotOf(o1.ip, i) = SlotOf(o.ip, i)
  <2>1. o.ip \in InodeType
    BY DEF OpType
  <2>2. b \in DataBlocks
    BY <1>2
  <2>3. PICK ip1 : ip1 = [o.ip EXCEPT !.ind[n] = b]
    OBVIOUS
  <2>4. /\ ip1.size = o.ip.size /\ SlotOf(ip1, j) = b
        /\ \A i \in Slots \ {j} : SlotOf(ip1, i) = SlotOf(o.ip, i)
    BY <2>1, <2>2, <2>3, IndSlot, ZenonT(30)
  <2>5. o1.ip = ip1
    BY <2>3, <1>4, <1>5, Zenon
  <2>6. QED
    BY <2>4, <2>5, Zenon
<1>7. Attached(o, o1, j)
  BY <1>2, <1>4, <1>5, <1>6, Zenon DEF Attached
<1>8. o1.log = o.log \cup {BBLOCK(SlotOf(o1.ip, j)), <<"data", SlotOf(o1.ip, j)>>} \cup {h}
  BY <1>4, <1>5, <1>6, Zenon
<1>9. QED
  BY <1>1, <1>3, <1>4, <1>7, <1>8, Zenon

-----------------------------------------------------------------------------
(* What bmap() makes of the operation it is called from. *)

\* Blocks were hung, new ones in new places, and what there was is as it was.
Hung(o, o1) ==
  /\ o1.ip.size = o.ip.size /\ o.used \subseteq o1.used
  /\ \A j \in Slots : SlotOf(o.ip, j) # 0 => SlotOf(o1.ip, j) = SlotOf(o.ip, j)
  /\ \A j \in Slots : SlotOf(o.ip, j) = 0 /\ SlotOf(o1.ip, j) # 0 => SlotOf(o1.ip, j) \notin o.used
  /\ \A b \in o.used : o1.cached[b] = o.cached[b] /\ o1.logged[b] = o.logged[b]
  /\ \A b \in o1.used \ o.used : /\ o1.cached[b] = o1.logged[b]
                                 /\ \E j \in Slots : SlotOf(o1.ip, j) = b

\* The slots that are to be filled for the blocks bns, and whether there are blocks for them.
Missing(ip, bns) ==
  {j \in Slots : SlotOf(ip, j) = 0 /\ (j \in bns \/ (j = MAXFILE /\ \E bn \in bns : bn >= NDIRECT))}
Room1(o, bns) == Cardinality(Missing(o.ip, bns)) <= Cardinality(DataBlocks \ o.used)

\* At most m blocks are logged, but for the indirect block and its bit.
IndLogged(o) == SlotOf(o.ip, MAXFILE) # 0 /\ <<"data", SlotOf(o.ip, MAXFILE)>> \in o.log
LogBound(o, m) == Cardinality(o.log) <= m + (IF IndLogged(o) THEN 2 ELSE 0)

LEMMA HungTrans ==
  ASSUME NEW o, NEW o1, NEW o2, 0 \notin o1.used, Hung(o, o1), Hung(o1, o2)
  PROVE  Hung(o, o2)
<1>1. o2.ip.size = o.ip.size /\ o.used \subseteq o2.used
  BY DEF Hung
<1>2. \A j \in Slots : SlotOf(o.ip, j) # 0 => SlotOf(o2.ip, j) = SlotOf(o.ip, j)
  BY DEF Hung
<1>3. ASSUME NEW j \in Slots, SlotOf(o.ip, j) = 0, SlotOf(o2.ip, j) # 0
      PROVE  SlotOf(o2.ip, j) \notin o.used
  BY <1>3 DEF Hung
<1>4. \A b \in o.used : o2.cached[b] = o.cached[b] /\ o2.logged[b] = o.logged[b]
  BY DEF Hung
<1>5. ASSUME NEW b \in o2.used \ o.used
      PROVE  o2.cached[b] = o2.logged[b] /\ \E j \in Slots : SlotOf(o2.ip, j) = b
  <2>1. CASE b \in o1.used
    <3>1. /\ o2.cached[b] = o1.cached[b] /\ o2.logged[b] = o1.logged[b] /\ o1.cached[b] = o1.logged[b]
      BY <2>1, <1>5 DEF Hung
    <3>2. PICK j \in Slots : SlotOf(o1.ip, j) = b
      BY <2>1, <1>5 DEF Hung
    <3>3. b # 0
      BY <2>1
    <3>4. SlotOf(o2.ip, j) = b
      BY <3>2, <3>3 DEF Hung
    <3>5. QED
      BY <3>1, <3>4
  <2>2. CASE b \notin o1.used
    BY <2>2, <1>5 DEF Hung
  <2>3. QED
    BY <2>1, <2>2
<1>6. QED
  BY <1>1, <1>2, <1>3, <1>4, <1>5 DEF Hung

LEMMA HungSame ==
  ASSUME NEW o
  PROVE  Hung(o, o)
BY DEF Hung

LEMMA AttachedHangs ==
  ASSUME NEW o, GoodOp(o), NEW o1 \in OpType, NEW j \in Slots, SlotOf(o.ip, j) = 0,
         Attached(o, o1, j), IsFiniteSet(o1.log),
         j \in NDIRECT..(MAXFILE - 1) => SlotOf(o.ip, MAXFILE) # 0
  PROVE  /\ GoodOp(o1) /\ Hung(o, o1) /\ SlotOf(o1.ip, j) # 0
         /\ \A bns : j \in Missing(o.ip, bns) /\ Room1(o, bns) => Room1(o1, bns)
<1>1. PICK b \in DataBlocks \ o.used :
        /\ SlotOf(o1.ip, j) = b /\ \A i \in Slots \ {j} : SlotOf(o1.ip, i) = SlotOf(o.ip, i)
        /\ o1.ip.size = o.ip.size
        /\ o1.used = o.used \cup {b}
        /\ o1.cached = [o.cached EXCEPT ![b] = Zeroes]
        /\ o1.logged = [o.logged EXCEPT ![b] = Zeroes]
  BY Zenon DEF Attached
<1>2. b # 0
  BY <1>1, FileSizes
<1>3. /\ o.cached \in [DataBlocks -> Contents] /\ o.logged \in [DataBlocks -> Contents]
      /\ o.used \subseteq DataBlocks
  BY DEF GoodOp, OpType
<1>4. InUse(o1.ip, o1.used)
  BY <1>1 DEF GoodOp, InUse
<1>5. WellHung(o1.ip)
  <2>1. ASSUME NEW i \in Slots, NEW k \in Slots, SlotOf(o1.ip, i) # 0, SlotOf(o1.ip, i) = SlotOf(o1.ip, k)
        PROVE  i = k
    <3>1. CASE i = j /\ k # j
      BY <1>1, <2>1, <3>1 DEF GoodOp, InUse
    <3>2. CASE i # j /\ k = j
      BY <1>1, <2>1, <3>2 DEF GoodOp, InUse
    <3>3. CASE i # j /\ k # j
      BY <1>1, <2>1, <3>3 DEF GoodOp, WellHung
    <3>4. QED
      BY <3>1, <3>2, <3>3
  <2>2. ASSUME NEW i \in NDIRECT..(MAXFILE - 1), SlotOf(o1.ip, i) # 0
        PROVE  SlotOf(o1.ip, MAXFILE) # 0
    <3>1. i \in Slots /\ MAXFILE \in Slots
      BY FileSizes DEF Slots
    <3>2. CASE j = MAXFILE
      BY <3>2, <1>1, <1>2
    <3>3. CASE j # MAXFILE /\ i = j
      BY <3>1, <3>3, <1>1
    <3>4. CASE j # MAXFILE /\ i # j
      BY <3>1, <3>4, <2>2, <1>1 DEF GoodOp, WellHung
    <3>5. QED
      BY <3>2, <3>3, <3>4
  <2>3. QED
    BY <2>1, <2>2 DEF WellHung
<1>6. Hung(o, o1)
  <2>1. \A c \in o.used : o1.cached[c] = o.cached[c] /\ o1.logged[c] = o.logged[c]
    BY <1>1, <1>3
  <2>2. o1.cached[b] = Zeroes /\ o1.logged[b] = Zeroes
    BY <1>1, <1>3
  <2>3. \A c \in o1.used \ o.used : c = b
    BY <1>1
  <2>4. \A i \in Slots : SlotOf(o.ip, i) # 0 => SlotOf(o1.ip, i) = SlotOf(o.ip, i)
    BY <1>1
  <2>5. \A i \in Slots : SlotOf(o.ip, i) = 0 /\ SlotOf(o1.ip, i) # 0 => SlotOf(o1.ip, i) \notin o.used
    BY <1>1
  <2>6. o.used \subseteq o1.used
    BY <1>1
  <2>7. QED
    BY <1>1, <2>1, <2>2, <2>3, <2>4, <2>5, <2>6 DEF Hung
<1>7. ASSUME NEW bns, j \in Missing(o.ip, bns), Room1(o, bns)
      PROVE  Room1(o1, bns)
  <2>1. Missing(o1.ip, bns) = Missing(o.ip, bns) \ {j}
    BY <1>1, <1>2 DEF Missing
  <2>2. DataBlocks \ o1.used = (DataBlocks \ o.used) \ {b}
    BY <1>1
  <2>3. IsFiniteSet(Missing(o.ip, bns)) /\ IsFiniteSet(DataBlocks \ o.used)
    <3>1. IsFiniteSet(Slots)
      BY FileSizes, FS_Interval DEF Slots
    <3>2. Missing(o.ip, bns) \in SUBSET Slots /\ DataBlocks \ o.used \in SUBSET DataBlocks
      BY DEF Missing
    <3>3. QED
      BY <3>1, <3>2, FileSizes, FS_Subset
  <2>4. Cardinality(Missing(o1.ip, bns)) = Cardinality(Missing(o.ip, bns)) - 1
    BY <1>7, <2>1, <2>3, FS_RemoveElement, ZenonT(30)
  <2>5. Cardinality(DataBlocks \ o1.used) = Cardinality(DataBlocks \ o.used) - 1
    <3>1. b \in DataBlocks \ o.used
      OBVIOUS
    <3>2. Cardinality((DataBlocks \ o.used) \ {b}) = Cardinality(DataBlocks \ o.used) - 1
      BY <2>3, <3>1, FS_RemoveElement, Zenon
    <3>3. QED
      BY <2>2, <3>2, Zenon
  <2>6. Cardinality(Missing(o.ip, bns)) \in Nat /\ Cardinality(DataBlocks \ o.used) \in Nat
    BY <2>3, FS_CardinalityType
  <2>7. Cardinality(Missing(o.ip, bns)) <= Cardinality(DataBlocks \ o.used)
    BY <1>7 DEF Room1
  <2>8. Cardinality(Missing(o1.ip, bns)) <= Cardinality(DataBlocks \ o1.used)
    BY <2>4, <2>5, <2>6, <2>7
  <2>9. QED
    BY <2>8 DEF Room1
<1>8. QED
  BY <1>1, <1>2, <1>4, <1>5, <1>6, <1>7 DEF GoodOp

LEMMA RoomLeft ==
  ASSUME NEW o, NEW bns, Room1(o, bns), NEW j \in Missing(o.ip, bns)
  PROVE  DataBlocks \ o.used # {}
<1>1. IsFiniteSet(Slots)
  BY FileSizes, FS_Interval DEF Slots
<1>2. Missing(o.ip, bns) \in SUBSET Slots
  BY DEF Missing
<1>3. IsFiniteSet(Missing(o.ip, bns)) /\ Cardinality(Missing(o.ip, bns)) \in Nat
  BY <1>1, <1>2, FS_Subset, FS_CardinalityType
<1>4. Cardinality(Missing(o.ip, bns)) # 0
  BY <1>3, FS_EmptySet
<1>5. SUFFICES ASSUME DataBlocks \ o.used = {} PROVE FALSE
  OBVIOUS
<1>6. Cardinality(DataBlocks \ o.used) = 0
  BY <1>5, FS_EmptySet
<1>7. QED
  BY <1>3, <1>4, <1>6 DEF Room1

LEMMA TwoMore ==
  ASSUME NEW S, IsFiniteSet(S), NEW x, NEW y, NEW T, T = S \cup {x, y}
  PROVE  /\ IsFiniteSet(T) /\ Cardinality(S) \in Nat /\ Cardinality(T) \in Nat
         /\ Cardinality(T) <= Cardinality(S) + 2
<1>1. IsFiniteSet(S \cup {x}) /\ Cardinality(S \cup {x}) = IF x \in S THEN Cardinality(S) ELSE Cardinality(S) + 1
  BY FS_AddElement
<1>2. T = (S \cup {x}) \cup {y}
  OBVIOUS
<1>3. /\ IsFiniteSet(T)
      /\ Cardinality(T)
           = IF y \in S \cup {x} THEN Cardinality(S \cup {x}) ELSE Cardinality(S \cup {x}) + 1
  BY <1>1, <1>2, FS_AddElement
<1>4. Cardinality(S) \in Nat
  BY FS_CardinalityType
<1>5. QED
  BY <1>1, <1>3, <1>4

LEMMA OneMore ==
  ASSUME NEW S, IsFiniteSet(S), NEW x, NEW T, T = S \cup {x}
  PROVE  /\ IsFiniteSet(T) /\ Cardinality(S) \in Nat /\ Cardinality(T) \in Nat
         /\ Cardinality(T) <= Cardinality(S) + 1
<1>1. IsFiniteSet(T) /\ Cardinality(T) = IF x \in S THEN Cardinality(S) ELSE Cardinality(S) + 1
  BY FS_AddElement
<1>2. Cardinality(S) \in Nat
  BY FS_CardinalityType
<1>3. QED
  BY <1>1, <1>2

LEMMA IndirectIs ==
  ASSUME NEW o, GoodOp(o), NEW bns, NEW bn \in bns, bn \in 0..(MAXFILE - 1), Room1(o, bns)
  PROVE  LET o1 == bmapIndirect(o, bn)
         IN /\ GoodOp(o1) /\ Hung(o, o1) /\ Room1(o1, bns)
            /\ bn >= NDIRECT => SlotOf(o1.ip, MAXFILE) # 0
            /\ SlotOf(o1.ip, bn) = SlotOf(o.ip, bn)
            /\ \A m \in Nat : LogBound(o, m) => LogBound(o1, m)
<1>1. SlotOf(o.ip, MAXFILE) = o.ip.addrs[NDIRECT] /\ MAXFILE \in Slots /\ bn \in Slots /\ bn # MAXFILE
  BY FileSizes DEF SlotOf, Slots
<1>2. CASE ~(bn >= NDIRECT /\ o.ip.addrs[NDIRECT] = 0)
  <2>1. bmapIndirect(o, bn) = o
    BY <1>2 DEF bmapIndirect
  <2>2. QED
    BY <1>1, <1>2, <2>1, HungSame
<1>3. CASE bn >= NDIRECT /\ o.ip.addrs[NDIRECT] = 0
  <2>1. PICK o1 : o1 = [balloc(o) EXCEPT !.ip.addrs[NDIRECT] = FreeBlock(o.used)]
    OBVIOUS
  <2>2. bmapIndirect(o, bn) = o1
    BY <1>3, <2>1 DEF bmapIndirect
  <2>3. MAXFILE \in Missing(o.ip, bns)
    BY <1>1, <1>3 DEF Missing
  <2>4. DataBlocks \ o.used # {} /\ o \in OpType /\ IsFiniteSet(o.log) /\ NDIRECT \in 0..NDIRECT
    BY <2>3, RoomLeft, FileSizes DEF GoodOp
  <2>5. /\ Attached(o, o1, MAXFILE) /\ o1 \in OpType
        /\ o1.log = o.log \cup {BBLOCK(SlotOf(o1.ip, MAXFILE)), <<"data", SlotOf(o1.ip, MAXFILE)>>}
    BY <2>1, <2>4, HangsAddr
  <2>6. IsFiniteSet(o1.log) /\ Cardinality(o1.log) <= Cardinality(o.log) + 2
        /\ Cardinality(o1.log) \in Nat /\ Cardinality(o.log) \in Nat
    BY <2>4, <2>5, TwoMore, Zenon
  <2>7. MAXFILE \notin NDIRECT..(MAXFILE - 1)
    BY FileSizes
  <2>8. /\ GoodOp(o1) /\ Hung(o, o1) /\ SlotOf(o1.ip, MAXFILE) # 0
        /\ \A all : MAXFILE \in Missing(o.ip, all) /\ Room1(o, all) => Room1(o1, all)
    BY <1>1, <1>3, <2>5, <2>6, <2>7, AttachedHangs
  <2>9. SlotOf(o1.ip, bn) = SlotOf(o.ip, bn)
    BY <1>1, <2>5 DEF Attached
  <2>10. ASSUME NEW m \in Nat, LogBound(o, m)
         PROVE  LogBound(o1, m)
    <3>1. ~IndLogged(o) /\ IndLogged(o1)
      BY <1>1, <1>3, <2>5, <2>8 DEF IndLogged
    <3>2. QED
      BY <2>6, <2>10, <3>1 DEF LogBound
  <2>11. QED
    BY <2>2, <2>3, <2>8, <2>9, <2>10
<1>4. QED
  BY <1>2, <1>3

LEMMA BmapBlockIs ==
  ASSUME NEW o, GoodOp(o), NEW bns, NEW bn \in bns, bn \in 0..(MAXFILE - 1), Room1(o, bns),
         bn >= NDIRECT => SlotOf(o.ip, MAXFILE) # 0
  PROVE  LET o1 == bmapBlock(o, bn)
         IN /\ GoodOp(o1) /\ Hung(o, o1) /\ Room1(o1, bns) /\ SlotOf(o1.ip, bn) # 0
            /\ IF SlotOf(o.ip, bn) # 0 THEN o1 = o
               ELSE /\ <<"data", SlotOf(o1.ip, bn)>> \in o1.log
                    /\ \A m \in Nat : LogBound(o, m) => LogBound(o1, m + 2)
<1>1. SlotOf(o.ip, bn) = BlockAt(o.ip, bn) /\ bn \in Slots /\ bn # MAXFILE /\ MAXFILE \in Slots
  BY FileSizes DEF SlotOf, Slots
<1>2. CASE SlotOf(o.ip, bn) # 0
  <2>1. bmapBlock(o, bn) = o
    BY <1>1, <1>2 DEF bmapBlock
  <2>2. QED
    BY <1>2, <2>1, HungSame
<1>3. CASE SlotOf(o.ip, bn) = 0
  <2>1. bn \in Missing(o.ip, bns)
    BY <1>1, <1>3 DEF Missing
  <2>2. DataBlocks \ o.used # {} /\ o \in OpType /\ IsFiniteSet(o.log)
    BY <2>1, RoomLeft DEF GoodOp
  <2>3. PICK o1 : o1 = bmapBlock(o, bn)
    OBVIOUS
  <2>4. \E h \in LogNames :
          /\ Attached(o, o1, bn) /\ o1 \in OpType
          /\ o1.log = o.log \cup {BBLOCK(SlotOf(o1.ip, bn)), <<"data", SlotOf(o1.ip, bn)>>} \cup {h}
          /\ \/ h = <<"data", SlotOf(o1.ip, bn)>>
             \/ SlotOf(o1.ip, MAXFILE) # 0 /\ h = <<"data", SlotOf(o1.ip, MAXFILE)>>
    <3>1. CASE bn < NDIRECT
      <4>1. o1 = [balloc(o) EXCEPT !.ip.addrs[bn] = FreeBlock(o.used)]
        BY <1>1, <1>3, <2>3, <3>1 DEF bmapBlock
      <4>2. bn \in 0..NDIRECT /\ bn # NDIRECT
        BY <3>1, FileSizes
      <4>3. /\ Attached(o, o1, bn) /\ o1 \in OpType
            /\ o1.log = o.log \cup {BBLOCK(SlotOf(o1.ip, bn)), <<"data", SlotOf(o1.ip, bn)>>}
        BY <2>2, <4>1, <4>2, HangsAddr
      <4>4. SlotOf(o1.ip, bn) \in DataBlocks
        BY <4>3 DEF Attached
      <4>5. <<"data", SlotOf(o1.ip, bn)>> \in LogNames
        BY <4>4, BitmapName
      <4>6. o1.log = o.log \cup {BBLOCK(SlotOf(o1.ip, bn)), <<"data", SlotOf(o1.ip, bn)>>}
                       \cup {<<"data", SlotOf(o1.ip, bn)>>}
        BY <4>3
      <4>7. QED
        BY <4>3, <4>5, <4>6
    <3>2. CASE ~(bn < NDIRECT)
      <4>1. PICK h : h = <<"data", o.ip.addrs[NDIRECT]>>
        OBVIOUS
      <4>2. bn \in NDIRECT..(MAXFILE - 1) /\ bn >= NDIRECT
        BY <3>2, FileSizes
      <4>3. SlotOf(o.ip, MAXFILE) = o.ip.addrs[NDIRECT] /\ o.ip.addrs[NDIRECT] # 0
        BY <4>2 DEF SlotOf
      <4>4. SlotOf(o.ip, MAXFILE) \in DataBlocks
        <5>1. o.ip \in InodeType
          BY <2>2 DEF OpType
        <5>2. QED
          BY <1>1, <4>3, <5>1, SlotType DEF Addrs
      <4>5. h \in LogNames
        BY <4>1, <4>3, <4>4, BitmapName
      <4>6. o1 = [balloc(o) EXCEPT !.ip.ind[bn - NDIRECT] = FreeBlock(o.used), !.log = @ \cup {h}]
        BY <1>1, <1>3, <2>3, <3>2, <4>1 DEF bmapBlock
      <4>7. /\ Attached(o, o1, bn) /\ o1 \in OpType
            /\ o1.log = o.log \cup {BBLOCK(SlotOf(o1.ip, bn)), <<"data", SlotOf(o1.ip, bn)>>} \cup {h}
        <5>0. PICK n \in 0..(NINDIRECT - 1) : n = bn - NDIRECT /\ bn = n + NDIRECT
          BY <4>2, FileSizes
        <5> DEFINE o2 == [balloc(o) EXCEPT !.ip.ind[n] = FreeBlock(o.used), !.log = @ \cup {h}]
        <5>1. /\ Attached(o, o2, n + NDIRECT) /\ o2 \in OpType
              /\ o2.log = o.log \cup {BBLOCK(SlotOf(o2.ip, n + NDIRECT)),
                                     <<"data", SlotOf(o2.ip, n + NDIRECT)>>} \cup {h}
          BY <2>2, <4>5, HangsInd, Zenon
        <5>2. o2 = o1
          BY <4>6, <5>0
        <5> HIDE DEF o2
        <5>3. QED
          BY <5>0, <5>1, <5>2
      <4>8. SlotOf(o1.ip, MAXFILE) = SlotOf(o.ip, MAXFILE)
        BY <1>1, <4>7 DEF Attached
      <4>9. QED
        BY <4>1, <4>3, <4>5, <4>7, <4>8
    <3>3. QED
      BY <3>1, <3>2
  <2>5. PICK h \in LogNames :
          /\ Attached(o, o1, bn) /\ o1 \in OpType
          /\ o1.log = o.log \cup {BBLOCK(SlotOf(o1.ip, bn)), <<"data", SlotOf(o1.ip, bn)>>} \cup {h}
          /\ \/ h = <<"data", SlotOf(o1.ip, bn)>>
             \/ SlotOf(o1.ip, MAXFILE) # 0 /\ h = <<"data", SlotOf(o1.ip, MAXFILE)>>
    BY <2>4
  <2> DEFINE L == o.log \cup {BBLOCK(SlotOf(o1.ip, bn)), <<"data", SlotOf(o1.ip, bn)>>}
  <2>6. /\ IsFiniteSet(L) /\ Cardinality(L) <= Cardinality(o.log) + 2
        /\ Cardinality(L) \in Nat /\ Cardinality(o.log) \in Nat
    BY <2>2, TwoMore, Zenon
  <2>7. /\ IsFiniteSet(o1.log) /\ Cardinality(o1.log) \in Nat
        /\ Cardinality(o1.log) <= Cardinality(L) + 1
    <3>1. o1.log = L \cup {h}
      BY <2>5
    <3> HIDE DEF L
    <3>2. QED
      BY <2>6, <3>1, OneMore, Zenon
  <2>8. /\ GoodOp(o1) /\ Hung(o, o1) /\ SlotOf(o1.ip, bn) # 0
        /\ \A all : bn \in Missing(o.ip, all) /\ Room1(o, all) => Room1(o1, all)
    <3>1. bn \in NDIRECT..(MAXFILE - 1) => SlotOf(o.ip, MAXFILE) # 0
      BY FileSizes
    <3>2. QED
      BY <1>1, <1>3, <2>5, <2>7, <3>1, AttachedHangs
  <2>9. <<"data", SlotOf(o1.ip, bn)>> \in o1.log
    BY <2>5
  <2>10. ASSUME NEW m \in Nat, LogBound(o, m)
         PROVE  LogBound(o1, m + 2)
    <3>1. IndLogged(o) => IndLogged(o1)
      <4>1. SlotOf(o1.ip, MAXFILE) = SlotOf(o.ip, MAXFILE)
        BY <1>1, <2>5 DEF Attached
      <4>2. o.log \subseteq o1.log
        BY <2>5
      <4>3. QED
        BY <4>1, <4>2 DEF IndLogged
    <3>2. CASE h \in L
      <4>1. o1.log = L
        BY <2>5, <3>2
      <4> HIDE DEF L
      <4>2. QED
        BY <2>6, <2>10, <3>1, <4>1 DEF LogBound
    <3>3. CASE h \notin L
      <4>1. IndLogged(o1) /\ ~IndLogged(o)
        <5>1. SlotOf(o1.ip, MAXFILE) # 0 /\ h = <<"data", SlotOf(o1.ip, MAXFILE)>>
          BY <2>5, <3>3
        <5>2. SlotOf(o1.ip, MAXFILE) = SlotOf(o.ip, MAXFILE)
          BY <1>1, <2>5 DEF Attached
        <5>3. h \in o1.log /\ h \notin o.log
          BY <2>5, <3>3
        <5>4. QED
          BY <5>1, <5>2, <5>3 DEF IndLogged
      <4> HIDE DEF L
      <4>2. QED
        BY <2>6, <2>7, <2>10, <4>1 DEF LogBound
    <3>4. QED
      BY <3>2, <3>3
  <2>11. QED
    BY <1>3, <2>1, <2>3, <2>8, <2>9, <2>10
<1>4. QED
  BY <1>2, <1>3

LEMMA BmapIs ==
  ASSUME NEW o, GoodOp(o), NEW bns, NEW bn \in bns, bn \in 0..(MAXFILE - 1), Room1(o, bns)
  PROVE  LET o1 == bmap(o, bn)
         IN /\ GoodOp(o1) /\ Hung(o, o1) /\ Room1(o1, bns) /\ SlotOf(o1.ip, bn) # 0
            /\ IF SlotOf(o.ip, bn) # 0 THEN \A m \in Nat : LogBound(o, m) => LogBound(o1, m)
               ELSE /\ <<"data", SlotOf(o1.ip, bn)>> \in o1.log
                    /\ \A m \in Nat : LogBound(o, m) => LogBound(o1, m + 2)
<1>1. PICK o1 : o1 = bmapIndirect(o, bn)
  OBVIOUS
<1>2. /\ GoodOp(o1) /\ Hung(o, o1) /\ Room1(o1, bns)
      /\ bn >= NDIRECT => SlotOf(o1.ip, MAXFILE) # 0
      /\ SlotOf(o1.ip, bn) = SlotOf(o.ip, bn)
      /\ \A m \in Nat : LogBound(o, m) => LogBound(o1, m)
  BY <1>1, IndirectIs
<1>3. PICK o2 : o2 = bmapBlock(o1, bn)
  OBVIOUS
<1>4. /\ GoodOp(o2) /\ Hung(o1, o2) /\ Room1(o2, bns) /\ SlotOf(o2.ip, bn) # 0
      /\ IF SlotOf(o1.ip, bn) # 0 THEN o2 = o1
         ELSE /\ <<"data", SlotOf(o2.ip, bn)>> \in o2.log
              /\ \A m \in Nat : LogBound(o1, m) => LogBound(o2, m + 2)
  BY <1>2, <1>3, BmapBlockIs
<1>5. 0 \notin o1.used
  BY <1>2, FileSizes DEF GoodOp, OpType
<1>6. Hung(o, o2)
  BY <1>2, <1>4, <1>5, HungTrans
<1>7. bmap(o, bn) = o2
  BY <1>1, <1>3 DEF bmap
<1>8. QED
  BY <1>2, <1>4, <1>6, <1>7

-----------------------------------------------------------------------------
(* One round of the loop of writei(), and its rounds. *)

\* A block's bytes after either_copyin().
Mixed(c, bn, from, to, byte) ==
  [k \in 0..(BSIZE - 1) |-> IF bn * BSIZE + k \in from..(to - 1) THEN byte ELSE c[k]]

LEMMA CopyinIs ==
  ASSUME NEW o \in OpType, NEW bn, SlotOf(o.ip, bn) \in DataBlocks, bn # MAXFILE, NEW from, NEW to,
         NEW byte \in Writers
  PROVE  LET o1 == Copyin(o, bn, from, to, byte)
             b == SlotOf(o.ip, bn)
         IN /\ o1.ip = o.ip /\ o1.used = o.used /\ o1.logged = o.logged /\ o1.log = o.log
            /\ o1.cached = [o.cached EXCEPT ![b] = Mixed(o.cached[b], bn, from, to, byte)]
            /\ Mixed(o.cached[b], bn, from, to, byte) \in Contents
            /\ o1 \in OpType
<1>1. PICK b \in DataBlocks : b = SlotOf(o.ip, bn) /\ b = BlockAt(o.ip, bn)
  BY DEF SlotOf
<1>2. o.cached[b] \in Contents
  BY <1>1 DEF OpType
<1>3. PICK c : c = Mixed(o.cached[b], bn, from, to, byte)
  OBVIOUS
<1>4. c \in Contents
  BY <1>2, <1>3 DEF Contents, Mixed
<1>5. c = [k \in DOMAIN o.cached[b] |->
             IF bn * BSIZE + k \in from..(to - 1) THEN byte ELSE o.cached[b][k]]
  <2>1. DOMAIN o.cached[b] = 0..(BSIZE - 1)
    BY <1>2 DEF Contents
  <2>2. QED
    BY <1>3, <2>1 DEF Mixed
<1>6. PICK o1 : o1 = [o EXCEPT !.cached[b] = c]
  OBVIOUS
<1>7. Copyin(o, bn, from, to, byte) = o1
  BY <1>1, <1>5, <1>6, Zenon DEF Copyin
<1>8. /\ DOMAIN o1 = {"ip", "used", "cached", "logged", "log"}
      /\ o1 = [x \in {"ip", "used", "cached", "logged", "log"} |-> o1[x]]
  BY <1>6 DEF OpType
<1>9. o1.ip = o.ip /\ o1.used = o.used /\ o1.logged = o.logged /\ o1.log = o.log
  BY <1>6 DEF OpType
<1>10. o1.cached = [o.cached EXCEPT ![b] = c]
  BY <1>6 DEF OpType
<1>11. o1 \in OpType
  <2>1. o1.cached \in [DataBlocks -> Contents]
    BY <1>4, <1>10 DEF OpType
  <2>2. /\ o1.ip \in InodeType /\ o1.used \in SUBSET DataBlocks
        /\ o1.logged \in [DataBlocks -> Contents] /\ o1.log \in SUBSET LogNames
    BY <1>9 DEF OpType
  <2>3. QED
    BY <1>8, <2>1, <2>2, OpFields
<1>12. QED
  BY <1>1, <1>3, <1>4, <1>7, <1>9, <1>10, <1>11

LEMMA LogWriteIs ==
  ASSUME NEW o \in OpType, NEW bn, SlotOf(o.ip, bn) \in DataBlocks, bn # MAXFILE
  PROVE  LET o1 == log_write(o, bn)
             b == SlotOf(o.ip, bn)
         IN /\ o1.ip = o.ip /\ o1.used = o.used /\ o1.cached = o.cached
            /\ o1.logged = [o.logged EXCEPT ![b] = o.cached[b]]
            /\ o1.log = o.log \cup {<<"data", b>>}
            /\ o1 \in OpType
<1>1. PICK b \in DataBlocks : b = SlotOf(o.ip, bn) /\ b = BlockAt(o.ip, bn)
  BY DEF SlotOf
<1>2. PICK c, h : c = o.cached[b] /\ h = <<"data", b>>
  OBVIOUS
<1>3. c \in Contents /\ h \in LogNames
  BY <1>2, BitmapName DEF OpType
<1>4. PICK o1 : o1 = [o EXCEPT !.logged[b] = c, !.log = @ \cup {h}]
  OBVIOUS
<1>5. log_write(o, bn) = o1
  BY <1>1, <1>2, <1>4 DEF log_write
<1>6. /\ DOMAIN o1 = {"ip", "used", "cached", "logged", "log"}
      /\ o1 = [x \in {"ip", "used", "cached", "logged", "log"} |-> o1[x]]
  BY <1>4 DEF OpType
<1>7. o1.ip = o.ip /\ o1.used = o.used /\ o1.cached = o.cached
  BY <1>4 DEF OpType
<1>8. o1.logged = [o.logged EXCEPT ![b] = c]
  BY <1>4 DEF OpType
<1>9. o1.log = o.log \cup {h}
  BY <1>4 DEF OpType
<1>10. o1 \in OpType
  <2>1. o1.logged \in [DataBlocks -> Contents] /\ o1.log \in SUBSET LogNames
    BY <1>3, <1>8, <1>9 DEF OpType
  <2>2. /\ o1.ip \in InodeType /\ o1.used \in SUBSET DataBlocks
        /\ o1.cached \in [DataBlocks -> Contents]
    BY <1>7 DEF OpType
  <2>3. QED
    BY <1>6, <2>1, <2>2, OpFields
<1>11. QED
  BY <1>1, <1>2, <1>5, <1>7, <1>8, <1>9, <1>10

LEMMA RoundIs ==
  ASSUME NEW o, GoodOp(o), NEW bns, NEW bn \in bns, bn \in 0..(MAXFILE - 1), Room1(o, bns),
         NEW from, NEW to, NEW byte \in Writers
  PROVE  LET o1 == bmap(o, bn)
             o2 == WriteBlock(o, bn, from, to, byte)
             b == SlotOf(o1.ip, bn)
         IN /\ GoodOp(o2) /\ o2.ip = o1.ip /\ o2.used = o1.used /\ b \in DataBlocks
            /\ o2.cached = [o1.cached EXCEPT ![b] = Mixed(o1.cached[b], bn, from, to, byte)]
            /\ o2.logged = [o1.logged EXCEPT ![b] = Mixed(o1.cached[b], bn, from, to, byte)]
            /\ \A m \in Nat : LogBound(o, m) =>
                 LogBound(o2, m + (IF SlotOf(o.ip, bn) = 0 THEN 2 ELSE 1))
<1>1. PICK o1 : o1 = bmap(o, bn)
  OBVIOUS
<1>2. /\ GoodOp(o1) /\ Hung(o, o1) /\ Room1(o1, bns) /\ SlotOf(o1.ip, bn) # 0
      /\ IF SlotOf(o.ip, bn) # 0 THEN \A m \in Nat : LogBound(o, m) => LogBound(o1, m)
         ELSE /\ <<"data", SlotOf(o1.ip, bn)>> \in o1.log
              /\ \A m \in Nat : LogBound(o, m) => LogBound(o1, m + 2)
  BY <1>1, BmapIs
<1>3. PICK b : b = SlotOf(o1.ip, bn)
  OBVIOUS
<1>4. b \in DataBlocks /\ bn # MAXFILE /\ bn \in Slots /\ o1 \in OpType
  <2>1. bn \in Slots /\ bn # MAXFILE
    BY FileSizes DEF Slots
  <2>2. o1.ip \in InodeType
    BY <1>2 DEF GoodOp, OpType
  <2>3. QED
    BY <1>2, <1>3, <2>1, <2>2, SlotType DEF Addrs, GoodOp
<1>5. PICK c : c = Mixed(o1.cached[b], bn, from, to, byte)
  OBVIOUS
<1>6. PICK p : p = Copyin(o1, bn, from, to, byte)
  OBVIOUS
<1>7. /\ p.ip = o1.ip /\ p.used = o1.used /\ p.logged = o1.logged /\ p.log = o1.log
      /\ p.cached = [o1.cached EXCEPT ![b] = c] /\ c \in Contents /\ p \in OpType
  BY <1>3, <1>4, <1>5, <1>6, CopyinIs
<1>8. PICK o2 : o2 = log_write(p, bn)
  OBVIOUS
<1>9. SlotOf(p.ip, bn) = b
  BY <1>3, <1>7
<1>10. /\ o2.ip = p.ip /\ o2.used = p.used /\ o2.cached = p.cached
       /\ o2.logged = [p.logged EXCEPT ![b] = p.cached[b]]
       /\ o2.log = p.log \cup {<<"data", b>>} /\ o2 \in OpType
  BY <1>4, <1>7, <1>8, <1>9, LogWriteIs
<1>11. p.cached[b] = c
  BY <1>4, <1>7 DEF OpType
<1>12. o2.log = o1.log \cup {<<"data", b>>} /\ o2.ip = o1.ip /\ o2.used = o1.used
  BY <1>7, <1>10
<1>13. IsFiniteSet(o2.log) /\ Cardinality(o1.log) \in Nat /\ Cardinality(o2.log) \in Nat
       /\ Cardinality(o2.log) <= Cardinality(o1.log) + 1
  <2>1. IsFiniteSet(o1.log)
    BY <1>2 DEF GoodOp
  <2>2. QED
    BY <2>1, <1>12, OneMore, Zenon
<1>14. GoodOp(o2)
  BY <1>2, <1>10, <1>12, <1>13 DEF GoodOp
<1>15. IndLogged(o1) => IndLogged(o2)
  BY <1>12 DEF IndLogged
<1>16. ASSUME NEW m \in Nat, LogBound(o, m)
       PROVE  LogBound(o2, m + (IF SlotOf(o.ip, bn) = 0 THEN 2 ELSE 1))
  <2>1. CASE SlotOf(o.ip, bn) = 0
    <3>1. LogBound(o1, m + 2)
      BY <1>2, <1>16, <2>1
    <3>2. o2.log = o1.log
      BY <1>2, <1>3, <1>12, <2>1
    <3>3. LogBound(o2, m + 2)
      BY <1>13, <1>15, <3>1, <3>2 DEF LogBound
    <3>4. QED
      BY <2>1, <3>3
  <2>2. CASE SlotOf(o.ip, bn) # 0
    <3>1. LogBound(o1, m)
      BY <1>2, <1>16, <2>2
    <3>2. LogBound(o2, m + 1)
      BY <1>13, <1>15, <3>1 DEF LogBound
    <3>3. QED
      BY <2>2, <3>2
  <2>3. QED
    BY <2>1, <2>2
<1>17. WriteBlock(o, bn, from, to, byte) = o2
  BY <1>1, <1>6, <1>8 DEF WriteBlock
<1>18. QED
  BY <1>1, <1>3, <1>4, <1>5, <1>7, <1>10, <1>11, <1>12, <1>14, <1>16, <1>17

-----------------------------------------------------------------------------
(* The loop is a recursive function; that there is such a function is shown here, from the   *)
(* least number up to which there is none.                                                *)

Round(o, k, from, n, byte) == WriteBlock(o, from \div BSIZE + k - 1, from, from + n, byte)
UpTo(g, m, op, from, n, byte) ==
  g = [k \in 0..m |-> IF k = 0 THEN op ELSE Round(g[k - 1], k, from, n, byte)]
IsLoop(f, op, from, n, byte) ==
  f = [k \in Nat |-> IF k = 0 THEN op ELSE Round(f[k - 1], k, from, n, byte)]

LEMMA LoopExists ==
  ASSUME NEW op, NEW from, NEW n, NEW byte
  PROVE  \E f : IsLoop(f, op, from, n, byte)
<1> DEFINE P(g, m) == UpTo(g, m, op, from, n, byte)
           W(o, k) == Round(o, k, from, n, byte)
<1>1. ASSUME NEW g, NEW m \in Nat, P(g, m)
      PROVE  /\ g[0] = op /\ DOMAIN g = 0..m
             /\ \A k \in 1..m : g[k] = W(g[k - 1], k)
             /\ g = [k \in 0..m |-> g[k]]
  <2>1. g = [k \in 0..m |-> IF k = 0 THEN op ELSE W(g[k - 1], k)]
    BY <1>1 DEF UpTo
  <2> HIDE DEF W
  <2>2. QED
    BY <2>1
<1>2. \A m \in Nat : \E g : P(g, m)
  <2> DEFINE T == {m \in Nat : ~\E g : P(g, m)}
  <2>1. SUFFICES ASSUME T # {} PROVE FALSE
    OBVIOUS
  <2>2. PICK m \in T : \A k \in T : m <= k
    BY <2>1, LeastNat
  <2>3. m # 0
    <3>1. P([k \in 0..0 |-> op], 0)
      BY DEF UpTo
    <3>2. QED
      BY <3>1
  <2>4. m - 1 \in Nat /\ m - 1 \notin T
    BY <2>2, <2>3
  <2>5. PICK g : P(g, m - 1)
    BY <2>4
  <2>6. /\ g[0] = op /\ \A k \in 1..(m - 1) : g[k] = W(g[k - 1], k)
    BY <1>1, <2>4, <2>5
  <2>7. PICK h : h = [k \in 0..m |-> IF k = m THEN W(g[m - 1], m) ELSE g[k]]
    OBVIOUS
  <2> HIDE DEF W
  <2>8. h = [k \in 0..m |-> IF k = 0 THEN op ELSE W(h[k - 1], k)]
    <3>1. \A k \in 0..m : h[k] = IF k = 0 THEN op ELSE W(h[k - 1], k)
      <4>1. ASSUME NEW k \in 0..m
            PROVE  h[k] = IF k = 0 THEN op ELSE W(h[k - 1], k)
        <5>1. CASE k = 0
          BY <5>1, <2>2, <2>3, <2>6, <2>7
        <5>2. CASE k # 0
          <6>1. k - 1 \in 0..m /\ k - 1 # m /\ m \in Nat
            BY <5>2, <2>2
          <6>2. h[k - 1] = g[k - 1]
            BY <6>1, <2>7
          <6>3. CASE k = m
            BY <6>2, <6>3, <5>2, <2>7
          <6>4. CASE k # m
            <7>1. k \in 1..(m - 1)
              BY <6>1, <6>4, <5>2
            <7>2. h[k] = g[k]
              BY <6>4, <2>7
            <7>3. QED
              BY <7>1, <7>2, <6>2, <5>2, <2>6
          <6>5. QED
            BY <6>3, <6>4
        <5>3. QED
          BY <5>1, <5>2
      <4>2. QED
        BY <4>1
    <3>2. h = [k \in 0..m |-> h[k]]
      BY <2>7
    <3>3. QED
      BY <3>1, <3>2
  <2>9. P(h, m)
    BY <2>8, Zenon DEF W, UpTo
  <2>10. QED
    BY <2>2, <2>9
<1>3. ASSUME NEW g, NEW h, NEW m \in Nat, NEW l \in Nat, P(g, m), P(h, l), m <= l
      PROVE  g[m] = h[m]
  <2> DEFINE T == {k \in 0..m : g[k] # h[k]}
  <2>1. /\ g[0] = op /\ \A k \in 1..m : g[k] = W(g[k - 1], k)
        /\ h[0] = op /\ \A k \in 1..l : h[k] = W(h[k - 1], k)
    BY <1>1, <1>3
  <2>2. SUFFICES ASSUME T # {} PROVE FALSE
    OBVIOUS
  <2>3. T \in SUBSET Nat
    OBVIOUS
  <2>4. PICK k \in T : \A j \in T : k <= j
    BY <2>2, <2>3, LeastNat
  <2> HIDE DEF W
  <2>5. k # 0
    BY <2>1, <2>4
  <2>6. k - 1 \in 0..m /\ k - 1 \notin T /\ k \in 1..m /\ k \in 1..l
    BY <2>4, <2>5, <1>3
  <2>7. g[k - 1] = h[k - 1]
    BY <2>6
  <2>8. QED
    BY <2>1, <2>4, <2>6, <2>7
<1>4. PICK f : f = [m \in Nat |-> (CHOOSE g : P(g, m))[m]]
  OBVIOUS
<1>5. \A m \in Nat : \E g : P(g, m) /\ f[m] = g[m]
  <2> HIDE DEF P
  <2>1. QED
    BY <1>2, <1>4
<1>6. f[0] = op
  <2>1. PICK g : P(g, 0) /\ f[0] = g[0]
    BY <1>5, Zenon
  <2>2. QED
    BY <1>1, <2>1
<1>7. ASSUME NEW k \in Nat, k # 0
      PROVE  f[k] = W(f[k - 1], k)
  <2>1. k - 1 \in Nat /\ k \in 1..k /\ k - 1 <= k
    BY <1>7
  <2>2. PICK g : P(g, k) /\ f[k] = g[k]
    BY <1>5
  <2>3. PICK h : P(h, k - 1) /\ f[k - 1] = h[k - 1]
    BY <1>5, <2>1, Zenon
  <2>4. h[k - 1] = g[k - 1]
    BY <1>3, <2>1, <2>2, <2>3
  <2>5. g[k] = W(g[k - 1], k)
    BY <1>1, <2>1, <2>2
  <2>6. QED
    BY <2>2, <2>3, <2>4, <2>5
<1>8. f = [k \in Nat |-> IF k = 0 THEN op ELSE W(f[k - 1], k)]
  <2>1. f = [k \in Nat |-> f[k]]
    BY <1>4
  <2> HIDE DEF W
  <2>2. \A k \in Nat : f[k] = IF k = 0 THEN op ELSE W(f[k - 1], k)
    BY <1>6, <1>7
  <2>3. QED
    BY <2>1, <2>2
<1>9. QED
  BY <1>8, Zenon DEF IsLoop

Rounds(f, op, from, n, byte) ==
  /\ f[0] = op
  /\ \A k \in Nat \ {0} : f[k] = Round(f[k - 1], k, from, n, byte)
  /\ WriteBlocks(op, from, n, byte) = f[Cardinality(BlockNumbers(from, n))]

LEMMA WriteLoop ==
  ASSUME NEW op, NEW from, NEW n, NEW byte
  PROVE  \E f : Rounds(f, op, from, n, byte)
<1>1. PICK f : f = CHOOSE g : IsLoop(g, op, from, n, byte)
  OBVIOUS
<1>2. f = [k \in Nat |-> IF k = 0 THEN op ELSE Round(f[k - 1], k, from, n, byte)]
  <2>1. \E g : IsLoop(g, op, from, n, byte)
    BY LoopExists, Zenon
  <2>2. IsLoop(f, op, from, n, byte)
    BY <1>1, <2>1
  <2>3. QED
    BY <2>2 DEF IsLoop
<1>3. WriteBlocks(op, from, n, byte) = f[Cardinality(BlockNumbers(from, n))]
  BY <1>1, Zenon DEF WriteBlocks, Round, IsLoop
<1>4. f[0] = op
  BY <1>2
<1>5. \A k \in Nat \ {0} : f[k] = Round(f[k - 1], k, from, n, byte)
  BY <1>2
<1>6. QED
  BY <1>3, <1>4, <1>5 DEF Rounds

\* What the file has after some rounds that it had not when the loop began.
Grown(o0, o) ==
  /\ o.ip.size = o0.ip.size /\ o0.used \subseteq o.used
  /\ \A j \in Slots : SlotOf(o0.ip, j) # 0 => SlotOf(o.ip, j) = SlotOf(o0.ip, j)
  /\ \A j \in Slots : SlotOf(o0.ip, j) = 0 /\ SlotOf(o.ip, j) # 0 => SlotOf(o.ip, j) \notin o0.used
  /\ \A b \in o.used \ o0.used : \E j \in Slots : SlotOf(o.ip, j) = b

\* Block bn of the file has been written, and logged; it is as it was.
WrittenAt(o0, o, bn, from, to, byte) ==
  LET b == SlotOf(o.ip, bn) IN
  /\ b # 0 /\ o.cached[b] = o.logged[b]
  /\ \A i \in 0..(BSIZE - 1) :
       IF bn * BSIZE + i \in from..(to - 1) THEN o.cached[b][i] = byte
       ELSE SlotOf(o0.ip, bn) # 0 => o.cached[b][i] = o0.cached[b][i]
KeptAt(o0, o, bn) ==
  LET b == SlotOf(o0.ip, bn) IN b # 0 => o.cached[b] = o0.cached[b] /\ o.logged[b] = o0.logged[b]

\* A round logs two blocks at most, the first one but one if it only fills up a block.
LogOf(o0, first, k) == IF k = 0 THEN 0 ELSE 2 * k - (IF SlotOf(o0.ip, first) # 0 THEN 1 ELSE 0)

LoopInv(o0, o, from, to, byte, first, k, bns) ==
  /\ GoodOp(o) /\ Grown(o0, o) /\ Room1(o, bns)
  /\ \A bn \in 0..(MAXFILE - 1) :
       IF bn \in first..(first + k - 1) THEN WrittenAt(o0, o, bn, from, to, byte)
       ELSE KeptAt(o0, o, bn)
  /\ LogBound(o, LogOf(o0, first, k))

LEMMA GrownHung ==
  ASSUME NEW o0, NEW o, NEW o1, 0 \notin o.used, Grown(o0, o), Hung(o, o1)
  PROVE  Grown(o0, o1)
<1>1. o1.ip.size = o0.ip.size /\ o0.used \subseteq o1.used
  BY DEF Grown, Hung
<1>2. \A j \in Slots : SlotOf(o0.ip, j) # 0 => SlotOf(o1.ip, j) = SlotOf(o0.ip, j)
  BY DEF Grown, Hung
<1>3. \A j \in Slots : SlotOf(o0.ip, j) = 0 /\ SlotOf(o1.ip, j) # 0 => SlotOf(o1.ip, j) \notin o0.used
  BY DEF Grown, Hung
<1>4. ASSUME NEW b \in o1.used \ o0.used
      PROVE  \E j \in Slots : SlotOf(o1.ip, j) = b
  <2>1. CASE b \in o.used
    <3>1. PICK j \in Slots : SlotOf(o.ip, j) = b
      BY <1>4, <2>1 DEF Grown
    <3>2. b # 0
      BY <2>1
    <3>3. QED
      BY <3>1, <3>2 DEF Hung
  <2>2. CASE b \notin o.used
    BY <1>4, <2>2 DEF Hung
  <2>3. QED
    BY <2>1, <2>2
<1>5. QED
  BY <1>1, <1>2, <1>3, <1>4 DEF Grown

LEMMA LogMonotone ==
  ASSUME NEW o, GoodOp(o), NEW m \in Int, NEW l \in Int, m <= l, LogBound(o, m)
  PROVE  LogBound(o, l)
<1>1. Cardinality(o.log) \in Nat
  BY FS_CardinalityType DEF GoodOp
<1>2. QED
  BY <1>1 DEF LogBound

LEMMA LoopStep ==
  ASSUME NEW o0, GoodOp(o0), NEW o, NEW from, NEW to, NEW byte \in Writers,
         NEW first \in Nat, NEW k \in Nat, NEW bns, first + k \in bns, first + k \in 0..(MAXFILE - 1),
         LoopInv(o0, o, from, to, byte, first, k, bns)
  PROVE  LoopInv(o0, WriteBlock(o, first + k, from, to, byte), from, to, byte, first, k + 1, bns)
<1>1. PICK bn : bn = first + k
  OBVIOUS
<1>2. bn \in bns /\ bn \in 0..(MAXFILE - 1) /\ bn \in Slots /\ bn # MAXFILE /\ bn \in Nat
  BY <1>1, FileSizes DEF Slots
<1>3. GoodOp(o) /\ Room1(o, bns) /\ Grown(o0, o)
  BY DEF LoopInv
<1>4. PICK o1 : o1 = bmap(o, bn)
  OBVIOUS
<1>5. GoodOp(o1) /\ Hung(o, o1) /\ Room1(o1, bns)
  BY <1>2, <1>3, <1>4, BmapIs
<1>6. PICK b : b = SlotOf(o1.ip, bn)
  OBVIOUS
<1>7. PICK c : c = Mixed(o1.cached[b], bn, from, to, byte)
  OBVIOUS
<1>8. PICK o2 : o2 = WriteBlock(o, bn, from, to, byte)
  OBVIOUS
<1>9. /\ GoodOp(o2) /\ o2.ip = o1.ip /\ o2.used = o1.used /\ b \in DataBlocks
      /\ o2.cached = [o1.cached EXCEPT ![b] = c]
      /\ o2.logged = [o1.logged EXCEPT ![b] = c]
      /\ \A m \in Nat : LogBound(o, m) => LogBound(o2, m + (IF SlotOf(o.ip, bn) = 0 THEN 2 ELSE 1))
  BY <1>2, <1>3, <1>4, <1>6, <1>7, <1>8, RoundIs
<1>10. /\ o1.cached \in [DataBlocks -> Contents] /\ o1.logged \in [DataBlocks -> Contents]
       /\ o.used \subseteq DataBlocks /\ 0 \notin o.used /\ b # 0 /\ o1.used \subseteq DataBlocks
  BY <1>3, <1>5, <1>9, FileSizes DEF GoodOp, OpType
<1>11. /\ o2.cached[b] = c /\ o2.logged[b] = c
       /\ \A a \in DataBlocks \ {b} : o2.cached[a] = o1.cached[a] /\ o2.logged[a] = o1.logged[a]
  BY <1>9, <1>10
<1>12. Grown(o0, o2)
  <2>1. Grown(o0, o1)
    BY <1>3, <1>5, <1>10, GrownHung
  <2>2. QED
    BY <2>1, <1>9 DEF Grown
<1>13. Room1(o2, bns)
  BY <1>5, <1>9 DEF Room1
<1>14. ASSUME NEW n \in 0..(MAXFILE - 1), n # bn, SlotOf(o.ip, n) # 0
       PROVE  LET a == SlotOf(o.ip, n)
              IN a = SlotOf(o2.ip, n) /\ o2.cached[a] = o.cached[a] /\ o2.logged[a] = o.logged[a]
  <2>1. PICK a : a = SlotOf(o.ip, n)
    OBVIOUS
  <2>2. n \in Slots
    BY FileSizes DEF Slots
  <2>3. a \in o.used /\ SlotOf(o1.ip, n) = a
    BY <1>3, <1>5, <1>14, <2>1, <2>2 DEF GoodOp, InUse, Hung
  <2>4. a # b
    BY <1>2, <1>5, <1>6, <1>10, <1>14, <2>2, <2>3 DEF GoodOp, WellHung
  <2>5. o1.cached[a] = o.cached[a] /\ o1.logged[a] = o.logged[a]
    BY <1>5, <2>3 DEF Hung
  <2>6. a \in DataBlocks
    BY <1>10, <2>3
  <2>7. QED
    BY <1>9, <1>11, <2>1, <2>3, <2>4, <2>5, <2>6
<1>15. WrittenAt(o0, o2, bn, from, to, byte)
  <2>1. ASSUME NEW i \in 0..(BSIZE - 1)
        PROVE  IF bn * BSIZE + i \in from..(to - 1) THEN c[i] = byte
               ELSE SlotOf(o0.ip, bn) # 0 => c[i] = o0.cached[b][i]
    <3>1. c[i] = IF bn * BSIZE + i \in from..(to - 1) THEN byte ELSE o1.cached[b][i]
      BY <1>7 DEF Mixed
    <3>2. ASSUME SlotOf(o0.ip, bn) # 0
          PROVE  o1.cached[b] = o0.cached[b]
      <4>1. SlotOf(o.ip, bn) = SlotOf(o0.ip, bn)
        BY <1>2, <1>3, <3>2 DEF Grown
      <4>2. SlotOf(o1.ip, bn) = SlotOf(o.ip, bn) /\ SlotOf(o.ip, bn) \in o.used
        BY <1>2, <1>3, <1>5, <3>2, <4>1 DEF Hung, GoodOp, InUse
      <4>3. KeptAt(o0, o, bn)
        <5>1. bn \notin first..(first + k - 1)
          BY <1>1
        <5>2. QED
          BY <1>2, <5>1 DEF LoopInv
      <4>4. o.cached[b] = o0.cached[b]
        BY <1>6, <3>2, <4>1, <4>2, <4>3 DEF KeptAt
      <4>5. o1.cached[b] = o.cached[b]
        BY <1>5, <1>6, <4>2 DEF Hung
      <4>6. QED
        BY <4>4, <4>5
    <3>3. QED
      BY <3>1, <3>2
  <2>2. SlotOf(o2.ip, bn) = b
    BY <1>6, <1>9
  <2>3. QED
    BY <1>10, <1>11, <2>1, <2>2, Zenon DEF WrittenAt
<1>16. ASSUME NEW n \in 0..(MAXFILE - 1)
       PROVE  IF n \in first..(first + k) THEN WrittenAt(o0, o2, n, from, to, byte)
              ELSE KeptAt(o0, o2, n)
  <2>0. n \in Slots
    BY FileSizes DEF Slots
  <2>1. CASE n = bn
    BY <1>1, <1>15, <2>1
  <2>2. CASE n # bn /\ n \in first..(first + k)
    <3>1. n \in first..(first + k - 1)
      BY <1>1, <2>2
    <3>2. WrittenAt(o0, o, n, from, to, byte)
      BY <3>1 DEF LoopInv
    <3>3. SlotOf(o.ip, n) # 0
      BY <3>2 DEF WrittenAt
    <3>4. PICK a : a = SlotOf(o.ip, n)
      OBVIOUS
    <3>5. a = SlotOf(o2.ip, n) /\ o2.cached[a] = o.cached[a] /\ o2.logged[a] = o.logged[a]
      BY <1>14, <2>2, <3>3, <3>4
    <3>6. WrittenAt(o0, o2, n, from, to, byte)
      BY <3>2, <3>4, <3>5 DEF WrittenAt
    <3>7. QED
      BY <2>2, <3>6
  <2>3. CASE n # bn /\ n \notin first..(first + k)
    <3>1. n \notin first..(first + k - 1)
      BY <1>2, <2>3
    <3>2. KeptAt(o0, o, n)
      BY <3>1 DEF LoopInv
    <3>3. ASSUME SlotOf(o0.ip, n) # 0
          PROVE  LET a == SlotOf(o0.ip, n)
                 IN o2.cached[a] = o0.cached[a] /\ o2.logged[a] = o0.logged[a]
      <4>1. SlotOf(o.ip, n) = SlotOf(o0.ip, n)
        BY <1>3, <2>0, <3>3 DEF Grown
      <4>2. QED
        BY <1>14, <2>3, <3>2, <3>3, <4>1 DEF KeptAt
    <3>4. KeptAt(o0, o2, n)
      BY <3>3 DEF KeptAt
    <3>5. QED
      BY <2>3, <3>4
  <2>4. QED
    BY <2>1, <2>2, <2>3
<1>17. LogBound(o2, LogOf(o0, first, k + 1))
  <2>1. PICK m \in Nat : m = LogOf(o0, first, k)
    BY DEF LogOf
  <2>2. LogBound(o2, m + (IF SlotOf(o.ip, bn) = 0 THEN 2 ELSE 1))
    BY <1>9, <2>1 DEF LoopInv
  <2>3. PICK d \in {1, 2} : d = (IF SlotOf(o.ip, bn) = 0 THEN 2 ELSE 1)
    OBVIOUS
  <2>4. m + d <= LogOf(o0, first, k + 1) /\ LogOf(o0, first, k + 1) \in Int
    <3>1. CASE k = 0
      <4>1. SlotOf(o0.ip, first) # 0 => SlotOf(o.ip, bn) # 0
        BY <1>1, <1>2, <1>3, <3>1 DEF Grown
      <4>2. QED
        BY <2>1, <2>3, <3>1, <4>1 DEF LogOf
    <3>2. CASE k # 0
      BY <2>1, <2>3, <3>2 DEF LogOf
    <3>3. QED
      BY <3>1, <3>2
  <2>5. LogBound(o2, m + d)
    BY <2>2, <2>3
  <2>6. m + d \in Int
    OBVIOUS
  <2>7. QED
    BY <1>9, <2>4, <2>5, <2>6, LogMonotone
<1>18. LoopInv(o0, o2, from, to, byte, first, k + 1, bns)
  <2>1. first + (k + 1) - 1 = first + k
    OBVIOUS
  <2>2. QED
    BY <1>9, <1>12, <1>13, <1>16, <1>17, <2>1 DEF LoopInv
<1>19. QED
  BY <1>1, <1>8, <1>18


-----------------------------------------------------------------------------
(* Which blocks a chunk falls into, and that the loop of writei() goes through them. *)

LEMMA DivBounds ==
  ASSUME NEW n \in Nat \ {0}, NEW a \in Nat
  PROVE  a \div n \in Nat /\ n * (a \div n) <= a /\ a < n * (a \div n) + n
<1>1. a = n * (a \div n) + (a % n) /\ a \div n \in Int /\ a % n \in 0..(n - 1)
  BY ModDiv
<1>2. PICK q \in Int : q = a \div n
  BY <1>1
<1>3. PICK x \in Int : x = n * q
  OBVIOUS
<1>4. a = x + (a % n)
  BY <1>1, <1>2, <1>3
<1>5. x <= a /\ a < x + n
  BY <1>1, <1>4
<1>6. q \in Nat
  <2>1. SUFFICES ASSUME q <= -1 PROVE FALSE
    OBVIOUS
  <2>2. n * q <= n * (-1)
    BY <2>1
  <2>3. QED
    BY <1>3, <1>5, <2>2
<1>7. QED
  BY <1>2, <1>3, <1>5, <1>6

LEMMA ProductMono ==
  ASSUME NEW n \in Nat, NEW a \in Int, NEW b \in Int, a <= b
  PROVE  n * a <= n * b
<1>1. PICK d \in Nat : b = a + d
  <2>1. b - a \in Nat /\ b = a + (b - a)
    OBVIOUS
  <2>2. QED
    BY <2>1
<1>2. n * b = n * a + n * d
  BY <1>1
<1>3. n * d >= 0 /\ n * d \in Int /\ n * a \in Int
  OBVIOUS
<1>4. QED
  BY <1>2, <1>3

\* A byte is in block b just when it is one of BSIZE bytes from there.
LEMMA DivUnique ==
  ASSUME NEW n \in Nat \ {0}, NEW a \in Nat, NEW q \in Int, n * q <= a, a < n * q + n
  PROVE  a \div n = q /\ q \in Nat
<1>1. PICK d \in Nat : d = a \div n /\ n * d <= a /\ a < n * d + n
  BY DivBounds
<1>2. CASE d < q
  <2>1. n * (d + 1) <= n * q
    BY <1>2, ProductMono
  <2>2. n * (d + 1) = n * d + n
    OBVIOUS
  <2>3. n * d \in Int /\ n * q \in Int /\ n * (d + 1) \in Int
    OBVIOUS
  <2>4. QED
    BY <1>1, <2>1, <2>2, <2>3
<1>3. CASE q < d
  <2>1. n * (q + 1) <= n * d
    BY <1>3, ProductMono
  <2>2. n * (q + 1) = n * q + n
    OBVIOUS
  <2>3. n * d \in Int /\ n * q \in Int /\ n * (q + 1) \in Int
    OBVIOUS
  <2>4. QED
    BY <1>1, <2>1, <2>2, <2>3
<1>4. QED
  BY <1>1, <1>2, <1>3

LEMMA DivMono ==
  ASSUME NEW n \in Nat \ {0}, NEW a \in Nat, NEW b \in Nat, a <= b
  PROVE  a \div n <= b \div n
<1>1. PICK d \in Nat : d = a \div n /\ n * d <= a /\ a < n * d + n
  BY DivBounds
<1>2. PICK e \in Nat : e = b \div n /\ n * e <= b /\ b < n * e + n
  BY DivBounds
<1>3. SUFFICES ASSUME e < d PROVE FALSE
  BY <1>1, <1>2
<1>4. n * (e + 1) <= n * d
  BY <1>3, ProductMono
<1>5. n * (e + 1) = n * e + n
  OBVIOUS
<1>6. n * d \in Int /\ n * e \in Int /\ n * (e + 1) \in Int
  OBVIOUS
<1>7. QED
  BY <1>1, <1>2, <1>4, <1>5, <1>6

\* A byte of the largest file is in one of its blocks.
LEMMA InFile ==
  ASSUME NEW k \in 0..(MAXFILE * BSIZE - 1)
  PROVE  k \div BSIZE \in 0..(MAXFILE - 1)
<1>1. BSIZE \in Nat \ {0} /\ MAXFILE \in Nat /\ MAXFILE * BSIZE = BSIZE * MAXFILE /\ BSIZE * MAXFILE \in Int
  BY FileSizes
<1>2. PICK d \in Nat : d = k \div BSIZE /\ BSIZE * d <= k /\ k < BSIZE * d + BSIZE
  BY <1>1, DivBounds
<1>3. SUFFICES ASSUME MAXFILE <= d PROVE FALSE
  BY <1>1, <1>2
<1>4. BSIZE * MAXFILE <= BSIZE * d
  BY <1>1, <1>3, ProductMono
<1>5. BSIZE * d \in Int
  BY <1>1
<1>6. QED
  BY <1>1, <1>2, <1>4, <1>5

LEMMA BlockNumbersAre ==
  ASSUME NEW from \in Nat, NEW n \in Nat \ {0}
  PROVE  LET first == from \div BSIZE
             last == (from + n - 1) \div BSIZE
         IN /\ BlockNumbers(from, n) = first..last
            /\ first \in Nat /\ last \in Nat /\ first <= last
            /\ Cardinality(BlockNumbers(from, n)) = last - first + 1
<1>1. BSIZE \in Nat \ {0}
  BY FileSizes
<1>2. PICK first \in Nat : first = from \div BSIZE /\ BSIZE * first <= from /\ from < BSIZE * first + BSIZE
  BY <1>1, DivBounds
<1>3. from + n - 1 \in Nat /\ from <= from + n - 1
  OBVIOUS
<1>4. PICK last \in Nat : /\ last = (from + n - 1) \div BSIZE /\ BSIZE * last <= from + n - 1
                          /\ from + n - 1 < BSIZE * last + BSIZE
  BY <1>1, <1>3, DivBounds
<1>5. first <= last
  BY <1>1, <1>2, <1>3, <1>4, DivMono
<1>6. ASSUME NEW k \in from..(from + n - 1)
      PROVE  k \div BSIZE \in first..last
  <2>1. k \in Nat /\ from <= k /\ k <= from + n - 1
    OBVIOUS
  <2>2. first <= k \div BSIZE /\ k \div BSIZE <= last
    BY <1>1, <1>2, <1>3, <1>4, <2>1, DivMono
  <2>3. k \div BSIZE \in Nat
    BY <1>1, <2>1, DivBounds
  <2>4. QED
    BY <2>2, <2>3
<1>7. ASSUME NEW b \in first..last
      PROVE  \E k \in from..(from + n - 1) : b = k \div BSIZE
  <2>1. CASE b = first
    BY <1>2, <2>1
  <2>2. CASE b # first
    <3>1. PICK k \in Int : k = BSIZE * b
      BY <1>1
    <3>2. BSIZE * (first + 1) <= BSIZE * b /\ BSIZE * b <= BSIZE * last
      BY <1>1, <2>2, ProductMono
    <3>3. BSIZE * (first + 1) = BSIZE * first + BSIZE
      BY <1>1
    <3>4. BSIZE * first \in Int /\ BSIZE * last \in Int /\ BSIZE * (first + 1) \in Int
      BY <1>1
    <3>5. k \in from..(from + n - 1)
      BY <1>2, <1>4, <3>1, <3>2, <3>3, <3>4
    <3>6. k \div BSIZE = b
      BY <1>1, <3>1, <3>5, DivUnique
    <3>7. QED
      BY <3>5, <3>6
  <2>3. QED
    BY <2>1, <2>2
<1>8. BlockNumbers(from, n) = first..last
  BY <1>6, <1>7 DEF BlockNumbers
<1>9. Cardinality(first..last) = last - first + 1
  BY <1>5, FS_Interval
<1>10. QED
  BY <1>2, <1>4, <1>5, <1>8, <1>9

LEMMA NoBlockNumbers ==
  ASSUME NEW from \in Nat
  PROVE  BlockNumbers(from, 0) = {} /\ Cardinality(BlockNumbers(from, 0)) = 0
<1>1. from..(from + 0 - 1) = {}
  OBVIOUS
<1>2. BlockNumbers(from, 0) = {}
  BY <1>1 DEF BlockNumbers
<1>3. QED
  BY <1>2, FS_EmptySet

LEMMA LoopIs ==
  ASSUME NEW o0, GoodOp(o0), o0.log = {}, NEW from \in Nat, NEW n \in Nat, NEW byte \in Writers,
         from + n <= MAXFILE * BSIZE, NEW bns, BlockNumbers(from, n) \subseteq bns, Room1(o0, bns)
  PROVE  LoopInv(o0, WriteBlocks(o0, from, n, byte), from, from + n, byte, from \div BSIZE,
                 Cardinality(BlockNumbers(from, n)), bns)
<1>1. BSIZE \in Nat \ {0} /\ MAXFILE \in Nat /\ MAXFILE * BSIZE \in Nat
  BY FileSizes
<1>2. PICK f : /\ f[0] = o0
               /\ \A k \in Nat \ {0} : f[k] = Round(f[k - 1], k, from, n, byte)
               /\ WriteBlocks(o0, from, n, byte) = f[Cardinality(BlockNumbers(from, n))]
  <2>1. PICK f : Rounds(f, o0, from, n, byte)
    BY WriteLoop, Zenon
  <2>2. QED
    BY <2>1 DEF Rounds
<1>3. PICK first \in Nat : first = from \div BSIZE
  BY <1>1, DivBounds
<1>4. PICK rounds \in Nat : /\ rounds = Cardinality(BlockNumbers(from, n))
                            /\ \A k \in Nat : k < rounds => first + k \in BlockNumbers(from, n)
                                                       /\ first + k \in 0..(MAXFILE - 1)
  <2>1. CASE n = 0
    BY <2>1, NoBlockNumbers
  <2>2. CASE n # 0
    <3>1. PICK last \in Nat : /\ last = (from + n - 1) \div BSIZE /\ first <= last
                              /\ BlockNumbers(from, n) = first..last
                              /\ Cardinality(BlockNumbers(from, n)) = last - first + 1
      BY <1>3, <2>2, BlockNumbersAre
    <3>2. last <= MAXFILE - 1
      <4>1. PICK k \in 0..(MAXFILE * BSIZE - 1) : k = from + n - 1
        BY <1>1, <2>2
      <4>2. k \div BSIZE \in 0..(MAXFILE - 1)
        BY InFile
      <4>3. QED
        BY <3>1, <4>1, <4>2, <1>1
    <3>3. PICK r \in Nat : r = last - first + 1
      BY <3>1
    <3>4. ASSUME NEW k \in Nat, k < r
          PROVE  first + k \in first..last /\ first + k \in 0..(MAXFILE - 1)
      BY <3>1, <3>2, <3>3, <3>4, <1>1
    <3>5. QED
      BY <3>1, <3>3, <3>4
  <2>3. QED
    BY <2>1, <2>2
<1> DEFINE I(k) == LoopInv(o0, f[k], from, from + n, byte, first, k, bns)
           Bad == {k \in 0..rounds : ~I(k)}
<1>5. I(0)
  <2>1. Grown(o0, o0)
    BY DEF Grown
  <2>2. \A bn \in 0..(MAXFILE - 1) : bn \notin first..(first + 0 - 1) /\ KeptAt(o0, o0, bn)
    BY DEF KeptAt
  <2>3. LogBound(o0, LogOf(o0, first, 0))
    <3>1. Cardinality(o0.log) = 0
      BY FS_EmptySet
    <3>2. QED
      BY <3>1 DEF LogBound, LogOf
  <2>4. QED
    BY <1>2, <2>1, <2>2, <2>3 DEF LoopInv
<1>6. ASSUME NEW k \in Nat, k < rounds, I(k)
      PROVE  I(k + 1)
  <2>1. PICK o : o = f[k]
    OBVIOUS
  <2>2. LoopInv(o0, o, from, from + n, byte, first, k, bns)
    BY <1>6, <2>1
  <2>3. first + k \in bns /\ first + k \in 0..(MAXFILE - 1)
    BY <1>4, <1>6
  <2>4. LoopInv(o0, WriteBlock(o, first + k, from, from + n, byte), from, from + n, byte, first, k + 1, bns)
    BY <2>2, <2>3, LoopStep, Zenon
  <2>5. k + 1 \in Nat \ {0} /\ (k + 1) - 1 = k /\ first + (k + 1) - 1 = first + k
    OBVIOUS
  <2>6. f[k + 1] = WriteBlock(o, first + k, from, from + n, byte)
    <3>1. f[k + 1] = Round(f[(k + 1) - 1], k + 1, from, n, byte)
      BY <1>2, <2>5
    <3>2. QED
      BY <1>3, <2>1, <2>5, <3>1 DEF Round
  <2>7. QED
    BY <2>4, <2>6
<1> HIDE DEF I
<1>7. Bad = {}
  <2>1. SUFFICES ASSUME Bad # {} PROVE FALSE
    OBVIOUS
  <2>2. Bad \in SUBSET Nat
    OBVIOUS
  <2>3. PICK m \in Bad : \A k \in Bad : m <= k
    BY <2>1, <2>2, LeastNat
  <2>4. m # 0
    BY <1>5, <2>3
  <2>5. m - 1 \in Nat /\ m - 1 < rounds /\ m - 1 \in 0..rounds /\ m - 1 \notin Bad /\ (m - 1) + 1 = m
    BY <2>3, <2>4
  <2>6. I((m - 1) + 1)
    BY <1>6, <2>5
  <2>7. QED
    BY <2>3, <2>5, <2>6
<1>8. I(rounds)
  BY <1>7
<1>9. QED
  BY <1>2, <1>3, <1>4, <1>8 DEF I

-----------------------------------------------------------------------------
(* What a call of writei() leaves, and that its blocks fit in the log. *)

SizedTo(o, o1, end) ==
  /\ GoodOp(o1) /\ o1.ip.size = (IF end > o.ip.size THEN end ELSE o.ip.size)
  /\ \A j : SlotOf(o1.ip, j) = SlotOf(o.ip, j)
  /\ o1.used = o.used /\ o1.cached = o.cached /\ o1.logged = o.logged
  /\ Cardinality(o1.log) <= Cardinality(o.log) + 1
  /\ Cardinality(o.log) \in Nat /\ Cardinality(o1.log) \in Nat

LEMMA SizedIs ==
  ASSUME NEW o, GoodOp(o), NEW end \in Nat
  PROVE  SizedTo(o, Sized(o, end), end)
<1>1. o \in OpType /\ IsFiniteSet(o.log) /\ o.ip \in InodeType
  BY DEF GoodOp, OpType
<1>2. PICK o1 : o1 = Sized(o, end)
  OBVIOUS
<1>3. /\ DOMAIN o1 = {"ip", "used", "cached", "logged", "log"}
      /\ o1 = [x \in {"ip", "used", "cached", "logged", "log"} |-> o1[x]]
  BY <1>1, <1>2 DEF OpType, Sized
<1>4. o1.used = o.used /\ o1.cached = o.cached /\ o1.logged = o.logged
  BY <1>1, <1>2 DEF OpType, Sized
<1>5. o1.log = o.log \cup {<<"inode">>}
  BY <1>1, <1>2 DEF OpType, Sized
<1>6. o1.ip = [o.ip EXCEPT !.size = IF end > @ THEN end ELSE @]
  BY <1>1, <1>2 DEF OpType, Sized
<1>7. o1.ip = [size |-> (IF end > o.ip.size THEN end ELSE o.ip.size),
               addrs |-> o.ip.addrs, ind |-> o.ip.ind]
  BY <1>1, <1>6 DEF InodeType
<1>8. o1.ip \in InodeType
  BY <1>1, <1>7 DEF InodeType
<1>9. o1 \in OpType
  <2>1. o1.log \in SUBSET LogNames
    BY <1>1, <1>5 DEF OpType, LogNames
  <2>2. o1.used \in SUBSET DataBlocks /\ o1.cached \in [DataBlocks -> Contents]
        /\ o1.logged \in [DataBlocks -> Contents]
    BY <1>1, <1>4 DEF OpType
  <2>3. QED
    BY <1>3, <1>8, <2>1, <2>2, OpFields
<1>10. \A j : SlotOf(o1.ip, j) = SlotOf(o.ip, j)
  BY <1>7 DEF SlotOf, BlockAt
<1>11. /\ IsFiniteSet(o1.log) /\ Cardinality(o.log) \in Nat /\ Cardinality(o1.log) \in Nat
       /\ Cardinality(o1.log) <= Cardinality(o.log) + 1
  BY <1>1, <1>5, OneMore, Zenon
<1>12. WellHung(o1.ip) /\ InUse(o1.ip, o1.used)
  BY <1>4, <1>10 DEF GoodOp, WellHung, InUse
<1>13. GoodOp(o1)
  BY <1>9, <1>11, <1>12 DEF GoodOp
<1>14. o1.ip.size = (IF end > o.ip.size THEN end ELSE o.ip.size)
  BY <1>7
<1>15. SizedTo(o, o1, end)
  BY <1>4, <1>10, <1>11, <1>13, <1>14, Zenon DEF SizedTo
<1>16. QED
  BY <1>2, <1>15, Zenon

\* The blocks that a write needs are the slots it fills.
LEMMA RoomIs ==
  ASSUME NEW o, GoodOp(o), NEW bns \in SUBSET (0..(MAXFILE - 1)),
         Needed(o.ip, bns) <= Cardinality(DataBlocks \ o.used)
  PROVE  Room1(o, bns)
<1>1. PICK ip : ip = o.ip
  OBVIOUS
<1>2. PICK S : S = {bn \in bns : BlockAt(ip, bn) = 0}
  OBVIOUS
<1>3. IsFiniteSet(S) /\ Cardinality(S) \in Nat /\ MAXFILE \notin S
  <2>1. IsFiniteSet(0..(MAXFILE - 1))
    BY FileSizes, FS_Interval
  <2>2. S \in SUBSET (0..(MAXFILE - 1))
    BY <1>2
  <2>3. MAXFILE \notin 0..(MAXFILE - 1)
    BY FileSizes
  <2>4. QED
    BY <2>1, <2>2, <2>3, FS_Subset, FS_CardinalityType
<1>4. \A bn \in bns : bn \in Slots /\ SlotOf(ip, bn) = BlockAt(ip, bn)
  BY FileSizes DEF Slots, SlotOf
<1>5. SlotOf(ip, MAXFILE) = ip.addrs[NDIRECT] /\ MAXFILE \in Slots /\ MAXFILE \notin bns
  BY FileSizes DEF Slots, SlotOf
<1> DEFINE ind == ip.addrs[NDIRECT] = 0 /\ \E bn \in bns : bn >= NDIRECT
<1>6. CASE ind
  <2>1. Missing(ip, bns) = S \cup {MAXFILE}
    BY <1>2, <1>4, <1>5, <1>6 DEF Missing
  <2>2. Cardinality(S \cup {MAXFILE}) = Cardinality(S) + 1
    BY <1>3, FS_AddElement
  <2>3. Needed(ip, bns) = Cardinality(S) + 1
    BY <1>2, <1>6 DEF Needed
  <2>4. QED
    BY <1>1, <2>1, <2>2, <2>3 DEF Room1
<1>7. CASE ~ind
  <2>1. Missing(ip, bns) = S
    BY <1>2, <1>4, <1>5, <1>7 DEF Missing
  <2>2. Needed(ip, bns) = Cardinality(S)
    BY <1>2, <1>3, <1>7 DEF Needed
  <2>3. QED
    BY <1>1, <2>1, <2>2 DEF Room1
<1>8. QED
  BY <1>6, <1>7

\* No hole: the file has every block that begins below its size.
NoHoles(ip) == \A bn \in 0..(MAXFILE - 1) : BSIZE * bn < ip.size => SlotOf(ip, bn) # 0

\* The slop of filewrite(): a chunk that is not aligned touches one more block, but one that is there.
LEMMA RoundsFit ==
  ASSUME NEW o, GoodOp(o), NoHoles(o.ip), NEW from \in Nat, NEW n \in 1..Chunk, from <= o.ip.size,
         from + n <= MAXFILE * BSIZE, NEW k \in Nat, k <= Cardinality(BlockNumbers(from, n))
  PROVE  LogOf(o, from \div BSIZE, k) + 3 <= MAXOPBLOCKS /\ LogOf(o, from \div BSIZE, k) \in Nat
<1>1. BSIZE \in Nat \ {0} /\ MAXFILE \in Nat /\ MAXFILE * BSIZE \in Nat /\ MAXFILE >= 1
  BY FileSizes
<1>2. PICK c \in Nat : c = (MAXOPBLOCKS - 4) \div 2 /\ 2 * c <= MAXOPBLOCKS - 4
  <2>1. MAXOPBLOCKS - 4 \in Nat /\ 2 \in Nat \ {0}
    BY FileDataAssumption
  <2>2. QED
    BY <2>1, DivBounds
<1>3. Chunk = BSIZE * c /\ Chunk \in Nat
  <2>1. MAXOPBLOCKS - 1 - 1 - 2 = MAXOPBLOCKS - 4
    BY FileDataAssumption
  <2>2. Chunk = c * BSIZE
    BY <1>2, <2>1 DEF Chunk
  <2>3. QED
    BY <1>1, <2>2
<1>4. n \in Nat \ {0} /\ n <= BSIZE * c
  BY <1>3
<1>5. PICK first \in Nat : first = from \div BSIZE /\ BSIZE * first <= from /\ from < BSIZE * first + BSIZE
  BY <1>1, DivBounds
<1>6. from + n - 1 \in Nat
  BY <1>4
<1>7. PICK last \in Nat : last = (from + n - 1) \div BSIZE /\ BSIZE * last <= from + n - 1
  BY <1>1, <1>6, DivBounds
<1>8. first <= last /\ k <= last - first + 1
  BY <1>4, <1>5, <1>7, BlockNumbersAre
<1>9. MAXOPBLOCKS \in Nat
  BY FileDataAssumption
<1>10. CASE from = BSIZE * first
  <2>1. last < first + c
    <3>1. SUFFICES ASSUME first + c <= last PROVE FALSE
      OBVIOUS
    <3>2. BSIZE * (first + c) <= BSIZE * last
      BY <1>1, <3>1, ProductMono
    <3>3. BSIZE * (first + c) = BSIZE * first + BSIZE * c
      BY <1>1
    <3>4. BSIZE * first \in Int /\ BSIZE * c \in Int /\ BSIZE * last \in Int
      BY <1>1
    <3>5. QED
      BY <1>4, <1>7, <1>10, <3>2, <3>3, <3>4
  <2>2. k <= c
    BY <1>8, <2>1
  <2>3. LogOf(o, first, k) \in Nat /\ LogOf(o, first, k) <= 2 * k
    BY DEF LogOf
  <2>4. QED
    BY <1>2, <1>5, <1>9, <2>2, <2>3
<1>11. CASE from # BSIZE * first
  <2>1. last < first + 1 + c
    <3>1. SUFFICES ASSUME first + 1 + c <= last PROVE FALSE
      OBVIOUS
    <3>2. BSIZE * (first + 1 + c) <= BSIZE * last
      BY <1>1, <3>1, ProductMono
    <3>3. BSIZE * (first + 1 + c) = BSIZE * first + BSIZE + BSIZE * c
      BY <1>1
    <3>4. BSIZE * first \in Int /\ BSIZE * c \in Int /\ BSIZE * last \in Int
      BY <1>1
    <3>5. QED
      BY <1>1, <1>4, <1>5, <1>7, <3>2, <3>3, <3>4
  <2>2. SlotOf(o.ip, first) # 0
    <3>1. BSIZE * first < o.ip.size
      <4>1. o.ip.size \in Nat /\ BSIZE * first \in Int
        BY <1>1 DEF GoodOp, OpType, InodeType
      <4>2. QED
        BY <1>5, <1>11, <4>1
    <3>2. first \in 0..(MAXFILE - 1)
      <4>1. from \in 0..(MAXFILE * BSIZE - 1)
        BY <1>1, <1>4
      <4>2. QED
        BY <1>5, <4>1, InFile
    <3>3. QED
      BY <3>1, <3>2 DEF NoHoles
  <2>3. k <= c + 1
    BY <1>8, <2>1
  <2>4. LogOf(o, first, k) \in Nat /\ LogOf(o, first, k) <= 2 * c + 1
    BY <2>2, <2>3 DEF LogOf
  <2>5. QED
    BY <1>2, <1>5, <1>9, <2>4
<1>12. QED
  BY <1>10, <1>11

\* Outside of the bytes that are there, a file is as it was, and no byte is torn that was not.
BytesKept(o0, o, there) ==
  \A bn \in 0..(MAXFILE - 1), i \in 0..(BSIZE - 1) :
    LET b == SlotOf(o0.ip, bn) IN
    b # 0 /\ bn * BSIZE + i \notin there =>
      /\ o.cached[b][i] = o0.cached[b][i]
      /\ o.cached[b][i] # o.logged[b][i] => o0.cached[b][i] # o0.logged[b][i]

\* The bytes that are there are the writer's, in the cache and in the log.
BytesPut(o, there, byte) ==
  \A bn \in 0..(MAXFILE - 1), i \in 0..(BSIZE - 1) :
    LET b == SlotOf(o.ip, bn) IN
    bn * BSIZE + i \in there => b # 0 /\ o.cached[b][i] = byte /\ o.logged[b][i] = byte

SlotsKept(o0, o) ==
  /\ o0.used \subseteq o.used
  /\ \A j \in Slots : SlotOf(o0.ip, j) # 0 => SlotOf(o.ip, j) = SlotOf(o0.ip, j)
  /\ \A j \in Slots : SlotOf(o0.ip, j) = 0 /\ SlotOf(o.ip, j) # 0 => SlotOf(o.ip, j) \notin o0.used
  /\ \A b \in o.used \ o0.used : \E j \in Slots : SlotOf(o.ip, j) = b

Landed(o0, o, there) ==
  /\ GoodOp(o) /\ SlotsKept(o0, o) /\ BytesKept(o0, o, there) /\ NoHoles(o.ip)
  /\ Cardinality(o.log) <= MAXOPBLOCKS

LEMMA ByteBlock ==
  ASSUME NEW bn \in Nat, NEW i \in 0..(BSIZE - 1)
  PROVE  bn * BSIZE + i \in Nat /\ (bn * BSIZE + i) \div BSIZE = bn /\ (bn * BSIZE + i) % BSIZE = i
<1>1. BSIZE \in Nat \ {0} /\ bn * BSIZE = BSIZE * bn /\ BSIZE * bn \in Nat
  BY FileSizes
<1>2. PICK a \in Nat : a = BSIZE * bn + i
  BY <1>1
<1>3. a \div BSIZE = bn
  BY <1>1, <1>2, DivUnique
<1>4. (BSIZE * bn + i) % BSIZE = i
  BY <1>1, ModUnique
<1>5. QED
  BY <1>1, <1>2, <1>3, <1>4

LEMMA LoopLands ==
  ASSUME NEW o0, GoodOp(o0), NEW o, NEW from, NEW to, NEW byte, NEW first, NEW k, NEW bns,
         LoopInv(o0, o, from, to, byte, first, k, bns)
  PROVE  /\ GoodOp(o) /\ Room1(o, bns) /\ SlotsKept(o0, o) /\ o.ip.size = o0.ip.size
         /\ BytesKept(o0, o, from..(to - 1))
         /\ \A bn \in 0..(MAXFILE - 1) : bn \in first..(first + k - 1) => SlotOf(o.ip, bn) # 0
<1>1. GoodOp(o) /\ Room1(o, bns) /\ Grown(o0, o)
  BY DEF LoopInv
<1>2. SlotsKept(o0, o) /\ o.ip.size = o0.ip.size
  BY <1>1 DEF Grown, SlotsKept
<1>3. ASSUME NEW bn \in 0..(MAXFILE - 1), NEW i \in 0..(BSIZE - 1), NEW b, b = SlotOf(o0.ip, bn), b # 0,
             bn * BSIZE + i \notin from..(to - 1)
      PROVE  /\ o.cached[b][i] = o0.cached[b][i]
             /\ o.cached[b][i] # o.logged[b][i] => o0.cached[b][i] # o0.logged[b][i]
  <2>1. bn \in Slots
    BY FileSizes DEF Slots
  <2>2. SlotOf(o.ip, bn) = b
    BY <1>2, <1>3, <2>1 DEF SlotsKept
  <2>3. CASE bn \in first..(first + k - 1)
    <3>1. WrittenAt(o0, o, bn, from, to, byte)
      BY <2>3 DEF LoopInv
    <3>2. o.cached[b] = o.logged[b] /\ o.cached[b][i] = o0.cached[b][i]
      BY <1>3, <2>2, <3>1 DEF WrittenAt
    <3>3. QED
      BY <3>2
  <2>4. CASE bn \notin first..(first + k - 1)
    <3>1. KeptAt(o0, o, bn)
      BY <2>4 DEF LoopInv
    <3>2. QED
      BY <1>3, <3>1 DEF KeptAt
  <2>5. QED
    BY <2>3, <2>4
<1>4. BytesKept(o0, o, from..(to - 1))
  BY <1>3 DEF BytesKept
<1>5. ASSUME NEW bn \in 0..(MAXFILE - 1), bn \in first..(first + k - 1)
      PROVE  SlotOf(o.ip, bn) # 0
  <2>1. WrittenAt(o0, o, bn, from, to, byte)
    BY <1>5 DEF LoopInv
  <2>2. QED
    BY <2>1 DEF WrittenAt
<1>6. QED
  BY <1>1, <1>2, <1>4, <1>5

LEMMA ChunkLands ==
  ASSUME NEW o0, GoodOp(o0), o0.log = {}, NoHoles(o0.ip), NEW from \in Nat, NEW n \in 1..Chunk,
         from <= o0.ip.size, from + n <= MAXFILE * BSIZE, NEW byte \in Writers,
         Needed(o0.ip, BlockNumbers(from, n)) <= Cardinality(DataBlocks \ o0.used)
  PROVE  LET o == Sized(WriteBlocks(o0, from, n, byte), from + n)
             there == from..(from + n - 1)
         IN /\ Landed(o0, o, there) /\ BytesPut(o, there, byte)
            /\ o.ip.size = (IF from + n > o0.ip.size THEN from + n ELSE o0.ip.size)
<1>1. BSIZE \in Nat \ {0} /\ MAXFILE \in Nat /\ MAXFILE * BSIZE \in Nat /\ n \in Nat \ {0}
  BY FileSizes
<1>2. o0.ip.size \in Nat
  BY DEF GoodOp, OpType, InodeType
<1>3. PICK first \in Nat, last \in Nat :
        /\ first = from \div BSIZE /\ last = (from + n - 1) \div BSIZE /\ first <= last
        /\ BlockNumbers(from, n) = first..last
        /\ Cardinality(BlockNumbers(from, n)) = last - first + 1
  BY <1>1, BlockNumbersAre
<1>4. PICK rounds \in Nat : rounds = last - first + 1 /\ first..last = first..(first + rounds - 1)
  BY <1>3
<1>5. BlockNumbers(from, n) \in SUBSET (0..(MAXFILE - 1))
  <2>1. PICK k \in 0..(MAXFILE * BSIZE - 1) : k = from + n - 1
    BY <1>1
  <2>2. last \in 0..(MAXFILE - 1)
    BY <1>3, <2>1, InFile
  <2>3. QED
    BY <1>1, <1>3, <2>2
<1>6. PICK bns : bns = BlockNumbers(from, n)
  OBVIOUS
<1>7. Room1(o0, bns)
  BY <1>5, <1>6, RoomIs
<1>8. PICK o1 : o1 = WriteBlocks(o0, from, n, byte)
  OBVIOUS
<1>9. LoopInv(o0, o1, from, from + n, byte, first, rounds, bns)
  <2>1. n \in Nat /\ BlockNumbers(from, n) \subseteq bns
    BY <1>1, <1>6
  <2>2. LoopInv(o0, o1, from, from + n, byte, from \div BSIZE, Cardinality(BlockNumbers(from, n)), bns)
    BY <1>7, <1>8, <2>1, LoopIs, Zenon
  <2>3. QED
    BY <1>3, <1>4, <2>2
<1>10. /\ GoodOp(o1) /\ SlotsKept(o0, o1) /\ o1.ip.size = o0.ip.size
       /\ BytesKept(o0, o1, from..(from + n - 1))
       /\ \A bn \in 0..(MAXFILE - 1) : bn \in first..(first + rounds - 1) => SlotOf(o1.ip, bn) # 0
  BY <1>9, LoopLands
<1>11. PICK o : o = Sized(o1, from + n)
  OBVIOUS
<1>12. /\ GoodOp(o) /\ o.ip.size = (IF from + n > o1.ip.size THEN from + n ELSE o1.ip.size)
       /\ \A j : SlotOf(o.ip, j) = SlotOf(o1.ip, j)
       /\ o.used = o1.used /\ o.cached = o1.cached /\ o.logged = o1.logged
       /\ Cardinality(o.log) <= Cardinality(o1.log) + 1
       /\ Cardinality(o1.log) \in Nat /\ Cardinality(o.log) \in Nat
  <2>1. PICK end \in Nat : end = from + n
    BY <1>1
  <2>2. SizedTo(o1, o, end)
    BY <1>10, <1>11, <2>1, SizedIs, Zenon
  <2>3. QED
    BY <2>1, <2>2, Zenon DEF SizedTo
<1>13. SlotsKept(o0, o)
  BY <1>10, <1>12 DEF SlotsKept
<1>14. BytesKept(o0, o, from..(from + n - 1))
  BY <1>10, <1>12 DEF BytesKept
<1>15. ASSUME NEW bn \in 0..(MAXFILE - 1), NEW i \in 0..(BSIZE - 1), bn * BSIZE + i \in from..(from + n - 1)
       PROVE  bn \in first..(first + rounds - 1)
  <2>1. bn \in BlockNumbers(from, n)
    BY <1>15, ByteBlock DEF BlockNumbers
  <2>2. QED
    BY <1>3, <1>4, <2>1
<1>16. BytesPut(o, from..(from + n - 1), byte)
  <2>1. ASSUME NEW bn \in 0..(MAXFILE - 1), NEW i \in 0..(BSIZE - 1), NEW b, b = SlotOf(o.ip, bn),
               bn * BSIZE + i \in from..(from + n - 1)
        PROVE  b # 0 /\ o.cached[b][i] = byte /\ o.logged[b][i] = byte
    <3>1. WrittenAt(o0, o1, bn, from, from + n, byte)
      BY <1>9, <1>15, <2>1 DEF LoopInv
    <3>2. b = SlotOf(o1.ip, bn)
      BY <1>12, <2>1
    <3>3. b # 0 /\ o1.cached[b] = o1.logged[b] /\ o1.cached[b][i] = byte
      BY <2>1, <3>1, <3>2 DEF WrittenAt
    <3>4. QED
      BY <1>12, <3>3
  <2>2. QED
    BY <2>1 DEF BytesPut
<1>17. NoHoles(o.ip)
  <2>1. ASSUME NEW bn \in 0..(MAXFILE - 1), BSIZE * bn < o.ip.size
        PROVE  SlotOf(o.ip, bn) # 0
    <3>1. bn \in Slots /\ BSIZE * bn \in Nat
      BY <1>1, FileSizes DEF Slots
    <3>2. CASE BSIZE * bn < o0.ip.size
      BY <1>10, <1>12, <3>1, <3>2 DEF NoHoles, SlotsKept
    <3>3. CASE ~(BSIZE * bn < o0.ip.size)
      <4>1. BSIZE * bn \in from..(from + n - 1)
        BY <1>1, <1>2, <1>10, <1>12, <2>1, <3>1, <3>3
      <4>2. bn * BSIZE + 0 = BSIZE * bn /\ 0 \in 0..(BSIZE - 1)
        BY <1>1
      <4>3. bn \in first..(first + rounds - 1)
        BY <1>15, <4>1, <4>2
      <4>4. QED
        BY <1>10, <1>12, <4>3
    <3>4. QED
      BY <3>2, <3>3
  <2>2. QED
    BY <2>1 DEF NoHoles
<1>18. Cardinality(o.log) <= MAXOPBLOCKS
  <2>1. LogOf(o0, first, rounds) + 3 <= MAXOPBLOCKS /\ LogOf(o0, first, rounds) \in Nat
    <3>1. rounds <= Cardinality(BlockNumbers(from, n))
      BY <1>3, <1>4
    <3>2. /\ LogOf(o0, from \div BSIZE, rounds) + 3 <= MAXOPBLOCKS
          /\ LogOf(o0, from \div BSIZE, rounds) \in Nat
      BY <3>1, RoundsFit, Zenon
    <3>3. QED
      BY <1>3, <3>2
  <2>2. LogBound(o1, LogOf(o0, first, rounds))
    BY <1>9 DEF LoopInv
  <2>3. Cardinality(o1.log) <= LogOf(o0, first, rounds) + 2
    BY <1>12, <2>1, <2>2 DEF LogBound
  <2>4. MAXOPBLOCKS \in Nat
    BY FileDataAssumption
  <2>5. QED
    BY <1>12, <2>1, <2>3, <2>4
<1>19. Landed(o0, o, from..(from + n - 1))
  BY <1>12, <1>13, <1>14, <1>17, <1>18 DEF Landed
<1>20. QED
  BY <1>8, <1>10, <1>11, <1>12, <1>16, <1>19

LEMMA BytesKeptTrans ==
  ASSUME NEW o0, NEW o1, NEW o2, NEW S, NEW T, NEW there, S \subseteq there, T \subseteq there,
         SlotsKept(o0, o1), BytesKept(o0, o1, S), BytesKept(o1, o2, T)
  PROVE  BytesKept(o0, o2, there)
<1>1. ASSUME NEW bn \in 0..(MAXFILE - 1), NEW i \in 0..(BSIZE - 1), NEW b, b = SlotOf(o0.ip, bn), b # 0,
             bn * BSIZE + i \notin there
      PROVE  /\ o2.cached[b][i] = o0.cached[b][i]
             /\ o2.cached[b][i] # o2.logged[b][i] => o0.cached[b][i] # o0.logged[b][i]
  <2>1. bn \in Slots
    BY FileSizes DEF Slots
  <2>2. b = SlotOf(o1.ip, bn)
    BY <1>1, <2>1 DEF SlotsKept
  <2>3. /\ o1.cached[b][i] = o0.cached[b][i]
        /\ o1.cached[b][i] # o1.logged[b][i] => o0.cached[b][i] # o0.logged[b][i]
    BY <1>1 DEF BytesKept
  <2>4. /\ o2.cached[b][i] = o1.cached[b][i]
        /\ o2.cached[b][i] # o2.logged[b][i] => o1.cached[b][i] # o1.logged[b][i]
    BY <1>1, <2>2 DEF BytesKept
  <2>5. QED
    BY <2>3, <2>4
<1>2. QED
  BY <1>1 DEF BytesKept

LEMMA SlotsKeptTrans ==
  ASSUME NEW o0, NEW o1, NEW o2, 0 \notin o1.used, SlotsKept(o0, o1), SlotsKept(o1, o2)
  PROVE  SlotsKept(o0, o2)
<1>1. o0.used \subseteq o2.used
  BY DEF SlotsKept
<1>2. \A j \in Slots : SlotOf(o0.ip, j) # 0 => SlotOf(o2.ip, j) = SlotOf(o0.ip, j)
  BY DEF SlotsKept
<1>3. \A j \in Slots : SlotOf(o0.ip, j) = 0 /\ SlotOf(o2.ip, j) # 0 => SlotOf(o2.ip, j) \notin o0.used
  BY DEF SlotsKept
<1>4. ASSUME NEW b \in o2.used \ o0.used
      PROVE  \E j \in Slots : SlotOf(o2.ip, j) = b
  <2>1. CASE b \in o1.used
    <3>1. PICK j \in Slots : SlotOf(o1.ip, j) = b
      BY <1>4, <2>1 DEF SlotsKept
    <3>2. b # 0
      BY <2>1
    <3>3. QED
      BY <3>1, <3>2 DEF SlotsKept
  <2>2. CASE b \notin o1.used
    BY <1>4, <2>2 DEF SlotsKept
  <2>3. QED
    BY <2>1, <2>2
<1>5. QED
  BY <1>1, <1>2, <1>3, <1>4 DEF SlotsKept

\* The round in which copyin() fails: the block is mapped, some of its bytes are written, none is logged.
LEMMA HalfRound ==
  ASSUME NEW o, GoodOp(o), NEW bns, NEW bn \in bns, bn \in 0..(MAXFILE - 1), Room1(o, bns),
         NEW begin, NEW end, NEW byte \in Writers
  PROVE  LET o1 == Copyin(bmap(o, bn), bn, begin, end, byte)
         IN /\ GoodOp(o1) /\ SlotsKept(o, o1) /\ o1.ip.size = o.ip.size
            /\ BytesKept(o, o1, begin..(end - 1))
            /\ \A m \in Nat : LogBound(o, m) =>
                 LogBound(o1, m + (IF SlotOf(o.ip, bn) = 0 THEN 2 ELSE 0))
<1>1. PICK o1 : o1 = bmap(o, bn)
  OBVIOUS
<1>2. /\ GoodOp(o1) /\ Hung(o, o1) /\ SlotOf(o1.ip, bn) # 0
      /\ \A m \in Nat : LogBound(o, m) => LogBound(o1, m + (IF SlotOf(o.ip, bn) = 0 THEN 2 ELSE 0))
  <2>1. /\ GoodOp(o1) /\ Hung(o, o1) /\ SlotOf(o1.ip, bn) # 0
        /\ IF SlotOf(o.ip, bn) # 0 THEN \A m \in Nat : LogBound(o, m) => LogBound(o1, m)
           ELSE \A m \in Nat : LogBound(o, m) => LogBound(o1, m + 2)
    BY <1>1, BmapIs
  <2>2. \A m \in Nat : m + 0 = m
    OBVIOUS
  <2>3. QED
    BY <2>1, <2>2
<1>3. bn \in Slots /\ bn # MAXFILE /\ bn \in Nat
  BY FileSizes DEF Slots
<1>4. PICK b \in DataBlocks : b = SlotOf(o1.ip, bn)
  <2>1. o1.ip \in InodeType
    BY <1>2 DEF GoodOp, OpType
  <2>2. QED
    BY <1>2, <1>3, <2>1, SlotType DEF Addrs
<1>5. PICK c : c = Mixed(o1.cached[b], bn, begin, end, byte)
  OBVIOUS
<1>6. PICK o2 : o2 = Copyin(o1, bn, begin, end, byte)
  OBVIOUS
<1>7. /\ o2.ip = o1.ip /\ o2.used = o1.used /\ o2.logged = o1.logged /\ o2.log = o1.log
      /\ o2.cached = [o1.cached EXCEPT ![b] = c] /\ o2 \in OpType
  <2>1. o1 \in OpType
    BY <1>2 DEF GoodOp
  <2>2. QED
    BY <1>3, <1>4, <1>5, <1>6, <2>1, CopyinIs
<1>8. GoodOp(o2)
  BY <1>2, <1>7 DEF GoodOp
<1>9. SlotsKept(o, o2) /\ o2.ip.size = o.ip.size
  BY <1>2, <1>7 DEF Hung, SlotsKept
<1>10. ASSUME NEW n \in 0..(MAXFILE - 1), NEW i \in 0..(BSIZE - 1), NEW a, a = SlotOf(o.ip, n), a # 0,
              n * BSIZE + i \notin begin..(end - 1)
       PROVE  o2.cached[a][i] = o.cached[a][i] /\ o2.logged[a][i] = o.logged[a][i]
  <2>1. n \in Slots
    BY FileSizes DEF Slots
  <2>2. a \in o.used /\ a = SlotOf(o1.ip, n) /\ a \in DataBlocks
    BY <1>2, <1>10, <2>1 DEF GoodOp, InUse, OpType, Hung
  <2>3. o1.cached[a] = o.cached[a] /\ o1.logged[a] = o.logged[a]
    BY <1>2, <2>2 DEF Hung
  <2>4. o1.cached \in [DataBlocks -> Contents]
    BY <1>2 DEF GoodOp, OpType
  <2>5. CASE n = bn
    <3>1. a = b /\ o2.cached[a] = c
      BY <1>4, <1>7, <2>2, <2>4, <2>5
    <3>2. c[i] = o1.cached[b][i]
      BY <1>5, <1>10, <2>5 DEF Mixed
    <3>3. QED
      BY <1>7, <2>3, <3>1, <3>2
  <2>6. CASE n # bn
    <3>1. a # b
      BY <1>2, <1>3, <1>4, <1>10, <2>1, <2>2, <2>6 DEF GoodOp, WellHung
    <3>2. o2.cached[a] = o1.cached[a]
      BY <1>7, <2>2, <2>4, <3>1
    <3>3. QED
      BY <1>7, <2>3, <3>2
  <2>7. QED
    BY <2>5, <2>6
<1>11. BytesKept(o, o2, begin..(end - 1))
  BY <1>10 DEF BytesKept
<1>12. ASSUME NEW m \in Nat, LogBound(o1, m)
       PROVE  LogBound(o2, m)
  BY <1>7, <1>12 DEF LogBound, IndLogged
<1>13. \A m \in Nat : LogBound(o, m) => LogBound(o2, m + (IF SlotOf(o.ip, bn) = 0 THEN 2 ELSE 0))
  BY <1>2, <1>12
<1>14. QED
  BY <1>1, <1>6, <1>8, <1>9, <1>11, <1>13

\* Where a write ends whose buffer cannot be read in block bn.
BadBegin(bn, from) == IF bn * BSIZE > from THEN bn * BSIZE ELSE from
BadWrite(o, from, bn, part, byte) ==
  LET begin == BadBegin(bn, from) IN
  Sized(Copyin(bmap(WriteBlocks(o, from, begin - from, byte), bn), bn, begin, begin + part, byte), begin)

BadCall(o0, from, n, bn, part) ==
  /\ GoodOp(o0) /\ o0.log = {} /\ NoHoles(o0.ip) /\ from \in Nat /\ n \in 1..Chunk
  /\ from <= o0.ip.size /\ from + n <= MAXFILE * BSIZE
  /\ bn \in BlockNumbers(from, n) /\ part \in 0..(BSIZE - 1)
  /\ BadBegin(bn, from) + part < from + n
  /\ Needed(o0.ip, BlockNumbers(from, BadBegin(bn, from) - from) \cup {bn})
       <= Cardinality(DataBlocks \ o0.used)

BadLanded(o0, o, from, n, begin) ==
  /\ Landed(o0, o, from..(from + n - 1)) /\ begin \in from..(from + n - 1)
  /\ o.ip.size = (IF begin > o0.ip.size THEN begin ELSE o0.ip.size)

LEMMA BadLands ==
  ASSUME NEW o0, NEW from, NEW n, NEW bn, NEW part, NEW byte \in Writers,
         BadCall(o0, from, n, bn, part)
  PROVE  BadLanded(o0, BadWrite(o0, from, bn, part, byte), from, n, BadBegin(bn, from))
<1>0. /\ GoodOp(o0) /\ o0.log = {} /\ NoHoles(o0.ip) /\ from \in Nat /\ n \in 1..Chunk
      /\ from <= o0.ip.size /\ from + n <= MAXFILE * BSIZE
      /\ bn \in BlockNumbers(from, n) /\ part \in 0..(BSIZE - 1)
      /\ BadBegin(bn, from) + part < from + n
      /\ Needed(o0.ip, BlockNumbers(from, BadBegin(bn, from) - from) \cup {bn})
           <= Cardinality(DataBlocks \ o0.used)
  BY DEF BadCall
<1>1. BSIZE \in Nat \ {0} /\ MAXFILE \in Nat /\ MAXFILE * BSIZE \in Nat /\ n \in Nat \ {0}
  BY <1>0, FileSizes
<1>2. o0.ip.size \in Nat
  BY <1>0 DEF GoodOp, OpType, InodeType
<1>3. PICK first \in Nat, last \in Nat :
        /\ first = from \div BSIZE /\ last = (from + n - 1) \div BSIZE /\ first <= last
        /\ BlockNumbers(from, n) = first..last
        /\ Cardinality(BlockNumbers(from, n)) = last - first + 1
  BY <1>0, <1>1, BlockNumbersAre
<1>4. BSIZE * first <= from /\ from < BSIZE * first + BSIZE
  BY <1>0, <1>1, <1>3, DivBounds
<1>5. bn \in first..last /\ bn \in Nat /\ last \in 0..(MAXFILE - 1) /\ bn \in 0..(MAXFILE - 1)
  <2>1. PICK k \in 0..(MAXFILE * BSIZE - 1) : k = from + n - 1
    BY <1>0, <1>1
  <2>2. last \in 0..(MAXFILE - 1)
    BY <1>0, <1>3, <2>1, InFile
  <2>3. QED
    BY <1>0, <1>1, <1>3, <2>2
<1>6. PICK begin \in Nat : begin = BadBegin(bn, from) /\ from <= begin
  BY <1>0, <1>1, <1>5 DEF BadBegin
<1>7. PICK rounds \in Nat : rounds = bn - first
  BY <1>0, <1>3, <1>5
<1>8. PICK m \in Nat : m = begin - from
  BY <1>0, <1>6
\* The blocks before bn, and their number.
<1>9. /\ BlockNumbers(from, m) = first..(bn - 1)
      /\ Cardinality(BlockNumbers(from, m)) = rounds
      /\ bn # first => begin = BSIZE * bn
      /\ bn = first => begin = from
  <2>1. CASE bn = first
    <3>1. begin = from
      BY <1>0, <1>1, <1>4, <1>6, <2>1 DEF BadBegin
    <3>2. m = 0 /\ rounds = 0 /\ first..(bn - 1) = {}
      BY <1>0, <1>7, <1>8, <2>1, <3>1
    <3>3. QED
      BY <2>1, <3>1, <3>2, NoBlockNumbers
  <2>2. CASE bn # first
    <3>1. BSIZE * (first + 1) <= BSIZE * bn
      BY <1>0, <1>1, <1>5, <2>2, ProductMono
    <3>2. BSIZE * (first + 1) = BSIZE * first + BSIZE /\ bn * BSIZE = BSIZE * bn
      BY <1>0, <1>1, <1>5
    <3>3. BSIZE * first \in Int /\ BSIZE * bn \in Int /\ BSIZE * (bn - 1) \in Int
          /\ BSIZE * (bn - 1) = BSIZE * bn - BSIZE
      BY <1>0, <1>1, <1>5
    <3>4. begin = BSIZE * bn /\ from < begin
      <4>1. PICK x \in Int, y \in Int : x = BSIZE * first /\ y = BSIZE * bn
        BY <3>3
      <4>2. x + BSIZE <= y /\ bn * BSIZE = y
        BY <3>1, <3>2, <4>1
      <4>3. from < y
        BY <1>0, <1>1, <1>4, <4>1, <4>2
      <4>4. begin = y
        BY <1>0, <1>6, <4>2, <4>3 DEF BadBegin
      <4>5. QED
        BY <4>1, <4>3, <4>4
    <3>5. m \in Nat \ {0} /\ from + m - 1 \in Nat /\ from + m - 1 = BSIZE * bn - 1
      BY <1>0, <1>8, <3>3, <3>4
    <3>6. (from + m - 1) \div BSIZE = bn - 1
      <4>1. BSIZE * (bn - 1) <= from + m - 1 /\ from + m - 1 < BSIZE * (bn - 1) + BSIZE
        BY <1>0, <1>1, <3>3, <3>5
      <4>2. bn - 1 \in Int
        BY <1>0, <1>5
      <4>3. QED
        BY <1>0, <1>1, <3>5, <4>1, <4>2, DivUnique
    <3>7. /\ BlockNumbers(from, m) = first..(bn - 1)
          /\ Cardinality(BlockNumbers(from, m)) = (bn - 1) - first + 1
      <4>1. /\ BlockNumbers(from, m) = (from \div BSIZE)..((from + m - 1) \div BSIZE)
            /\ Cardinality(BlockNumbers(from, m)) = (from + m - 1) \div BSIZE - from \div BSIZE + 1
        <5>1. from \in Nat
          BY <1>0
        <5>2. QED
          BY <3>5, <5>1, BlockNumbersAre, Zenon
      <4>2. QED
        BY <1>3, <3>6, <4>1, Zenon
    <3>8. QED
      BY <1>0, <1>7, <2>2, <3>4, <3>7, <1>5
  <2>3. QED
    BY <2>1, <2>2
<1>10. begin \in from..(from + n - 1)
  BY <1>0, <1>1, <1>6
<1>11. PICK bns : bns = BlockNumbers(from, m) \cup {bn}
  OBVIOUS
<1>12. Room1(o0, bns)
  <2>1. bns \in SUBSET (0..(MAXFILE - 1))
    <3>1. \A b \in first..(bn - 1) : b \in 0..(MAXFILE - 1)
      BY <1>0, <1>1, <1>5
    <3>2. QED
      BY <1>0, <1>5, <1>9, <1>11, <3>1
  <2>2. Needed(o0.ip, bns) <= Cardinality(DataBlocks \ o0.used)
    BY <1>0, <1>6, <1>8, <1>11
  <2>3. QED
    BY <1>0, <2>1, <2>2, RoomIs
<1>13. PICK o1 : o1 = WriteBlocks(o0, from, m, byte)
  OBVIOUS
<1>14. LoopInv(o0, o1, from, begin, byte, first, rounds, bns)
  <2>1. from + m = begin /\ from + m <= MAXFILE * BSIZE /\ BlockNumbers(from, m) \subseteq bns
    BY <1>0, <1>1, <1>6, <1>8, <1>10, <1>11
  <2>2. LoopInv(o0, o1, from, from + m, byte, from \div BSIZE, Cardinality(BlockNumbers(from, m)), bns)
    BY <1>0, <1>12, <1>13, <2>1, LoopIs, Zenon
  <2>3. QED
    BY <1>0, <1>3, <1>9, <2>1, <2>2
<1>15. /\ GoodOp(o1) /\ Room1(o1, bns) /\ SlotsKept(o0, o1) /\ o1.ip.size = o0.ip.size
       /\ BytesKept(o0, o1, from..(begin - 1))
       /\ \A b \in 0..(MAXFILE - 1) : b \in first..(first + rounds - 1) => SlotOf(o1.ip, b) # 0
  BY <1>0, <1>14, LoopLands
<1>16. PICK end : end = begin + part
  OBVIOUS
<1>17. PICK o2 : o2 = Copyin(bmap(o1, bn), bn, begin, end, byte)
  OBVIOUS
<1>18. /\ GoodOp(o2) /\ SlotsKept(o1, o2) /\ o2.ip.size = o1.ip.size
       /\ BytesKept(o1, o2, begin..(end - 1))
       /\ \A l \in Nat : LogBound(o1, l) =>
            LogBound(o2, l + (IF SlotOf(o1.ip, bn) = 0 THEN 2 ELSE 0))
  <2>1. bn \in bns
    BY <1>0, <1>11
  <2>2. QED
    BY <1>0, <1>5, <1>15, <1>17, <2>1, HalfRound
<1>19. PICK o : o = Sized(o2, begin)
  OBVIOUS
<1>20. /\ GoodOp(o) /\ o.ip.size = (IF begin > o2.ip.size THEN begin ELSE o2.ip.size)
       /\ \A j : SlotOf(o.ip, j) = SlotOf(o2.ip, j)
       /\ o.used = o2.used /\ o.cached = o2.cached /\ o.logged = o2.logged
       /\ Cardinality(o.log) <= Cardinality(o2.log) + 1
       /\ Cardinality(o2.log) \in Nat /\ Cardinality(o.log) \in Nat
  <2>1. GoodOp(o2)
    BY <1>0, <1>18
  <2>2. SizedTo(o2, o, begin)
    BY <1>19, <2>1, SizedIs, Zenon
  <2>3. QED
    BY <2>2, Zenon DEF SizedTo
<1>21. SlotsKept(o0, o2) /\ SlotsKept(o0, o)
  <2>1. 0 \notin o1.used
    BY <1>0, <1>15, FileSizes DEF GoodOp, OpType
  <2>2. SlotsKept(o0, o2)
    BY <1>0, <1>15, <1>18, <2>1, SlotsKeptTrans
  <2>3. QED
    BY <1>0, <1>20, <2>2 DEF SlotsKept
<1>22. BytesKept(o0, o, from..(from + n - 1))
  <2>1. from..(begin - 1) \subseteq from..(from + n - 1)
    BY <1>0, <1>1, <1>10
  <2>2. begin..(end - 1) \subseteq from..(from + n - 1)
    BY <1>0, <1>1, <1>6, <1>16
  <2>3. BytesKept(o0, o2, from..(from + n - 1))
    <3>1. SlotsKept(o0, o1) /\ BytesKept(o0, o1, from..(begin - 1)) /\ BytesKept(o1, o2, begin..(end - 1))
      BY <1>0, <1>15, <1>18
    <3>2. PICK S, T, there :
            S = from..(begin - 1) /\ T = begin..(end - 1) /\ there = from..(from + n - 1)
      OBVIOUS
    <3>3. S \subseteq there /\ T \subseteq there /\ BytesKept(o0, o1, S) /\ BytesKept(o1, o2, T)
      BY <2>1, <2>2, <3>1, <3>2
    <3>4. BytesKept(o0, o2, there)
      BY <3>1, <3>3, BytesKeptTrans
    <3>5. QED
      BY <3>2, <3>4
  <2>4. QED
    BY <1>0, <1>20, <2>3 DEF BytesKept
<1>23. NoHoles(o.ip)
  <2>1. ASSUME NEW b \in 0..(MAXFILE - 1), BSIZE * b < o.ip.size
        PROVE  SlotOf(o.ip, b) # 0
    <3>1. b \in Slots /\ BSIZE * b \in Nat
      BY <1>0, <1>1, FileSizes DEF Slots
    <3>2. CASE BSIZE * b < o0.ip.size
      BY <1>0, <1>20, <1>21, <3>1, <3>2 DEF NoHoles, SlotsKept
    <3>3. CASE ~(BSIZE * b < o0.ip.size)
      <4>1. BSIZE * b < begin /\ from <= BSIZE * b
        BY <1>0, <1>2, <1>15, <1>18, <1>20, <2>1, <3>1, <3>3
      <4>2. bn # first /\ begin = BSIZE * bn
        BY <1>0, <1>9, <4>1, <3>1
      <4>3. b < bn
        <5>1. SUFFICES ASSUME bn <= b PROVE FALSE
          BY <1>0, <1>5
        <5>2. BSIZE * bn <= BSIZE * b
          BY <1>0, <1>1, <1>5, <5>1, ProductMono
        <5>3. QED
          BY <4>1, <4>2, <5>2, <3>1
      <4>4. first <= b
        <5>1. SUFFICES ASSUME b + 1 <= first PROVE FALSE
          OBVIOUS
        <5>2. BSIZE * (b + 1) <= BSIZE * first
          BY <1>0, <1>1, <5>1, ProductMono
        <5>3. BSIZE * (b + 1) = BSIZE * b + BSIZE /\ BSIZE * first \in Int
          BY <1>0, <1>1
        <5>4. QED
          BY <1>0, <1>1, <1>4, <4>1, <5>2, <5>3, <3>1
      <4>5. b \in first..(first + rounds - 1)
        BY <1>0, <1>5, <1>7, <4>3, <4>4
      <4>6. SlotOf(o1.ip, b) # 0
        BY <1>0, <1>15, <4>5
      <4>7. QED
        BY <1>0, <1>18, <1>20, <3>1, <4>6 DEF SlotsKept
    <3>4. QED
      BY <3>2, <3>3
  <2>2. QED
    BY <2>1 DEF NoHoles
<1>24. Cardinality(o.log) <= MAXOPBLOCKS
  <2>1. PICK k \in Nat : k = rounds + 1 /\ k <= Cardinality(BlockNumbers(from, n))
    BY <1>3, <1>5, <1>7, SMTT(30)
  <2>2. LogOf(o0, first, k) + 3 <= MAXOPBLOCKS /\ LogOf(o0, first, k) \in Nat
    <3>1. /\ LogOf(o0, from \div BSIZE, k) + 3 <= MAXOPBLOCKS
          /\ LogOf(o0, from \div BSIZE, k) \in Nat
      BY <1>0, <2>1, RoundsFit, Zenon
    <3>2. QED
      BY <1>0, <1>3, <3>1
  <2>3. PICK l \in Nat : l = LogOf(o0, first, rounds)
    BY DEF LogOf
  <2>4. LogBound(o1, l)
    BY <1>0, <1>14, <2>3 DEF LoopInv
  <2>5. PICK d \in {0, 2} : d = (IF SlotOf(o1.ip, bn) = 0 THEN 2 ELSE 0)
    OBVIOUS
  <2>6. LogBound(o2, l + d)
    BY <1>0, <1>18, <2>4, <2>5
  <2>7. l + d <= LogOf(o0, first, k)
    <3>1. CASE rounds = 0
      <4>1. bn = first /\ bn \in Slots
        BY <1>0, <1>5, <1>7, <3>1, FileSizes DEF Slots
      <4>2. SlotOf(o0.ip, first) # 0 => SlotOf(o1.ip, bn) # 0
        BY <1>0, <1>15, <4>1 DEF SlotsKept
      <4>3. QED
        BY <2>1, <2>3, <2>5, <3>1, <4>2 DEF LogOf
    <3>2. CASE rounds # 0
      BY <2>1, <2>3, <2>5, <3>2 DEF LogOf
    <3>3. QED
      BY <3>1, <3>2
  <2>8. Cardinality(o2.log) <= l + d + 2
    BY <1>0, <1>20, <2>6 DEF LogBound
  <2>9. MAXOPBLOCKS \in Nat
    BY FileDataAssumption
  <2>10. QED
    BY <1>0, <1>20, <2>2, <2>7, <2>8, <2>9
<1>25. Landed(o0, o, from..(from + n - 1))
  BY <1>0, <1>20, <1>21, <1>22, <1>23, <1>24 DEF Landed
<1>26. o = BadWrite(o0, from, bn, part, byte)
  BY <1>0, <1>6, <1>8, <1>13, <1>16, <1>17, <1>19 DEF BadWrite
<1>27. QED
  BY <1>0, <1>6, <1>10, <1>15, <1>18, <1>20, <1>25, <1>26 DEF BadLanded

-----------------------------------------------------------------------------
(* The inductive invariant of the file, and that it is enough. *)

FileInv ==
  /\ inode \in InodeType /\ WellHung(inode) /\ InUse(inode, bitmap) /\ NoHoles(inode)
  /\ inode.size <= MAXFILE * BSIZE
  /\ bitmap \subseteq DataBlocks /\ others \subseteq bitmap /\ Owned(inode) = bitmap \ others
  /\ cached \in [DataBlocks -> Contents] /\ logged \in [DataBlocks -> Contents]
  /\ off \in 0..(MAXFILE * BSIZE)
  /\ toWrite \in [Writers -> Nat]
  /\ opBlocks \in Nat /\ OpFits

LEMMA ImageSize ==
  ASSUME NEW S, IsFiniteSet(S), NEW f, \A x, y \in S : f[x] = f[y] => x = y
  PROVE  IsFiniteSet({f[x] : x \in S}) /\ Cardinality({f[x] : x \in S}) = Cardinality(S)
<1> DEFINE T == {f[x] : x \in S}
           g == [x \in S |-> f[x]]
<1>1. g \in [S -> T] /\ \A x, y \in S : g[x] = g[y] => x = y
  OBVIOUS
<1>2. \A t \in T : \E x \in S : g[x] = t
  OBVIOUS
<1>3. g \in Bijection(S, T)
  BY <1>1, <1>2 DEF Bijection, Injection, IsInjective, Surjection
<1>4. ExistsBijection(S, T)
  BY <1>3 DEF ExistsBijection
<1>5. QED
  BY <1>4, FS_Bijection

\* A file owns as many blocks as it has addresses that are not 0.
LEMMA OwnedSize ==
  ASSUME NEW ip \in InodeType, WellHung(ip)
  PROVE  Cardinality(Owned(ip)) = Cardinality({n \in DOMAIN ip.addrs : ip.addrs[n] # 0})
                                  + Cardinality({n \in DOMAIN ip.ind : ip.ind[n] # 0})
<1>1. DOMAIN ip.addrs = 0..NDIRECT /\ DOMAIN ip.ind = 0..(NINDIRECT - 1)
  BY DEF InodeType
<1>2. PICK A, B : A = {n \in 0..NDIRECT : ip.addrs[n] # 0} /\ B = {n \in 0..(NINDIRECT - 1) : ip.ind[n] # 0}
  OBVIOUS
<1>3. IsFiniteSet(A) /\ IsFiniteSet(B)
  <2>1. IsFiniteSet(0..NDIRECT) /\ IsFiniteSet(0..(NINDIRECT - 1))
    BY FileSizes, FS_Interval
  <2>2. A \in SUBSET (0..NDIRECT) /\ B \in SUBSET (0..(NINDIRECT - 1))
    BY <1>2
  <2>3. QED
    BY <2>1, <2>2, FS_Subset
<1> DEFINE SlotA(n) == IF n = NDIRECT THEN MAXFILE ELSE n
           SlotB(n) == n + NDIRECT
<1>4. ASSUME NEW n \in 0..NDIRECT
      PROVE  SlotA(n) \in Slots /\ SlotOf(ip, SlotA(n)) = ip.addrs[n]
  <2>1. CASE n = NDIRECT
    BY <2>1, FileSizes DEF Slots, SlotOf
  <2>2. CASE n # NDIRECT
    BY <2>2, FileSizes DEF Slots, SlotOf, BlockAt
  <2>3. QED
    BY <2>1, <2>2
<1>5. ASSUME NEW n \in 0..(NINDIRECT - 1)
      PROVE  SlotB(n) \in Slots /\ SlotOf(ip, SlotB(n)) = ip.ind[n] /\ SlotB(n) \in NDIRECT..(MAXFILE - 1)
  <2>1. SlotB(n) \in Slots /\ SlotB(n) # MAXFILE /\ ~(SlotB(n) < NDIRECT) /\ SlotB(n) - NDIRECT = n
        /\ SlotB(n) \in NDIRECT..(MAXFILE - 1)
    BY FileSizes DEF Slots
  <2>2. QED
    BY <2>1 DEF SlotOf, BlockAt
<1>6. \A x, y \in A : ip.addrs[x] = ip.addrs[y] => x = y
  <2>1. ASSUME NEW x \in A, NEW y \in A, ip.addrs[x] = ip.addrs[y]
        PROVE  x = y
    <3>1. SlotOf(ip, SlotA(x)) # 0 /\ SlotOf(ip, SlotA(x)) = SlotOf(ip, SlotA(y))
          /\ SlotA(x) \in Slots /\ SlotA(y) \in Slots
      BY <1>2, <1>4, <2>1
    <3>2. SlotA(x) = SlotA(y)
      BY <3>1 DEF WellHung
    <3>3. QED
      BY <1>2, <3>2, FileSizes
  <2>2. QED
    BY <2>1
<1>7. \A x, y \in B : ip.ind[x] = ip.ind[y] => x = y
  <2>1. ASSUME NEW x \in B, NEW y \in B, ip.ind[x] = ip.ind[y]
        PROVE  x = y
    <3>1. SlotOf(ip, SlotB(x)) # 0 /\ SlotOf(ip, SlotB(x)) = SlotOf(ip, SlotB(y))
          /\ SlotB(x) \in Slots /\ SlotB(y) \in Slots
      BY <1>2, <1>5, <2>1
    <3>2. SlotB(x) = SlotB(y)
      BY <3>1 DEF WellHung
    <3>3. QED
      BY <1>2, <3>2, FileSizes
  <2>2. QED
    BY <2>1
<1>8. PICK U, V : U = {ip.addrs[n] : n \in A} /\ V = {ip.ind[n] : n \in B}
  OBVIOUS
<1>9. /\ IsFiniteSet(U) /\ Cardinality(U) = Cardinality(A)
      /\ IsFiniteSet(V) /\ Cardinality(V) = Cardinality(B)
  BY <1>3, <1>6, <1>7, <1>8, ImageSize
<1>10. U \cap V = {}
  <2>1. ASSUME NEW x \in A, NEW y \in B, ip.addrs[x] = ip.ind[y]
        PROVE  FALSE
    <3>1. SlotOf(ip, SlotA(x)) # 0 /\ SlotOf(ip, SlotA(x)) = SlotOf(ip, SlotB(y))
          /\ SlotA(x) \in Slots /\ SlotB(y) \in Slots
      BY <1>2, <1>4, <1>5, <2>1
    <3>2. SlotA(x) = SlotB(y)
      BY <3>1 DEF WellHung
    <3>3. QED
      BY <1>2, <3>2, FileSizes
  <2>2. QED
    BY <1>8, <2>1
<1>11. Owned(ip) = U \cup V
  BY <1>1, <1>2, <1>8 DEF Owned
<1>12. Cardinality(U \cup V) = Cardinality(U) + Cardinality(V) - 0
  BY <1>9, <1>10, FS_Union, FS_EmptySet
<1>13. Cardinality(A) \in Nat /\ Cardinality(B) \in Nat
  BY <1>3, FS_CardinalityType
<1>14. QED
  BY <1>1, <1>2, <1>9, <1>11, <1>12, <1>13

LEMMA FileInvIsSound ==
  ASSUME FileInv
  PROVE  FileSound
<1>1. FileTypeOK
  <2>1. inode.size \in 0..(MAXFILE * BSIZE)
    BY FileSizes DEF FileInv, InodeType
  <2>2. inode.addrs \in [0..NDIRECT -> {0} \cup DataBlocks]
        /\ inode.ind \in [0..(NINDIRECT - 1) -> {0} \cup DataBlocks]
    BY DEF FileInv, InodeType, Addrs
  <2>3. \A p \in Writers : toWrite[p] \in Nat
    BY DEF FileInv
  <2>4. QED
    BY <2>1, <2>2, <2>3 DEF FileInv, FileTypeOK, Contents
<1>2. BlocksOwnedOnce
  <2>1. inode \in InodeType /\ WellHung(inode) /\ DOMAIN inode.ind = 0..(NINDIRECT - 1)
    BY DEF FileInv, InodeType
  <2>2. ASSUME inode.addrs[NDIRECT] = 0, NEW n \in 0..(NINDIRECT - 1)
        PROVE  inode.ind[n] = 0
    <3>1. PICK j \in NDIRECT..(MAXFILE - 1) : j = n + NDIRECT /\ j # MAXFILE /\ ~(j < NDIRECT) /\ j - NDIRECT = n
      BY FileSizes
    <3>2. SlotOf(inode, MAXFILE) = 0 /\ SlotOf(inode, j) = inode.ind[n]
      BY <2>2, <3>1 DEF SlotOf, BlockAt
    <3>3. QED
      BY <2>1, <3>1, <3>2 DEF WellHung
  <2>3. QED
    BY <2>1, <2>2, OwnedSize DEF BlocksOwnedOnce, FileInv
<1>3. NoHole
  <2>1. ASSUME NEW bn \in BlockNumbers(0, inode.size)
        PROVE  BlockAt(inode, bn) # 0
    <3>1. BSIZE \in Nat \ {0} /\ inode.size \in Nat /\ MAXFILE * BSIZE \in Nat
      BY FileSizes DEF FileInv, InodeType
    <3>2. PICK k \in 0..(0 + inode.size - 1) : bn = k \div BSIZE
      BY DEF BlockNumbers
    <3>3. k \in Nat /\ k < inode.size
      BY <3>1
    <3>4. bn \in Nat /\ BSIZE * bn <= k
      BY <3>1, <3>2, <3>3, DivBounds
    <3>5. bn \in 0..(MAXFILE - 1)
      <4>1. k \in 0..(MAXFILE * BSIZE - 1)
        BY <3>1, <3>3 DEF FileInv
      <4>2. QED
        BY <3>2, <4>1, InFile
    <3>6. BSIZE * bn < inode.size
      <4>1. BSIZE * bn \in Int
        BY <3>1, <3>4
      <4>2. QED
        BY <3>1, <3>3, <3>4, <4>1
    <3>7. SlotOf(inode, bn) # 0
      BY <3>5, <3>6 DEF FileInv, NoHoles
    <3>8. QED
      BY <3>5, <3>7, FileSizes DEF SlotOf
  <2>2. QED
    BY <2>1 DEF NoHole
<1>4. QED
  BY <1>1, <1>2, <1>3 DEF FileSound, FileInv

LEMMA FileInitInv == FileInit => FileInv
<1> SUFFICES ASSUME FileInit PROVE FileInv
  OBVIOUS
<1>1. inode \in InodeType /\ inode.size = 0
  BY FileSizes DEF FileInit, NoBlocks, InodeType, Addrs
<1>2. \A j \in Slots : SlotOf(inode, j) = 0
  BY FileSizes DEF FileInit, NoBlocks, SlotOf, BlockAt, Slots
<1>3. WellHung(inode) /\ InUse(inode, bitmap)
  BY <1>2, FileSizes DEF WellHung, InUse, Slots
<1>4. NoHoles(inode)
  <2>1. \A bn \in 0..(MAXFILE - 1) : BSIZE * bn >= 0
    BY FileSizes
  <2>2. QED
    BY <1>1, <2>1, FileSizes DEF NoHoles
<1>5. Owned(inode) = {}
  BY <1>1, <1>2, OwnedIs
<1>6. 0 <= MAXFILE * BSIZE /\ MAXFILE * BSIZE \in Nat
  BY FileSizes
<1>7. cached \in [DataBlocks -> Contents] /\ logged \in [DataBlocks -> Contents]
  BY ZeroesType DEF FileInit
<1>8. off = 0 /\ toWrite \in [Writers -> Nat] /\ opBlocks = 0 /\ bitmap = {} /\ others = {}
  BY DEF FileInit
<1>9. OpFits
  BY <1>8, FileDataAssumption DEF OpFits
<1>10. QED
  BY <1>1, <1>3, <1>4, <1>5, <1>6, <1>7, <1>8, <1>9 DEF FileInv

-----------------------------------------------------------------------------
(* The steps keep the invariant. *)

LEMMA OpIsGood ==
  ASSUME FileInv
  PROVE  /\ GoodOp(Op) /\ Op.log = {} /\ NoHoles(Op.ip)
         /\ Op.ip = inode /\ Op.used = bitmap /\ Op.cached = cached /\ Op.logged = logged
<1>1. /\ Op.log = {} /\ Op.ip = inode /\ Op.used = bitmap /\ Op.cached = cached /\ Op.logged = logged
  BY DEF Op
<1>2. Op \in OpType
  BY DEF Op, OpType, FileInv
<1>3. IsFiniteSet(Op.log)
  BY <1>1, FS_EmptySet
<1>4. QED
  BY <1>1, <1>2, <1>3 DEF GoodOp, FileInv

LEMMA CommitKeeps ==
  ASSUME FileInv, NEW o, NEW there, Landed(Op, o, there), CommitOp(o), others' = others,
         o.ip.size <= MAXFILE * BSIZE, off' \in 0..(MAXFILE * BSIZE), toWrite' \in [Writers -> Nat]
  PROVE  FileInv'
<1>1. /\ inode' = o.ip /\ bitmap' = o.used /\ cached' = o.cached /\ logged' = o.logged
      /\ opBlocks' = Cardinality(o.log)
  BY DEF CommitOp
<1>2. GoodOp(o) /\ NoHoles(o.ip) /\ Cardinality(o.log) <= MAXOPBLOCKS
  BY DEF Landed
<1>3. o.ip \in InodeType /\ o.used \subseteq DataBlocks /\ Cardinality(o.log) \in Nat
      /\ o.cached \in [DataBlocks -> Contents] /\ o.logged \in [DataBlocks -> Contents]
  BY <1>2, FS_CardinalityType DEF GoodOp, OpType
<1>4. PICK o0 : o0 = Op
  OBVIOUS
<1>5. o0.ip = inode /\ o0.used = bitmap /\ SlotsKept(o0, o)
  BY <1>4, OpIsGood DEF Landed
<1>6. Owned(o.ip) = o.used \ others
  <2>1. Owned(o.ip) = {SlotOf(o.ip, j) : j \in Slots} \ {0}
    BY <1>3, OwnedIs
  <2>2. {SlotOf(o0.ip, j) : j \in Slots} \ {0} = bitmap \ others /\ others \subseteq bitmap
    <3>1. o0.ip \in InodeType
      BY <1>5 DEF FileInv
    <3>2. Owned(o0.ip) = {SlotOf(o0.ip, j) : j \in Slots} \ {0}
      BY <3>1, OwnedIs
    <3>3. Owned(o0.ip) = bitmap \ others /\ others \subseteq bitmap
      BY <1>5 DEF FileInv
    <3>4. QED
      BY <3>2, <3>3
  <2>3. ASSUME NEW j \in Slots, SlotOf(o.ip, j) # 0
        PROVE  SlotOf(o.ip, j) \in o.used \ others
    <3>1. SlotOf(o.ip, j) \in o.used
      BY <1>2, <2>3 DEF GoodOp, InUse
    <3>2. CASE SlotOf(o0.ip, j) # 0
      <4>1. SlotOf(o.ip, j) = SlotOf(o0.ip, j)
        BY <1>5, <3>2 DEF SlotsKept
      <4>2. SlotOf(o0.ip, j) \in bitmap \ others
        BY <2>2, <3>2
      <4>3. QED
        BY <3>1, <4>1, <4>2
    <3>3. CASE SlotOf(o0.ip, j) = 0
      <4>1. SlotOf(o.ip, j) \notin bitmap
        BY <1>5, <2>3, <3>3 DEF SlotsKept
      <4>2. QED
        BY <2>2, <3>1, <4>1
    <3>4. QED
      BY <3>2, <3>3
  <2>4. ASSUME NEW b \in o.used \ others
        PROVE  b # 0 /\ \E j \in Slots : SlotOf(o.ip, j) = b
    <3>1. b # 0
      BY <1>3, FileSizes
    <3>2. CASE b \in bitmap
      <4>1. PICK j \in Slots : SlotOf(o0.ip, j) = b
        BY <2>2, <2>4, <3>2
      <4>2. QED
        BY <1>5, <3>1, <4>1 DEF SlotsKept
    <3>3. CASE b \notin bitmap
      BY <1>5, <2>4, <3>1, <3>3 DEF SlotsKept
    <3>4. QED
      BY <3>2, <3>3
  <2>5. QED
    BY <2>1, <2>3, <2>4
<1>7. others \subseteq o.used
  BY <1>5 DEF SlotsKept, FileInv
<1>8. WellHung(o.ip) /\ InUse(o.ip, o.used)
  BY <1>2 DEF GoodOp
<1>9. WellHung(inode') /\ InUse(inode', bitmap') /\ NoHoles(inode') /\ Owned(inode') = bitmap' \ others'
  BY <1>1, <1>2, <1>6, <1>8
<1>10. QED
  BY <1>1, <1>2, <1>3, <1>7, <1>9 DEF FileInv, OpFits

LEMMA ChunkOfIs ==
  ASSUME FileInv, NEW p \in Writers, toWrite[p] > 0
  PROVE  ChunkOf(p) \in 1..Chunk /\ ChunkOf(p) <= toWrite[p] /\ Chunk \in Nat
<1>1. BSIZE \in Nat \ {0}
  BY FileSizes
<1>2. PICK c \in Nat : c = (MAXOPBLOCKS - 4) \div 2 /\ c >= 1
  <2>1. MAXOPBLOCKS - 4 \in Nat /\ 2 \in Nat \ {0} /\ 2 <= MAXOPBLOCKS - 4
    BY FileDataAssumption
  <2>2. (MAXOPBLOCKS - 4) \div 2 \in Nat /\ MAXOPBLOCKS - 4 < 2 * ((MAXOPBLOCKS - 4) \div 2) + 2
    BY <2>1, DivBounds
  <2>3. PICK c \in Nat : c = (MAXOPBLOCKS - 4) \div 2
    BY <2>2
  <2>4. QED
    BY <2>1, <2>2, <2>3
<1>3. MAXOPBLOCKS - 1 - 1 - 2 = MAXOPBLOCKS - 4
  BY FileDataAssumption
<1>4. Chunk = c * BSIZE
  BY <1>2, <1>3 DEF Chunk
<1>5. BSIZE * 1 <= BSIZE * c
  BY <1>1, <1>2, ProductMono
<1>6. Chunk \in Nat /\ Chunk >= 1
  BY <1>1, <1>2, <1>4, <1>5
<1>7. toWrite[p] \in Nat
  BY DEF FileInv
<1>8. QED
  BY <1>6, <1>7 DEF ChunkOf

\* What a chunk comes to, and what one comes to whose buffer cannot be read.
ChunkDone(p, n, o) ==
  /\ n \in 1..Chunk /\ n <= toWrite[p] /\ off <= inode.size /\ off + n <= MAXFILE * BSIZE
  /\ Landed(Op, o, off..(off + n - 1)) /\ CommitOp(o)
  /\ off' = off + n /\ toWrite' = [toWrite EXCEPT ![p] = @ - n] /\ others' = others

LEMMA ChunkResult ==
  ASSUME FileInv, NEW p \in Writers, WriteChunk(p)
  PROVE  \E n, o : /\ ChunkDone(p, n, o) /\ BytesPut(o, off..(off + n - 1), p)
                   /\ o.ip.size = (IF off + n > inode.size THEN off + n ELSE inode.size)
<1>1. PICK n : n = ChunkOf(p)
  OBVIOUS
<1>2. n \in 1..Chunk /\ n <= toWrite[p]
  BY <1>1, ChunkOfIs DEF WriteChunk
<1>3. PICK from : from = off
  OBVIOUS
<1>4. PICK o0 : o0 = Op
  OBVIOUS
<1>5. /\ GoodOp(o0) /\ o0.log = {} /\ NoHoles(o0.ip) /\ o0.ip = inode /\ o0.used = bitmap
      /\ from \in Nat /\ from <= o0.ip.size /\ from + n <= MAXFILE * BSIZE
      /\ Needed(o0.ip, BlockNumbers(from, n)) <= Cardinality(DataBlocks \ o0.used)
  <2>1. GoodOp(o0) /\ o0.log = {} /\ NoHoles(o0.ip) /\ o0.ip = inode /\ o0.used = bitmap
    BY <1>4, OpIsGood
  <2>2. from <= inode.size /\ from + n <= MAXFILE * BSIZE
        /\ Needed(inode, BlockNumbers(from, n)) <= Cardinality(DataBlocks \ bitmap)
    BY <1>1, <1>3 DEF WriteChunk, Allowed, HasRoom
  <2>3. from \in Nat
    BY <1>3 DEF FileInv
  <2>4. QED
    BY <2>1, <2>2, <2>3
<1>6. PICK o : o = Sized(WriteBlocks(o0, from, n, p), from + n)
  OBVIOUS
<1>7. /\ Landed(o0, o, from..(from + n - 1)) /\ BytesPut(o, from..(from + n - 1), p)
      /\ o.ip.size = (IF from + n > o0.ip.size THEN from + n ELSE o0.ip.size)
  BY <1>2, <1>5, <1>6, ChunkLands
<1>8. /\ CommitOp(o) /\ off' = off + n /\ toWrite' = [toWrite EXCEPT ![p] = @ - n] /\ others' = others
  BY <1>1, <1>3, <1>4, <1>6 DEF WriteChunk
<1>9. ChunkDone(p, n, o)
  BY <1>2, <1>3, <1>4, <1>5, <1>7, <1>8 DEF ChunkDone
<1>10. QED
  BY <1>3, <1>5, <1>7, <1>9

LEMMA BadResult ==
  ASSUME FileInv, NEW p \in Writers, WriteBadAddress(p)
  PROVE  \E n, o, begin : /\ ChunkDone(p, n, o) /\ begin \in off..(off + n - 1)
                          /\ o.ip.size = (IF begin > inode.size THEN begin ELSE inode.size)
<1>1. PICK n : n = ChunkOf(p)
  OBVIOUS
<1>2. n \in 1..Chunk /\ n <= toWrite[p]
  BY <1>1, ChunkOfIs DEF WriteBadAddress
<1>3. PICK from : from = off
  OBVIOUS
<1>4. PICK o0 : o0 = Op
  OBVIOUS
<1>5. /\ GoodOp(o0) /\ o0.log = {} /\ NoHoles(o0.ip) /\ o0.ip = inode /\ o0.used = bitmap
      /\ from \in Nat /\ from <= o0.ip.size /\ from + n <= MAXFILE * BSIZE
  BY <1>1, <1>3, <1>4, OpIsGood DEF WriteBadAddress, Allowed, FileInv
<1>6. PICK bn \in BlockNumbers(from, n), part \in 0..(BSIZE - 1) :
        /\ HasRoom(BlockNumbers(from, BadBegin(bn, from) - from) \cup {bn})
        /\ BadBegin(bn, from) + part < from + n
        /\ CommitOp(BadWrite(o0, from, bn, part, p))
  BY <1>1, <1>3, <1>4 DEF WriteBadAddress, BadWrite, BadBegin
<1>7. Needed(o0.ip, BlockNumbers(from, BadBegin(bn, from) - from) \cup {bn})
        <= Cardinality(DataBlocks \ o0.used)
  BY <1>5, <1>6 DEF HasRoom
<1>8. PICK begin, o : begin = BadBegin(bn, from) /\ o = BadWrite(o0, from, bn, part, p)
  OBVIOUS
<1>9. /\ Landed(o0, o, from..(from + n - 1))
      /\ begin \in from..(from + n - 1)
      /\ o.ip.size = (IF begin > o0.ip.size THEN begin ELSE o0.ip.size)
  <2>1. BadCall(o0, from, n, bn, part)
    BY <1>2, <1>5, <1>6, <1>7 DEF BadCall
  <2>2. BadLanded(o0, o, from, n, begin)
    BY <1>8, <2>1, BadLands
  <2>3. QED
    BY <2>2 DEF BadLanded
<1>10. /\ CommitOp(o) /\ off' = off + n /\ toWrite' = [toWrite EXCEPT ![p] = @ - n] /\ others' = others
  BY <1>1, <1>6, <1>8 DEF WriteBadAddress
<1>11. ChunkDone(p, n, o)
  BY <1>2, <1>3, <1>4, <1>5, <1>9, <1>10 DEF ChunkDone
<1>12. QED
  BY <1>3, <1>5, <1>9, <1>11

LEMMA ChunkKeeps ==
  ASSUME FileInv, NEW p \in Writers, NEW n, NEW o, ChunkDone(p, n, o), o.ip.size <= MAXFILE * BSIZE
  PROVE  FileInv'
<1>1. off' \in 0..(MAXFILE * BSIZE)
  <2>1. Chunk \in Nat /\ n \in Nat /\ MAXFILE * BSIZE \in Nat
    <3>1. toWrite[p] > 0
      BY DEF ChunkDone, FileInv
    <3>2. QED
      BY <3>1, ChunkOfIs, FileSizes DEF ChunkDone
  <2>2. QED
    BY <2>1 DEF ChunkDone, FileInv
<1>2. toWrite' \in [Writers -> Nat]
  <2>1. toWrite \in [Writers -> Nat] /\ n \in Int /\ n <= toWrite[p]
    BY DEF ChunkDone, FileInv
  <2>2. toWrite[p] - n \in Nat
    BY <2>1
  <2>3. toWrite' = [toWrite EXCEPT ![p] = toWrite[p] - n]
    BY DEF ChunkDone
  <2>4. QED
    BY <2>1, <2>2, <2>3
<1>3. PICK there : Landed(Op, o, there)
  BY DEF ChunkDone
<1>4. CommitOp(o) /\ others' = others
  BY DEF ChunkDone
<1>5. QED
  BY <1>1, <1>2, <1>3, <1>4, CommitKeeps

\* A file that is the same, and opBlocks 0.
LEMMA SameFileKeeps ==
  ASSUME FileInv, inode' = inode, bitmap' = bitmap, others' = others,
         cached' \in [DataBlocks -> Contents], logged' = logged, opBlocks' = 0,
         off' \in 0..(MAXFILE * BSIZE), toWrite' \in [Writers -> Nat]
  PROVE  FileInv'
<1>1. OpFits'
  BY FileDataAssumption DEF OpFits
<1>2. QED
  BY <1>1 DEF FileInv

LEMMA TruncLog ==
  ASSUME NEW ip \in InodeType
  PROVE  LET bs == {BBLOCK(b) : b \in Owned(ip)} \cup {<<"inode">>}
         IN IsFiniteSet(bs) /\ Cardinality(bs) \in Nat /\ Cardinality(bs) <= MAXOPBLOCKS
<1>1. MAXOPBLOCKS \in Nat /\ MAXOPBLOCKS >= 6 /\ FSBLOCKS <= (MAXOPBLOCKS - 1) * BPB
      /\ BPB \in Nat \ {0} /\ FSBLOCKS \in Nat
  BY FileDataAssumption
<1>2. PICK c \in Nat : c = MAXOPBLOCKS - 1
  BY <1>1
<1>3. PICK N : N = {<<"bitmap", i>> : i \in 0..(c - 1)}
  OBVIOUS
<1>4. IsFiniteSet(0..(c - 1)) /\ Cardinality(0..(c - 1)) = c
  BY <1>1, <1>2, FS_Interval
<1>5. IsFiniteSet(N) /\ Cardinality(N) = c
  <2>1. PICK f : f = [i \in 0..(c - 1) |-> <<"bitmap", i>>]
    OBVIOUS
  <2>2. \A x, y \in 0..(c - 1) : f[x] = f[y] => x = y
    BY <2>1
  <2>3. N = {f[i] : i \in 0..(c - 1)}
    BY <1>3, <2>1
  <2>4. QED
    BY <1>4, <2>2, <2>3, ImageSize
<1>6. PICK S : S = {BBLOCK(b) : b \in Owned(ip)}
  OBVIOUS
<1>7. S \in SUBSET N
  <2>1. ASSUME NEW b \in Owned(ip)
        PROVE  BBLOCK(b) \in N
    <3>1. b \in DataBlocks
      <4>1. PICK j \in Slots : b = SlotOf(ip, j) /\ b # 0
        BY OwnedIs
      <4>2. QED
        BY <4>1, SlotType DEF Addrs
    <3>2. PICK a \in Nat : a = b - 1 /\ a < FSBLOCKS
      BY <1>1, <3>1 DEF DataBlocks
    <3>3. PICK q \in Nat : q = a \div BPB /\ BPB * q <= a
      BY <1>1, DivBounds
    <3>4. q < c
      <4>1. SUFFICES ASSUME c <= q PROVE FALSE
        OBVIOUS
      <4>2. BPB * c <= BPB * q
        BY <1>1, <4>1, ProductMono
      <4>3. c * BPB = BPB * c /\ BPB * c \in Int /\ BPB * q \in Int
        BY <1>1
      <4>4. QED
        BY <1>1, <1>2, <3>2, <3>3, <4>2, <4>3
    <3>5. BBLOCK(b) = <<"bitmap", q>>
      BY <3>2, <3>3 DEF BBLOCK
    <3>6. QED
      BY <1>3, <3>4, <3>5
  <2>2. QED
    BY <1>6, <2>1
<1>8. IsFiniteSet(S) /\ Cardinality(S) <= c /\ Cardinality(S) \in Nat
  BY <1>5, <1>7, FS_Subset, FS_CardinalityType
<1>9. PICK L : L = S \cup {<<"inode">>}
  OBVIOUS
<1>10. IsFiniteSet(L) /\ Cardinality(L) \in Nat /\ Cardinality(L) <= Cardinality(S) + 1
  BY <1>8, <1>9, OneMore, Zenon
<1>11. QED
  BY <1>1, <1>2, <1>6, <1>8, <1>9, <1>10

LEMMA NoBlocksIs ==
  /\ NoBlocks \in InodeType /\ NoBlocks.size = 0 /\ \A j \in Slots : SlotOf(NoBlocks, j) = 0
  /\ WellHung(NoBlocks) /\ NoHoles(NoBlocks) /\ Owned(NoBlocks) = {}
<1>1. NoBlocks \in InodeType /\ NoBlocks.size = 0
  BY FileSizes DEF NoBlocks, InodeType, Addrs
<1>2. \A j \in Slots : SlotOf(NoBlocks, j) = 0
  BY FileSizes DEF NoBlocks, SlotOf, BlockAt, Slots
<1>3. WellHung(NoBlocks)
  BY <1>2, FileSizes DEF WellHung, Slots
<1>4. NoHoles(NoBlocks)
  <2>1. \A bn \in 0..(MAXFILE - 1) : BSIZE * bn >= 0
    BY FileSizes
  <2>2. QED
    BY <1>1, <2>1, FileSizes DEF NoHoles
<1>5. Owned(NoBlocks) = {}
  BY <1>1, <1>2, OwnedIs
<1>6. QED
  BY <1>1, <1>2, <1>3, <1>4, <1>5

LEMMA TruncIs ==
  ASSUME FileInv, CommitOp(itrunc(Op))
  PROVE  /\ inode' = NoBlocks /\ bitmap' = bitmap \ Owned(inode) /\ cached' = cached /\ logged' = logged
         /\ opBlocks' = Cardinality({BBLOCK(b) : b \in Owned(inode)} \cup {<<"inode">>})
<1>1. PICK o0, o : o0 = Op /\ o = itrunc(Op)
  OBVIOUS
<1>2. o0 \in OpType /\ o0.ip = inode /\ o0.used = bitmap /\ o0.cached = cached /\ o0.logged = logged
  BY <1>1, OpIsGood DEF GoodOp
<1>3. o = [o0 EXCEPT !.used = @ \ Owned(o0.ip), !.ip = NoBlocks,
                     !.log = {BBLOCK(b) : b \in Owned(o0.ip)} \cup {<<"inode">>}]
  BY <1>1 DEF itrunc
<1>4. o.cached = o0.cached /\ o.logged = o0.logged /\ o.ip = NoBlocks
  BY <1>2, <1>3 DEF OpType
<1>5. o.used = o0.used \ Owned(o0.ip)
  BY <1>2, <1>3 DEF OpType
<1>6. o.log = {BBLOCK(b) : b \in Owned(o0.ip)} \cup {<<"inode">>}
  BY <1>2, <1>3 DEF OpType
<1>7. QED
  BY <1>1, <1>2, <1>4, <1>5, <1>6 DEF CommitOp

LEMMA ReopenKeeps ==
  ASSUME FileInv, Reopen
  PROVE  FileInv'
<1>1. off' \in 0..(MAXFILE * BSIZE) /\ toWrite' \in [Writers -> Nat] /\ others' = others
  BY FileSizes DEF Reopen, FileInv
<1>2. CASE CommitOp(itrunc(Op))
  <2>1. /\ inode' = NoBlocks /\ bitmap' = bitmap \ Owned(inode) /\ cached' = cached /\ logged' = logged
        /\ opBlocks' = Cardinality({BBLOCK(b) : b \in Owned(inode)} \cup {<<"inode">>})
    BY <1>2, TruncIs
  <2>2. opBlocks' \in Nat /\ OpFits'
    <3>1. inode \in InodeType
      BY DEF FileInv
    <3>2. QED
      BY <2>1, <3>1, TruncLog DEF OpFits
  <2>3. bitmap' = others' /\ bitmap' \subseteq DataBlocks
    BY <1>1, <2>1 DEF FileInv
  <2>4. InUse(inode', bitmap') /\ WellHung(inode') /\ NoHoles(inode') /\ inode' \in InodeType
        /\ Owned(inode') = bitmap' \ others' /\ inode'.size = 0
    BY <2>1, <2>3, NoBlocksIs DEF InUse
  <2>5. inode'.size <= MAXFILE * BSIZE
    BY <2>4, FileSizes
  <2>6. QED
    BY <1>1, <2>1, <2>2, <2>3, <2>4, <2>5 DEF FileInv
<1>3. CASE UNCHANGED <<inode, bitmap, cached, logged>> /\ opBlocks' = 0
  BY <1>1, <1>3, SameFileKeeps DEF FileInv
<1>4. QED
  BY <1>2, <1>3 DEF Reopen

LEMMA ReadResult ==
  ASSUME FileInv, NEW p \in Writers, Read(p)
  PROVE  off' \in Nat /\ off < off' /\ off' <= inode.size
<1>1. BSIZE \in Nat \ {0} /\ inode.size \in Nat /\ off \in Nat /\ off < inode.size
  BY FileSizes DEF FileInv, InodeType, Read
<1>2. PICK n \in Lengths :
        LET end == IF off + n > inode.size THEN inode.size ELSE off + n
        IN \E r \in {end} \cup {bn * BSIZE : bn \in BlockNumbers(off, end - off)} : r > off /\ off' = r
  BY Zenon DEF Read
<1>3. n \in Nat
  BY FileDataAssumption
<1>4. PICK end \in Nat : end = (IF off + n > inode.size THEN inode.size ELSE off + n)
  BY <1>1, <1>3
<1>5. PICK r \in {end} \cup {bn * BSIZE : bn \in BlockNumbers(off, end - off)} : r > off /\ off' = r
  BY <1>2, <1>4
<1>6. end <= inode.size
  BY <1>1, <1>3, <1>4
<1>7. CASE r = end
  BY <1>1, <1>5, <1>6, <1>7
<1>8. ASSUME NEW bn \in BlockNumbers(off, end - off), r = bn * BSIZE
      PROVE  r \in Nat /\ r <= inode.size
  <2>1. PICK k \in off..(off + (end - off) - 1) : bn = k \div BSIZE
    BY DEF BlockNumbers
  <2>2. k \in Nat /\ k <= end - 1
    BY <1>1, <1>4
  <2>3. bn \in Nat /\ BSIZE * bn <= k
    BY <1>1, <2>1, <2>2, DivBounds
  <2>4. bn * BSIZE = BSIZE * bn /\ BSIZE * bn \in Nat
    BY <1>1, <2>3
  <2>5. QED
    BY <1>1, <1>6, <1>8, <2>2, <2>3, <2>4
<1>9. QED
  BY <1>1, <1>5, <1>7, <1>8

LEMMA OtherTakesKeeps ==
  ASSUME FileInv, OtherTakes
  PROVE  FileInv'
<1>1. PICK b \in DataBlocks \ bitmap : bitmap' = bitmap \cup {b} /\ others' = {b} /\ others = {}
  <2>1. bitmap \in SUBSET DataBlocks /\ DataBlocks \ bitmap # {}
    BY DEF FileInv, OtherTakes
  <2>2. FreeBlock(bitmap) \in DataBlocks \ bitmap
    BY <2>1, LeastBlock
  <2>3. QED
    BY <2>2 DEF OtherTakes
<1>2. bitmap' \subseteq DataBlocks /\ others' \subseteq bitmap' /\ Owned(inode) = bitmap' \ others'
  BY <1>1 DEF FileInv
<1>3. inode' = inode /\ InUse(inode', bitmap')
  BY <1>1 DEF FileInv, InUse, OtherTakes
<1>4. cached' = cached /\ logged' = logged /\ off' = off /\ toWrite' = toWrite /\ opBlocks' = 0
  BY DEF OtherTakes
<1>5. OpFits'
  BY <1>4, FileDataAssumption DEF OpFits
<1>6. QED
  BY <1>2, <1>3, <1>4, <1>5 DEF FileInv

LEMMA OtherFreesKeeps ==
  ASSUME FileInv, OtherFrees
  PROVE  FileInv'
<1>1. bitmap' = bitmap \ others /\ others' = {} /\ inode' = inode
  BY DEF OtherFrees
<1>2. bitmap' \subseteq DataBlocks /\ others' \subseteq bitmap' /\ Owned(inode) = bitmap' \ others'
  BY <1>1 DEF FileInv
<1>3. InUse(inode', bitmap')
  <2>1. inode \in InodeType
    BY DEF FileInv
  <2>2. ASSUME NEW j \in Slots, SlotOf(inode, j) # 0
        PROVE  SlotOf(inode, j) \in bitmap'
    BY <1>1, <1>2, <2>1, <2>2, OwnedIs
  <2>3. QED
    BY <1>1, <2>2 DEF InUse
<1>4. cached' = cached /\ logged' = logged /\ off' = off /\ toWrite' = toWrite /\ opBlocks' = 0
  BY DEF OtherFrees
<1>5. OpFits'
  BY <1>4, FileDataAssumption DEF OpFits
<1>6. QED
  BY <1>1, <1>2, <1>3, <1>4, <1>5 DEF FileInv

LEMMA FileStep == FileInv /\ [FileNext]_fileVars => FileInv'
<1> SUFFICES ASSUME FileInv, [FileNext]_fileVars PROVE FileInv'
  OBVIOUS
<1>0. /\ cached \in [DataBlocks -> Contents] /\ logged \in [DataBlocks -> Contents]
      /\ off \in 0..(MAXFILE * BSIZE) /\ toWrite \in [Writers -> Nat]
  BY DEF FileInv
<1>1. ASSUME NEW p \in Writers, WriteCall(p) PROVE FileInv'
  <2>1. toWrite' \in [Writers -> Nat]
    BY <1>0, <1>1, FileDataAssumption DEF WriteCall
  <2>2. QED
    BY <1>0, <1>1, <2>1, SameFileKeeps DEF WriteCall
<1>2. ASSUME NEW p \in Writers, WriteChunk(p) PROVE FileInv'
  <2>1. PICK n, o : /\ ChunkDone(p, n, o)
                    /\ o.ip.size = (IF off + n > inode.size THEN off + n ELSE inode.size)
    BY <1>2, ChunkResult
  <2>2. o.ip.size <= MAXFILE * BSIZE
    BY <2>1 DEF ChunkDone, FileInv
  <2>3. QED
    BY <2>1, <2>2, ChunkKeeps
<1>3. ASSUME NEW p \in Writers, WriteBadAddress(p) PROVE FileInv'
  <2>1. PICK n, o, begin : /\ ChunkDone(p, n, o) /\ begin \in off..(off + n - 1)
                           /\ o.ip.size = (IF begin > inode.size THEN begin ELSE inode.size)
    BY <1>3, BadResult
  <2>2. o.ip.size <= MAXFILE * BSIZE
    <3>1. toWrite[p] > 0 /\ Chunk \in Nat
      BY <1>3, ChunkOfIs DEF WriteBadAddress
    <3>2. n \in Nat /\ off \in Nat /\ MAXFILE * BSIZE \in Nat /\ off + n <= MAXFILE * BSIZE
      BY <1>0, <2>1, <3>1, FileSizes DEF ChunkDone
    <3>3. begin <= MAXFILE * BSIZE
      BY <2>1, <3>2
    <3>4. QED
      BY <2>1, <3>3 DEF FileInv
  <2>3. QED
    BY <2>1, <2>2, ChunkKeeps
<1>4. ASSUME NEW p \in Writers, WriteRefused(p) PROVE FileInv'
  <2>1. toWrite' \in [Writers -> Nat]
    BY <1>0, <1>4 DEF WriteRefused
  <2>2. QED
    BY <1>0, <1>4, <2>1, SameFileKeeps DEF WriteRefused
<1>5. ASSUME NEW p \in Writers, Read(p) PROVE FileInv'
  <2>1. off' \in 0..(MAXFILE * BSIZE)
    <3>1. off' \in Nat /\ off' <= inode.size
      BY <1>5, ReadResult
    <3>2. inode.size \in Nat /\ inode.size <= MAXFILE * BSIZE /\ MAXFILE * BSIZE \in Nat
      BY FileSizes DEF FileInv, InodeType
    <3>3. QED
      BY <3>1, <3>2
  <2>2. QED
    BY <1>0, <1>5, <2>1, SameFileKeeps DEF Read
<1>6. ASSUME NEW b \in DataBlocks, Evict(b) PROVE FileInv'
  <2>1. cached' \in [DataBlocks -> Contents]
    BY <1>0, <1>6 DEF Evict
  <2>2. QED
    BY <1>0, <1>6, <2>1, SameFileKeeps DEF Evict
<1>7. CASE UNCHANGED fileVars
  BY <1>7 DEF fileVars, FileInv, OpFits
<1>8. QED
  BY <1>1, <1>2, <1>3, <1>4, <1>5, <1>6, <1>7, ReopenKeeps, OtherTakesKeeps, OtherFreesKeeps
     DEF FileNext

\* The content of files (fs.c): a block in use belongs to one file, at one place, and none is
\* lost, whatever writes fail; a file has no hole below its size; and the blocks that a call of
\* writei() or itrunc() changes fit in one transaction of the log.
THEOREM FileAlwaysSound == FileSpec => []FileSound
<1>1. FileSpec => []FileInv
  BY FileInitInv, FileStep, PTL DEF FileSpec
<1>2. FileInv => FileSound
  BY FileInvIsSound
<1>3. QED
  BY <1>1, <1>2, PTL

-----------------------------------------------------------------------------
(* Every step of the file is one of a sequence of bytes, or none. *)

Cell(ip, m, k) == m[BlockAt(ip, k \div BSIZE)][k % BSIZE]
ContentOf(ip, m) == [k \in 1..ip.size |-> Cell(ip, m, k - 1)]
TornOf(ip, c, l) == {k \in 0..(ip.size - 1) : Cell(ip, c, k) # Cell(ip, l, k)}

LEMMA CellIs ==
  ASSUME NEW k \in 0..(MAXFILE * BSIZE - 1)
  PROVE  \E bn \in 0..(MAXFILE - 1), i \in 0..(BSIZE - 1) :
           /\ k = bn * BSIZE + i /\ k = BSIZE * bn + i
           /\ \A ip, m : Cell(ip, m, k) = m[SlotOf(ip, bn)][i]
<1>1. BSIZE \in Nat \ {0} /\ k \in Int /\ k \in Nat
  BY FileSizes
<1>2. PICK bn \in 0..(MAXFILE - 1) : bn = k \div BSIZE
  BY InFile
<1>3. PICK i \in 0..(BSIZE - 1) : i = k % BSIZE /\ k = BSIZE * (k \div BSIZE) + i
  BY <1>1, ModDiv
<1>4. bn # MAXFILE
  BY FileSizes
<1>5. ASSUME NEW ip, NEW m
      PROVE  Cell(ip, m, k) = m[SlotOf(ip, bn)][i]
  BY <1>2, <1>3, <1>4, Zenon DEF Cell, SlotOf
<1>6. k = BSIZE * bn + i /\ BSIZE * bn = bn * BSIZE
  BY <1>1, <1>2, <1>3
<1>7. QED
  BY <1>5, <1>6

LEMMA ContentIs ==
  ASSUME NEW ip \in InodeType, NEW m
  PROVE  /\ Len(ContentOf(ip, m)) = ip.size
         /\ \A k \in 0..(ip.size - 1) : ContentOf(ip, m)[k + 1] = Cell(ip, m, k)
<1>1. ip.size \in Nat
  BY DEF InodeType
<1>2. PICK n \in Nat : n = ip.size
  BY <1>1
<1>3. PICK s : s = [k \in 1..n |-> Cell(ip, m, k - 1)]
  OBVIOUS
<1>4. Len(s) = n
  BY <1>3
<1>5. \A k \in 0..(n - 1) : k + 1 \in 1..n /\ (k + 1) - 1 = k
  OBVIOUS
<1>6. \A k \in 0..(n - 1) : s[k + 1] = Cell(ip, m, k)
  BY <1>3, <1>5
<1>7. QED
  BY <1>2, <1>3, <1>4, <1>6 DEF ContentOf

\* What a write leaves of the bytes, and of those that are torn.
LEMMA LandedBytes ==
  ASSUME NEW o0, GoodOp(o0), NoHoles(o0.ip), o0.ip.size <= MAXFILE * BSIZE,
         NEW o, NEW from \in Nat, NEW n \in Nat, from <= o0.ip.size, from + n <= MAXFILE * BSIZE,
         Landed(o0, o, from..(from + n - 1)),
         o.ip.size \in Nat, o.ip.size <= o0.ip.size \/ o.ip.size <= from + n
  PROVE  /\ \A k \in 0..(o0.ip.size - 1) :
              k \notin from..(from + n - 1) => Cell(o.ip, o.cached, k) = Cell(o0.ip, o0.cached, k)
         /\ TornOf(o.ip, o.cached, o.logged)
              \subseteq TornOf(o0.ip, o0.cached, o0.logged) \cup (from..(from + n - 1))
<1>1. o0.ip.size \in Nat /\ MAXFILE * BSIZE \in Nat /\ BSIZE \in Nat \ {0}
  BY FileSizes DEF GoodOp, OpType, InodeType
<1>2. PICK there : there = from..(from + n - 1)
  OBVIOUS
<1>3. ASSUME NEW k \in 0..(o0.ip.size - 1), k \notin there
      PROVE  /\ Cell(o.ip, o.cached, k) = Cell(o0.ip, o0.cached, k)
             /\ Cell(o.ip, o.cached, k) # Cell(o.ip, o.logged, k)
                  => Cell(o0.ip, o0.cached, k) # Cell(o0.ip, o0.logged, k)
  <2>1. k \in 0..(MAXFILE * BSIZE - 1)
    BY <1>1
  <2>2. PICK bn \in 0..(MAXFILE - 1), i \in 0..(BSIZE - 1) :
          /\ k = bn * BSIZE + i /\ k = BSIZE * bn + i
          /\ \A ip, m : Cell(ip, m, k) = m[SlotOf(ip, bn)][i]
    BY <2>1, CellIs
  <2>3. PICK b : b = SlotOf(o0.ip, bn)
    OBVIOUS
  <2>4. b # 0
    <3>1. BSIZE * bn < o0.ip.size
      <4>1. BSIZE * bn \in Int
        BY <1>1
      <4>2. QED
        BY <1>1, <2>2, <4>1, SMTT(30)
    <3>2. QED
      BY <2>3, <3>1 DEF NoHoles
  <2>5. SlotOf(o.ip, bn) = b
    <3>1. bn \in Slots
      BY FileSizes DEF Slots
    <3>2. QED
      BY <2>3, <2>4, <3>1 DEF Landed, SlotsKept
  <2>6. /\ o.cached[b][i] = o0.cached[b][i]
        /\ o.cached[b][i] # o.logged[b][i] => o0.cached[b][i] # o0.logged[b][i]
    <3>1. BytesKept(o0, o, there)
      BY <1>2 DEF Landed
    <3>2. bn * BSIZE + i \notin there
      BY <1>3, <2>2
    <3>3. QED
      BY <2>3, <2>4, <3>1, <3>2 DEF BytesKept
  <2>7. /\ Cell(o.ip, o.cached, k) = o.cached[b][i] /\ Cell(o.ip, o.logged, k) = o.logged[b][i]
        /\ Cell(o0.ip, o0.cached, k) = o0.cached[b][i] /\ Cell(o0.ip, o0.logged, k) = o0.logged[b][i]
    BY <2>2, <2>3, <2>5, Zenon
  <2>8. QED
    BY <2>6, <2>7
<1>4. ASSUME NEW k \in TornOf(o.ip, o.cached, o.logged), k \notin there
      PROVE  k \in TornOf(o0.ip, o0.cached, o0.logged)
  <2>1. k \in 0..(o.ip.size - 1) /\ Cell(o.ip, o.cached, k) # Cell(o.ip, o.logged, k)
    BY DEF TornOf
  <2>2. k \in 0..(o0.ip.size - 1)
    BY <1>1, <1>2, <1>4, <2>1
  <2>3. QED
    BY <1>3, <1>4, <2>1, <2>2 DEF TornOf
<1>5. QED
  BY <1>2, <1>3, <1>4

LEMMA PutBytes ==
  ASSUME NEW o, NEW from \in Nat, NEW n \in Nat, from + n <= MAXFILE * BSIZE, NEW byte,
         BytesPut(o, from..(from + n - 1), byte)
  PROVE  \A k \in from..(from + n - 1) :
           Cell(o.ip, o.cached, k) = byte /\ k \notin TornOf(o.ip, o.cached, o.logged)
<1>1. PICK there : there = from..(from + n - 1)
  OBVIOUS
<1>2. SUFFICES ASSUME NEW k \in there
               PROVE  Cell(o.ip, o.cached, k) = byte /\ k \notin TornOf(o.ip, o.cached, o.logged)
  BY <1>1
<1>3. k \in 0..(MAXFILE * BSIZE - 1)
  BY <1>1, FileSizes
<1>4. PICK bn \in 0..(MAXFILE - 1), i \in 0..(BSIZE - 1) :
        /\ k = bn * BSIZE + i
        /\ \A ip, m : Cell(ip, m, k) = m[SlotOf(ip, bn)][i]
  BY <1>3, CellIs
<1>5. PICK b : b = SlotOf(o.ip, bn)
  OBVIOUS
<1>6. o.cached[b][i] = byte /\ o.logged[b][i] = byte
  BY <1>1, <1>2, <1>4, <1>5 DEF BytesPut
<1>7. Cell(o.ip, o.cached, k) = byte /\ Cell(o.ip, o.logged, k) = byte
  BY <1>4, <1>5, <1>6, Zenon
<1>8. QED
  BY <1>7 DEF TornOf

\* The steps of ByteFile, of the bytes s and the torn ones u, to t and v.
AgreeOff(s, t, some) ==
  \A k \in (0..(Len(s) - 1)) \cap (0..(Len(t) - 1)) : k \notin some => s[k + 1] = t[k + 1]
WriteOf(s, t, u, v, from, from1, n, byte) ==
  /\ from <= Len(s) /\ from + n <= MAXFILE * BSIZE
  /\ Len(t) = (IF from + n > Len(s) THEN from + n ELSE Len(s))
  /\ AgreeOff(s, t, from..(from + n - 1))
  /\ \A k \in from..(from + n - 1) : t[k + 1] = byte
  /\ v \subseteq u \ (from..(from + n - 1)) /\ from1 = from + n
TornWriteOf(s, t, u, v, from, from1, n) ==
  /\ from <= Len(s) /\ from + n <= MAXFILE * BSIZE
  /\ Len(t) = Len(s) \/ Len(t) \in Len(s)..(from + n)
  /\ AgreeOff(s, t, from..(from + n - 1))
  /\ v \subseteq u \cup (from..(from + n - 1)) /\ from1 = from + n
FlickerOf(s, t, u, v) == Len(t) = Len(s) /\ AgreeOff(s, t, u) /\ v \subseteq u

LEMMA ByteSteps ==
  ASSUME NEW s, s = ContentOf(inode, cached), NEW t, t = ContentOf(inode', cached'),
         NEW u, u = TornOf(inode, cached, logged), NEW v, v = TornOf(inode', cached', logged')
  PROVE  /\ \A n, byte : WriteOf(s, t, u, v, off, off', n, byte) => F!Write(n, byte)
         /\ \A n : TornWriteOf(s, t, u, v, off, off', n) => F!WriteTorn(n)
         /\ FlickerOf(s, t, u, v) /\ off' = off => F!Flicker
         /\ \A n : off < Len(s) /\ (\E r \in 1..n : off + r <= Len(s) /\ off' = off + r) /\ s = t /\ u = v
                   => F!Read(n)
         /\ t \in {s, <<>>} /\ v \subseteq u /\ off' = 0 => F!Reopen
<1>1. /\ s = [k \in 1..inode.size |-> ByteAt(cached, k - 1)]
      /\ u = {k \in 0..(inode.size - 1) : ByteAt(cached, k) # ByteAt(logged, k)}
  BY DEF ContentOf, TornOf, Cell, ByteAt
<1>2. /\ t = [k \in 1..inode.size |-> ByteAt(cached, k - 1)]'
      /\ v = {k \in 0..(inode.size - 1) : ByteAt(cached, k) # ByteAt(logged, k)}'
  BY DEF ContentOf, TornOf, Cell, ByteAt
<1>3. ASSUME NEW n, NEW byte, WriteOf(s, t, u, v, off, off', n, byte)
      PROVE  F!Write(n, byte)
  BY <1>1, <1>2, <1>3 DEF WriteOf, AgreeOff, F!Write, F!AgreeBut, F!Positions, F!AtPos
<1>4. ASSUME NEW n, TornWriteOf(s, t, u, v, off, off', n)
      PROVE  F!WriteTorn(n)
  BY <1>1, <1>2, <1>4 DEF TornWriteOf, AgreeOff, F!WriteTorn, F!AgreeBut, F!Positions, F!AtPos
<1>5. ASSUME FlickerOf(s, t, u, v), off' = off
      PROVE  F!Flicker
  BY <1>1, <1>2, <1>5 DEF FlickerOf, AgreeOff, F!Flicker, F!AgreeBut, F!Positions, F!AtPos
<1>6. ASSUME NEW n, off < Len(s), \E r \in 1..n : off + r <= Len(s) /\ off' = off + r, s = t, u = v
      PROVE  F!Read(n)
  BY <1>1, <1>2, <1>6 DEF F!Read
<1>7. ASSUME t \in {s, <<>>}, v \subseteq u, off' = 0
      PROVE  F!Reopen
  BY <1>1, <1>2, <1>7 DEF F!Reopen
<1>8. QED
  BY <1>3, <1>4, <1>5, <1>6, <1>7

LEMMA SameBytes ==
  ASSUME inode' = inode, cached' = cached, logged' = logged
  PROVE  /\ ContentOf(inode', cached') = ContentOf(inode, cached)
         /\ TornOf(inode', cached', logged') = TornOf(inode, cached, logged)
OBVIOUS

\* What a chunk and a write that fails have in common.
LEMMA DoneBytes ==
  ASSUME FileInv, FileInv', NEW p \in Writers, NEW n, NEW o, ChunkDone(p, n, o),
         o.ip.size <= inode.size \/ o.ip.size <= off + n
  PROVE  LET s == ContentOf(inode, cached)
             t == ContentOf(inode', cached')
             there == off..(off + n - 1)
         IN /\ n \in Nat \ {0} /\ off <= Len(s) /\ off + n <= MAXFILE * BSIZE /\ off' = off + n
            /\ Len(s) = inode.size /\ Len(t) = o.ip.size /\ Len(s) \in Nat /\ Len(t) \in Nat
            /\ AgreeOff(s, t, there)
            /\ TornOf(inode', cached', logged') \subseteq TornOf(inode, cached, logged) \cup there
<1>1. PICK from, o0 : from = off /\ o0 = Op
  OBVIOUS
<1>2. n \in Nat \ {0} /\ from \in Nat
  <2>1. toWrite[p] > 0
    BY DEF ChunkDone, FileInv
  <2>2. QED
    BY <1>1, <2>1, ChunkOfIs DEF ChunkDone, FileInv
<1>3. /\ GoodOp(o0) /\ NoHoles(o0.ip) /\ o0.ip = inode /\ o0.cached = cached /\ o0.logged = logged
      /\ o0.ip.size <= MAXFILE * BSIZE
  BY <1>1, OpIsGood DEF FileInv
<1>4. /\ from <= inode.size /\ from + n <= MAXFILE * BSIZE
      /\ Landed(o0, o, from..(from + n - 1)) /\ off' = off + n
      /\ o.ip = inode' /\ o.cached = cached' /\ o.logged = logged'
  BY <1>1 DEF ChunkDone, CommitOp
<1>5. inode \in InodeType /\ inode' \in InodeType /\ inode.size \in Nat /\ o.ip.size \in Nat
  <2>1. inode \in InodeType /\ inode' \in InodeType
    BY DEF FileInv
  <2>2. QED
    BY <1>4, <2>1 DEF InodeType
<1>6. /\ \A k \in 0..(inode.size - 1) :
           k \notin from..(from + n - 1) => Cell(inode', cached', k) = Cell(inode, cached, k)
      /\ TornOf(inode', cached', logged')
           \subseteq TornOf(inode, cached, logged) \cup (from..(from + n - 1))
  <2>1. o.ip.size <= o0.ip.size \/ o.ip.size <= from + n
    BY <1>1, <1>3
  <2>2. /\ \A k \in 0..(o0.ip.size - 1) :
             k \notin from..(from + n - 1) => Cell(o.ip, o.cached, k) = Cell(o0.ip, o0.cached, k)
        /\ TornOf(o.ip, o.cached, o.logged)
             \subseteq TornOf(o0.ip, o0.cached, o0.logged) \cup (from..(from + n - 1))
    BY <1>2, <1>3, <1>4, <1>5, <2>1, LandedBytes
  <2>3. QED
    BY <1>3, <1>4, <2>2
<1>7. PICK s, t : s = ContentOf(inode, cached) /\ t = ContentOf(inode', cached')
  OBVIOUS
<1>8. /\ Len(s) = inode.size /\ \A k \in 0..(inode.size - 1) : s[k + 1] = Cell(inode, cached, k)
      /\ Len(t) = inode'.size /\ \A k \in 0..(inode'.size - 1) : t[k + 1] = Cell(inode', cached', k)
  BY <1>5, <1>7, ContentIs
<1>9. AgreeOff(s, t, from..(from + n - 1))
  <2>1. ASSUME NEW k \in (0..(Len(s) - 1)) \cap (0..(Len(t) - 1)), k \notin from..(from + n - 1)
        PROVE  s[k + 1] = t[k + 1]
    BY <1>6, <1>8, <2>1
  <2>2. QED
    BY <2>1 DEF AgreeOff
<1>10. QED
  BY <1>1, <1>2, <1>4, <1>5, <1>6, <1>7, <1>8, <1>9

LEMMA ChunkRefines ==
  ASSUME FileInv, FileInv', NEW p \in Writers, WriteChunk(p)
  PROVE  \E n \in 1..Chunk : F!Write(n, p)
<1>1. PICK n, o : /\ ChunkDone(p, n, o) /\ BytesPut(o, off..(off + n - 1), p)
                  /\ o.ip.size = (IF off + n > inode.size THEN off + n ELSE inode.size)
  BY ChunkResult
<1>2. PICK s, t, u, v : /\ s = ContentOf(inode, cached) /\ t = ContentOf(inode', cached')
                        /\ u = TornOf(inode, cached, logged) /\ v = TornOf(inode', cached', logged')
  OBVIOUS
<1>3. PICK there : there = off..(off + n - 1)
  OBVIOUS
<1>4. inode.size \in Nat /\ off \in Nat /\ inode' \in InodeType
  BY DEF FileInv, InodeType
<1>5. n \in Int
  BY <1>1 DEF ChunkDone
<1>6. o.ip.size <= inode.size \/ o.ip.size <= off + n
  BY <1>1, <1>4, <1>5
<1>7. /\ n \in Nat \ {0} /\ off <= Len(s) /\ off + n <= MAXFILE * BSIZE /\ off' = off + n
      /\ Len(s) = inode.size /\ Len(t) = o.ip.size
      /\ AgreeOff(s, t, there) /\ v \subseteq u \cup there
  BY <1>1, <1>2, <1>3, <1>6, DoneBytes
<1>8. o.ip = inode' /\ o.cached = cached' /\ o.logged = logged' /\ n \in 1..Chunk
  BY <1>1 DEF ChunkDone, CommitOp
<1>9. \A k \in there : Cell(inode', cached', k) = p /\ k \notin v
  <2>1. PICK from \in Nat : from = off
    BY <1>4
  <2>2. \A k \in from..(from + n - 1) :
          Cell(o.ip, o.cached, k) = p /\ k \notin TornOf(o.ip, o.cached, o.logged)
    BY <1>1, <1>7, <2>1, PutBytes
  <2>3. QED
    BY <1>2, <1>3, <1>8, <2>1, <2>2
<1>10. \A k \in there : t[k + 1] = p
  <2>1. \A k \in 0..(inode'.size - 1) : t[k + 1] = Cell(inode', cached', k)
    BY <1>2, <1>4, ContentIs
  <2>2. \A k \in there : k \in 0..(o.ip.size - 1)
    BY <1>1, <1>3, <1>4, <1>7
  <2>3. QED
    BY <1>8, <1>9, <2>1, <2>2
<1>11. v \subseteq u \ there
  BY <1>7, <1>9
<1>12. Len(t) = (IF off + n > Len(s) THEN off + n ELSE Len(s))
  BY <1>1, <1>7
<1>13. WriteOf(s, t, u, v, off, off', n, p)
  BY <1>3, <1>7, <1>10, <1>11, <1>12 DEF WriteOf
<1>14. F!Write(n, p)
  BY <1>2, <1>13, ByteSteps
<1>15. QED
  BY <1>8, <1>14

LEMMA BadRefines ==
  ASSUME FileInv, FileInv', NEW p \in Writers, WriteBadAddress(p)
  PROVE  \E n \in 1..Chunk : F!WriteTorn(n)
<1>1. PICK n, o, begin : /\ ChunkDone(p, n, o) /\ begin \in off..(off + n - 1)
                         /\ o.ip.size = (IF begin > inode.size THEN begin ELSE inode.size)
  BY BadResult
<1>2. PICK s, t, u, v : /\ s = ContentOf(inode, cached) /\ t = ContentOf(inode', cached')
                        /\ u = TornOf(inode, cached, logged) /\ v = TornOf(inode', cached', logged')
  OBVIOUS
<1>3. inode.size \in Nat /\ off \in Nat
  BY DEF FileInv, InodeType
<1>4. n \in Int /\ n \in 1..Chunk
  BY <1>1 DEF ChunkDone
<1>5. begin \in Int /\ begin <= off + n
  BY <1>1, <1>3, <1>4
<1>6. o.ip.size <= inode.size \/ o.ip.size <= off + n
  BY <1>1, <1>3, <1>5
<1>7. /\ n \in Nat \ {0} /\ off <= Len(s) /\ off + n <= MAXFILE * BSIZE /\ off' = off + n
      /\ Len(s) = inode.size /\ Len(t) = o.ip.size
      /\ AgreeOff(s, t, off..(off + n - 1)) /\ v \subseteq u \cup (off..(off + n - 1))
  BY <1>1, <1>2, <1>6, DoneBytes
<1>8. Len(t) = Len(s) \/ Len(t) \in Len(s)..(off + n)
  BY <1>1, <1>3, <1>4, <1>5, <1>7
<1>9. TornWriteOf(s, t, u, v, off, off', n)
  BY <1>7, <1>8 DEF TornWriteOf
<1>10. F!WriteTorn(n)
  BY <1>2, <1>9, ByteSteps
<1>11. QED
  BY <1>4, <1>10

LEMMA ReadRefines ==
  ASSUME FileInv, NEW p \in Writers, Read(p)
  PROVE  F!Read(MAXFILE * BSIZE)
<1>1. PICK s, t, u, v : /\ s = ContentOf(inode, cached) /\ t = ContentOf(inode', cached')
                        /\ u = TornOf(inode, cached, logged) /\ v = TornOf(inode', cached', logged')
  OBVIOUS
<1>2. s = t /\ u = v
  BY <1>1, SameBytes DEF Read
<1>3. inode \in InodeType /\ inode.size \in Nat /\ inode.size <= MAXFILE * BSIZE /\ MAXFILE * BSIZE \in Nat
      /\ off \in Nat
  BY FileSizes DEF FileInv, InodeType
<1>4. Len(s) = inode.size
  BY <1>1, <1>3, ContentIs
<1>5. off' \in Nat /\ off < off' /\ off' <= inode.size
  BY ReadResult
<1>6. PICK x \in Nat, y \in Nat, max \in Nat : x = off /\ y = off' /\ max = MAXFILE * BSIZE
  BY <1>3, <1>5
<1>7. y - x \in 1..max /\ y = x + (y - x) /\ x < Len(s) /\ y <= Len(s)
  <2>1. PICK size \in Nat : size = inode.size
    BY <1>3
  <2>2. x < y /\ y <= size
    BY <1>5, <1>6, <2>1
  <2>3. size <= max
    BY <1>3, <1>6, <2>1
  <2>4. size = Len(s)
    BY <1>4, <2>1
  <2>5. QED
    BY <2>2, <2>3, <2>4
<1>8. \E r \in 1..max : x + r <= Len(s) /\ y = x + r
  BY <1>7
<1>9. QED
  BY <1>1, <1>2, <1>6, <1>7, <1>8, ByteSteps

LEMMA NoBytes ==
  ASSUME NEW m, NEW c, NEW l
  PROVE  ContentOf(NoBlocks, m) = <<>> /\ TornOf(NoBlocks, c, l) = {}
<1>1. NoBlocks.size = 0 /\ 1..0 = {} /\ 0..(0 - 1) = {}
  BY NoBlocksIs
<1>2. TornOf(NoBlocks, c, l) = {}
  BY <1>1 DEF TornOf
<1>3. PICK s : s = ContentOf(NoBlocks, m)
  OBVIOUS
<1>4. s = [k \in 1..0 |-> Cell(NoBlocks, m, k - 1)]
  BY <1>1, <1>3 DEF ContentOf
<1>5. s = <<>>
  BY <1>4
<1>6. QED
  BY <1>2, <1>3, <1>5

LEMMA ReopenRefines ==
  ASSUME FileInv, Reopen
  PROVE  F!Reopen
<1>1. PICK s, t, u, v : /\ s = ContentOf(inode, cached) /\ t = ContentOf(inode', cached')
                        /\ u = TornOf(inode, cached, logged) /\ v = TornOf(inode', cached', logged')
  OBVIOUS
<1>2. t \in {s, <<>>} /\ v \subseteq u
  <2>1. CASE CommitOp(itrunc(Op))
    <3>1. inode' = NoBlocks
      BY <2>1, TruncIs
    <3>2. QED
      BY <1>1, <3>1, NoBytes
  <2>2. CASE UNCHANGED <<inode, bitmap, cached, logged>>
    BY <1>1, <2>2, SameBytes
  <2>3. QED
    BY <2>1, <2>2 DEF Reopen
<1>3. off' = 0
  BY DEF Reopen
<1>4. QED
  BY <1>1, <1>2, <1>3, ByteSteps

LEMMA EvictRefines ==
  ASSUME FileInv, NEW b \in DataBlocks, Evict(b)
  PROVE  F!Flicker
<1>1. PICK s, t, u, v : /\ s = ContentOf(inode, cached) /\ t = ContentOf(inode', cached')
                        /\ u = TornOf(inode, cached, logged) /\ v = TornOf(inode', cached', logged')
  OBVIOUS
<1>2. /\ inode' = inode /\ logged' = logged /\ off' = off
      /\ cached' = [cached EXCEPT ![b] = logged[b]] /\ cached \in [DataBlocks -> Contents]
  BY DEF Evict, FileInv
<1>3. \A a : cached'[a] = cached[a] \/ (a = b /\ cached'[a] = logged[a])
  BY <1>2
<1>4. inode \in InodeType /\ inode.size \in Nat
  BY DEF FileInv, InodeType
<1>5. \A k : Cell(inode, cached', k) \in {Cell(inode, cached, k), Cell(inode, logged, k)}
  BY <1>3 DEF Cell
<1>6. /\ Len(s) = inode.size /\ \A k \in 0..(inode.size - 1) : s[k + 1] = Cell(inode, cached, k)
      /\ Len(t) = inode.size /\ \A k \in 0..(inode.size - 1) : t[k + 1] = Cell(inode, cached', k)
  BY <1>1, <1>2, <1>4, ContentIs
<1>7. v \subseteq u
  BY <1>1, <1>2, <1>5 DEF TornOf
<1>8. AgreeOff(s, t, u)
  <2>1. ASSUME NEW k \in 0..(inode.size - 1), k \notin u
        PROVE  s[k + 1] = t[k + 1]
    <3>1. Cell(inode, cached, k) = Cell(inode, logged, k)
      BY <1>1, <2>1 DEF TornOf
    <3>2. QED
      BY <1>5, <1>6, <3>1
  <2>2. QED
    BY <1>6, <2>1 DEF AgreeOff
<1>9. FlickerOf(s, t, u, v)
  BY <1>6, <1>7, <1>8 DEF FlickerOf
<1>10. QED
  BY <1>1, <1>2, <1>9, ByteSteps

LEMMA FileStepRefines ==
  FileInv /\ FileInv' /\ [FileNext]_fileVars =>
    \/ F!Next
    \/ UNCHANGED <<[k \in 1..inode.size |-> ByteAt(cached, k - 1)], off,
                   {k \in 0..(inode.size - 1) : ByteAt(cached, k) # ByteAt(logged, k)}>>
<1> DEFINE Same == UNCHANGED <<[k \in 1..inode.size |-> ByteAt(cached, k - 1)], off,
                      {k \in 0..(inode.size - 1) : ByteAt(cached, k) # ByteAt(logged, k)}>>
<1> SUFFICES ASSUME FileInv, FileInv', [FileNext]_fileVars PROVE F!Next \/ Same
  OBVIOUS
<1>1. ASSUME inode' = inode, cached' = cached, logged' = logged, off' = off
      PROVE  Same
  BY <1>1 DEF ByteAt
<1> HIDE DEF Same
<1>2. ASSUME NEW p \in Writers, WriteCall(p) \/ WriteRefused(p) PROVE Same
  BY <1>1, <1>2 DEF WriteCall, WriteRefused
<1>3. ASSUME OtherTakes \/ OtherFrees \/ UNCHANGED fileVars PROVE Same
  BY <1>1, <1>3 DEF OtherTakes, OtherFrees, fileVars
<1>4. ASSUME NEW p \in Writers, WriteChunk(p) PROVE F!Next
  BY <1>4, ChunkRefines DEF F!Next
<1>5. ASSUME NEW p \in Writers, WriteBadAddress(p) PROVE F!Next
  BY <1>5, BadRefines DEF F!Next
<1>6. ASSUME NEW p \in Writers, Read(p) PROVE F!Next
  BY <1>6, ReadRefines DEF F!Next
<1>7. ASSUME NEW b \in DataBlocks, Evict(b) PROVE F!Next
  BY <1>7, EvictRefines DEF F!Next
<1>8. ASSUME Reopen PROVE F!Next
  BY <1>8, ReopenRefines DEF F!Next
<1>9. QED
  BY <1>2, <1>3, <1>4, <1>5, <1>6, <1>7, <1>8 DEF FileNext

\* The files implement sequences of bytes: a chunk of a write lands whole, at the offset that the
\* writers share, over nothing else, whatever the blocks are that bmap() gives it; a write whose
\* buffer the kernel cannot read moves the offset and changes no byte outside of its own.
THEOREM FileRefinesBytes == FileSpec => FileImplementsBytes
<1>1. FileInit => F!Init
  <2>1. SUFFICES ASSUME FileInit PROVE F!Init
    OBVIOUS
  <2>2. inode = NoBlocks /\ off = 0
    BY <2>1 DEF FileInit
  <2>3. ContentOf(inode, cached) = <<>> /\ TornOf(inode, cached, logged) = {}
    BY <2>2, NoBytes
  <2>4. QED
    BY <2>2, <2>3 DEF F!Init, ContentOf, TornOf, Cell, ByteAt
<1>2. FileSpec => []FileInv
  BY FileInitInv, FileStep, PTL DEF FileSpec
<1>3. QED
  BY <1>1, <1>2, FileStepRefines, PTL DEF FileSpec, FileImplementsBytes, F!Spec
=============================================================================
