------------------------------- MODULE Bcache -------------------------------
(***************************************************************************)
(* The buffer cache (xv6-labs/kernel/bio.c) under the use that the log     *)
(* (log.c) and the file system make of it: processes that read a block,    *)
(* operations that modify one and log_write() it, the commit by the last   *)
(* operation and the recovery at boot, which copy blocks from one buffer   *)
(* to another.                                                             *)
(*                                                                         *)
(* A critical section of bcache.lock or log.lock is a step, and so is a    *)
(* disk transfer.  The log's header block and its room are left out: the   *)
(* module Log has them.                                                    *)
(***************************************************************************)
EXTENDS Integers, Sequences, FiniteSets

CONSTANTS Procs,        \* the processes
          Blocks, Vals, \* home blocks, block contents
          NBUF,         \* buffers (param.h)
          LOGSIZE,      \* blocks in the log area
          Committed,    \* the blocks of the transaction in the log at boot
          Wrap,         \* 2^32: refcnt is a uint
          NoProc, NoBlock

LogBlocks == 1..LOGSIZE
Bufs == 1..NBUF

ASSUME SizesAssumption ==
  /\ IsFiniteSet(Procs)
  /\ NBUF \in Nat \ {0} /\ LOGSIZE \in Nat
  \* A process needs a buffer for up to two blocks and drops one; the log pins one.
  /\ Wrap \in Nat /\ 3 * Cardinality(Procs) + 1 < Wrap
  /\ NoProc \notin Procs
  /\ NoBlock \notin Blocks \cup LogBlocks /\ Blocks \cap LogBlocks = {}
  /\ Committed \in Seq(Blocks) /\ Len(Committed) <= LOGSIZE

VARIABLES
  lru,        \* bcache.head's list, the most recently used buffer first
  blockno, valid, data, refcnt,  \* the fields of struct buf
  owner,      \* the process that holds b->lock
  disk,       \* the contents of the home blocks and of the log area
  lh,         \* log.lh: the logged blocks
  ops,        \* the processes between begin_op() and end_op()
  committer,  \* the process in commit() or recover_from_log()
  phase,      \* which loop the committer is in
  tail,       \* its loop counter
  pc,         \* where the process is
  use,        \* the blocks it has asked for, each with the buffer it got
  drop        \* the buffer brelse() has unlocked, its refcnt still to drop

buf == <<lru, blockno, valid, data, refcnt, owner>>
log == <<lh, ops, committer, phase, tail>>
proc == <<pc, use, drop>>
vars == <<buf, disk, log, proc>>

Top(p) == use[p][Len(use[p])]
Logged == {lh[i] : i \in 1..Len(lh)}
Goto(p, l) == pc' = [pc EXCEPT ![p] = l]

Init ==
  /\ lru = [i \in Bufs |-> NBUF + 1 - i]     \* binit()
  /\ blockno = [x \in Bufs |-> NoBlock]
  /\ valid = [x \in Bufs |-> FALSE]
  /\ \E v \in Vals : data = [x \in Bufs |-> v]
  /\ refcnt = [x \in Bufs |-> 0]
  /\ owner = [x \in Bufs |-> NoProc]
  \* Equal contents bound the initial states; operations make them differ.
  /\ \E v \in Vals : disk = [b \in Blocks \cup LogBlocks |-> v]
  /\ lh = Committed                          \* read_head()
  /\ ops = {} /\ tail = 1
  /\ committer \in Procs /\ phase = "recover" \* fsinit(), in forkret()
  /\ pc = [p \in Procs |-> "ready"]
  /\ use = [p \in Procs |-> <<>>]
  /\ drop = [p \in Procs |-> 0]

-----------------------------------------------------------------------------
(* bio.c *)

\* The first buffer of S along the list from its head, and from its tail.
FirstIn(S) ==
  lru[CHOOSE i \in Bufs : lru[i] \in S /\ \A j \in 1..(i - 1) : lru[j] \notin S]
LastIn(S) ==
  lru[CHOOSE i \in Bufs : lru[i] \in S /\ \A j \in (i + 1)..NBUF : lru[j] \notin S]

Cached(b) == {x \in Bufs : blockno[x] = b}
Unused == {x \in Bufs : refcnt[x] = 0}

Asks(p, b, x) == /\ use' = [use EXCEPT ![p] = Append(@, [block |-> b, buf |-> x])]
                 /\ Goto(p, "lock")
                 /\ UNCHANGED drop

BgetHit(p, b) ==
  /\ Cached(b) # {}
  /\ LET x == FirstIn(Cached(b)) IN
       /\ refcnt' = [refcnt EXCEPT ![x] = (@ + 1) % Wrap]
       /\ Asks(p, b, x)
  /\ UNCHANGED <<lru, blockno, valid, data, owner, disk, log>>

\* Mutant of BgetMiss: the recycled buffer stays valid.
BgetMissKeepsValid(p, b) ==
  /\ Cached(b) = {} /\ Unused # {}
  /\ LET x == LastIn(Unused) IN
       /\ blockno' = [blockno EXCEPT ![x] = b]
       /\ refcnt' = [refcnt EXCEPT ![x] = 1]
       /\ Asks(p, b, x)
  /\ UNCHANGED <<lru, valid, data, owner, disk, log>>

\* Mutant of BgetMiss: the first scan was made under an earlier lock of bcache.
BgetMissUnchecked(p, b) ==
  /\ Unused # {}
  /\ LET x == LastIn(Unused) IN
       /\ blockno' = [blockno EXCEPT ![x] = b]
       /\ valid' = [valid EXCEPT ![x] = FALSE]
       /\ refcnt' = [refcnt EXCEPT ![x] = 1]
       /\ Asks(p, b, x)
  /\ UNCHANGED <<lru, data, owner, disk, log>>

\* Recycle the least recently used buffer that is unused; with none left the
\* kernel panics and the process has no step here.
BgetMiss(p, b) ==
  /\ Cached(b) = {} /\ Unused # {}
  /\ LET x == LastIn(Unused) IN
       /\ blockno' = [blockno EXCEPT ![x] = b]
       /\ valid' = [valid EXCEPT ![x] = FALSE]
       /\ refcnt' = [refcnt EXCEPT ![x] = 1]
       /\ Asks(p, b, x)
  /\ UNCHANGED <<lru, data, owner, disk, log>>

\* acquiresleep(&b->lock), and the test of b->valid in bread().
Lock(p) ==
  /\ pc[p] = "lock"
  /\ LET x == Top(p).buf IN
       /\ owner[x] = NoProc
       /\ owner' = [owner EXCEPT ![x] = p]
       /\ Goto(p, IF valid[x] THEN "ready" ELSE "fill")
  /\ UNCHANGED <<lru, blockno, valid, data, refcnt, disk, log, use, drop>>

\* virtio_disk_rw(b, 0)
Fill(p) ==
  /\ pc[p] = "fill"
  /\ LET x == Top(p).buf IN
       /\ data' = [data EXCEPT ![x] = disk[blockno[x]]]
       /\ valid' = [valid EXCEPT ![x] = TRUE]
  /\ Goto(p, "ready")
  /\ UNCHANGED <<lru, blockno, refcnt, owner, disk, log, use, drop>>

\* brelse(), first half: releasesleep(&b->lock) of the i-th buffer in use.
Unlock(p, i) ==
  /\ owner' = [owner EXCEPT ![use[p][i].buf] = NoProc]
  /\ drop' = [drop EXCEPT ![p] = use[p][i].buf]
  /\ use' = [use EXCEPT ![p] = SubSeq(@, 1, i - 1) \o SubSeq(@, i + 1, Len(@))]
  /\ Goto(p, "deref")
  /\ UNCHANGED <<lru, blockno, valid, data, refcnt, disk, log>>

\* x is taken out of the list and put back at its head.
ToFront(x) ==
  [i \in Bufs |-> IF i = 1 THEN x
                 ELSE IF \E j \in i..NBUF : lru[j] = x THEN lru[i - 1]
                 ELSE lru[i]]

Dropped(x) == [refcnt EXCEPT ![x] = (@ + Wrap - 1) % Wrap]

\* Mutant of Deref: the reference of whoever waits for the buffer is lost.
DerefForAll(p) ==
  /\ pc[p] = "deref"
  /\ refcnt' = [refcnt EXCEPT ![drop[p]] = 0]
  /\ lru' = ToFront(drop[p])
  /\ drop' = [drop EXCEPT ![p] = 0]
  /\ Goto(p, IF use[p] = <<>> THEN "ready" ELSE "drain")
  /\ UNCHANGED <<blockno, valid, data, owner, disk, log, use>>

\* brelse(), second half, under bcache.lock.
Deref(p) ==
  /\ pc[p] = "deref"
  /\ LET x == drop[p] IN
       /\ refcnt' = Dropped(x)
       /\ lru' = IF refcnt'[x] = 0 THEN ToFront(x) ELSE lru
  /\ drop' = [drop EXCEPT ![p] = 0]
  /\ Goto(p, IF use[p] = <<>> THEN "ready" ELSE "drain")
  /\ UNCHANGED <<blockno, valid, data, owner, disk, log, use>>

-----------------------------------------------------------------------------
(* The users: a process reads a block; inside an operation it may modify the *)
(* buffer and log_write() it.                                                *)

User(p) == phase # "recover" /\ p # committer

Bread(p) ==
  /\ User(p) /\ pc[p] = "ready" /\ use[p] = <<>>
  /\ \E b \in Blocks : BgetHit(p, b) \/ BgetMiss(p, b)

BeginOp(p) ==
  /\ User(p) /\ pc[p] = "ready" /\ use[p] = <<>>
  /\ p \notin ops /\ committer = NoProc
  /\ ops' = ops \cup {p}
  /\ UNCHANGED <<buf, disk, lh, committer, phase, tail, proc>>

\* The operations stay within the room that begin_op() reserves for them.
Modify(p) ==
  /\ p \in ops /\ pc[p] = "ready" /\ use[p] # <<>>
  /\ \/ blockno[Top(p).buf] \in Logged
     \/ Len(lh) + Cardinality({q \in Procs : pc[q] = "dirty"}) < LOGSIZE
  /\ \E v \in Vals : data' = [data EXCEPT ![Top(p).buf] = v]
  /\ Goto(p, "dirty")
  /\ UNCHANGED <<lru, blockno, valid, refcnt, owner, disk, log, use, drop>>

\* Mutant of LogWrite: an absorbed block is pinned again.
LogWritePinsAlways(p) ==
  /\ pc[p] = "dirty"
  /\ LET x == Top(p).buf IN
       /\ lh' = IF blockno[x] \in Logged THEN lh ELSE Append(lh, blockno[x])
       /\ refcnt' = [refcnt EXCEPT ![x] = (@ + 1) % Wrap]
  /\ Goto(p, "ready")
  /\ UNCHANGED <<lru, blockno, valid, data, owner, disk, ops, committer, phase,
                 tail, use, drop>>

\* log_write(): absorb the block, or append it and bpin() its buffer.
LogWrite(p) ==
  /\ pc[p] = "dirty"
  /\ LET x == Top(p).buf IN
       IF blockno[x] \in Logged
       THEN UNCHANGED <<lh, refcnt>>
       ELSE /\ lh' = Append(lh, blockno[x])
            /\ refcnt' = [refcnt EXCEPT ![x] = (@ + 1) % Wrap]
  /\ Goto(p, "ready")
  /\ UNCHANGED <<lru, blockno, valid, data, owner, disk, ops, committer, phase,
                 tail, use, drop>>

Brelse(p) ==
  /\ User(p) /\ pc[p] = "ready" /\ use[p] # <<>>
  /\ Unlock(p, 1)

EndOp(p) ==
  /\ p \in ops /\ pc[p] = "ready" /\ use[p] = <<>>
  /\ ops' = ops \ {p}
  /\ IF ops' = {} /\ lh # <<>>
     THEN committer' = p /\ phase' = "copy" /\ tail' = 1
     ELSE UNCHANGED <<committer, phase, tail>>
  /\ UNCHANGED <<buf, disk, lh, proc>>

-----------------------------------------------------------------------------
(* The loops of write_log() and install_trans(), which also recovery runs.   *)

\* Both read the log block first, then the home block.
CommitBread(p) ==
  /\ p = committer /\ pc[p] = "ready" /\ tail <= Len(lh) /\ Len(use[p]) < 2
  /\ LET b == IF use[p] = <<>> THEN tail ELSE lh[tail]
     IN  BgetHit(p, b) \/ BgetMiss(p, b)

\* memmove() and bwrite() from one buffer in use to the other.
Copy(p, from, to) ==
  LET x == use[p][to].buf IN
    /\ data' = [data EXCEPT ![x] = data[use[p][from].buf]]
    /\ disk' = [disk EXCEPT ![blockno[x]] = data'[x]]

WriteLog(p) ==
  /\ p = committer /\ phase = "copy" /\ pc[p] = "ready" /\ Len(use[p]) = 2
  /\ Copy(p, 2, 1)
  /\ tail' = tail + 1
  /\ Goto(p, "drain")
  /\ UNCHANGED <<lru, blockno, valid, refcnt, owner, lh, ops, committer, phase,
                 use, drop>>

Install(p) ==
  /\ p = committer /\ phase # "copy" /\ pc[p] = "ready" /\ Len(use[p]) = 2
  /\ Copy(p, 1, 2)
  /\ Goto(p, "unpin")
  /\ UNCHANGED <<lru, blockno, valid, refcnt, owner, log, use, drop>>

\* bunpin(dbuf)
Unpin(p) ==
  /\ pc[p] = "unpin"
  /\ refcnt' = Dropped(use[p][2].buf)
  /\ tail' = tail + 1
  /\ Goto(p, "drain")
  /\ UNCHANGED <<lru, blockno, valid, data, owner, disk, lh, ops, committer,
                 phase, use, drop>>

\* write_log() releases the home block first, install_trans() the log block.
Drain(p) ==
  /\ pc[p] = "drain"
  /\ Unlock(p, IF phase = "copy" THEN Len(use[p]) ELSE 1)

\* The end of a loop.
NextPhase(p) ==
  /\ p = committer /\ pc[p] = "ready" /\ use[p] = <<>> /\ tail > Len(lh)
  /\ IF phase = "copy"
     THEN phase' = "install" /\ UNCHANGED <<lh, committer>>
     ELSE phase' = "idle" /\ lh' = <<>> /\ committer' = NoProc
  /\ tail' = 1
  /\ UNCHANGED <<buf, disk, ops, proc>>

-----------------------------------------------------------------------------
Cache(p) == Lock(p) \/ Fill(p) \/ Deref(p)
Reader(p) == Bread(p) \/ Brelse(p)
Operation(p) == BeginOp(p) \/ Modify(p) \/ LogWrite(p) \/ EndOp(p)
Commit(p) == \/ CommitBread(p) \/ WriteLog(p) \/ Install(p) \/ Unpin(p)
             \/ Drain(p) \/ NextPhase(p)

Next == \E p \in Procs : Cache(p) \/ Reader(p) \/ Operation(p) \/ Commit(p)

Spec == Init /\ [][Next]_vars

-----------------------------------------------------------------------------
(* Properties. *)

TypeOK ==
  /\ lru \in [Bufs -> Bufs] /\ \A x \in Bufs : \E i \in Bufs : lru[i] = x
  /\ blockno \in [Bufs -> Blocks \cup LogBlocks \cup {NoBlock}]
  /\ valid \in [Bufs -> BOOLEAN]
  /\ data \in [Bufs -> Vals]
  /\ refcnt \in [Bufs -> 0..(Wrap - 1)]
  /\ owner \in [Bufs -> Procs \cup {NoProc}]
  /\ disk \in [Blocks \cup LogBlocks -> Vals]
  /\ lh \in Seq(Blocks) /\ Len(lh) <= LOGSIZE
  /\ ops \subseteq Procs
  /\ committer \in Procs \cup {NoProc}
  /\ phase \in {"idle", "copy", "install", "recover"}
  /\ tail \in 1..(LOGSIZE + 1)
  /\ pc \in [Procs -> {"ready", "lock", "fill", "dirty", "unpin", "drain", "deref"}]
  /\ use \in [Procs -> Seq([block : Blocks \cup LogBlocks, buf : Bufs])]
  /\ drop \in [Procs -> 0..NBUF]

\* The i-th block p asked for is in use: bread() has returned it.
Held(p, i) == i < Len(use[p]) \/ (i = Len(use[p]) /\ pc[p] \notin {"lock", "fill"})

\* A block is never cached twice.
OneBufferPerBlock ==
  \A x, y \in Bufs : blockno[x] = blockno[y] /\ blockno[x] # NoBlock => x = y

\* Between bread() and brelse() a process has its buffer to itself and the
\* buffer stays the block's, whatever is read, evicted or waited for meanwhile.
HolderKeepsItsBlock ==
  \A p \in Procs, i \in 1..2 : Held(p, i) =>
    LET h == use[p][i]
    IN  owner[h.buf] = p /\ blockno[h.buf] = h.block /\ valid[h.buf]

\* Logged blocks that are not installed yet.
Pinned == CASE phase = "recover" -> {}
            [] phase = "install" -> {lh[i] : i \in tail..Len(lh)}
            [] OTHER -> Logged

\* Who asked for x, and as which of its blocks; who has still to drop it.
Uses(x) == {u \in Procs \X (1..2) : /\ u[2] <= Len(use[u[1]])
                                    /\ use[u[1]][u[2]].buf = x}
Droppers(x) == {p \in Procs : drop[p] = x}

\* refcnt counts exactly the processes that use or wait for the buffer and the
\* log's pin: a count too low frees a buffer in use, one too high leaks it.
RefcntExact ==
  \A x \in Bufs :
    refcnt[x] = Cardinality(Uses(x)) + Cardinality(Droppers(x))
                + (IF blockno[x] \in Pinned THEN 1 ELSE 0)

\* The cache names each block once and knows who still needs it.
CacheSound == TypeOK /\ OneBufferPerBlock /\ RefcntExact

\* A block's contents and user: its valid buffer's, or the disk's and nobody.
Block(b) ==
  IF \E x \in Bufs : blockno[x] = b /\ valid[x]
  THEN LET x == CHOOSE x \in Bufs : blockno[x] = b /\ valid[x]
       IN  [val |-> data[x], holder |-> owner[x]]
  ELSE [val |-> disk[b], holder |-> NoProc]

\* The cache is a store with one current copy of each block: no recycling,
\* logging or installing ever changes it, so none loses a modification, and no
\* two processes are at the same block (bio.c:3-14).
Store == INSTANCE BlockStore WITH store <- [b \in Blocks |-> Block(b)],
                                  writers <- ops

ImplementsBlockStore == Store!Spec
=============================================================================
