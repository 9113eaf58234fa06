-------------------------------- MODULE Log --------------------------------
(***************************************************************************)
(* The file system's redo log (xv6-labs/kernel/log.c): concurrent          *)
(* operations between begin_op() and end_op(), group commit by the last of *)
(* them, crashes between any two disk writes, and recovery at boot.        *)
(*                                                                         *)
(* One disk write (bwrite of one block) is atomic.  The buffer cache below *)
(* is abstracted to the contents of the home blocks as bread() returns     *)
(* them, which the module Bcache justifies; Blocks are the home blocks an  *)
(* operation may write.                                                    *)
(***************************************************************************)
EXTENDS Integers, Sequences, FiniteSets

CONSTANTS Procs,        \* the processes that make file system calls
          Blocks, Vals, \* home blocks and block contents
          MAXOPBLOCKS,  \* blocks an operation may write (param.h)
          LOGSIZE,      \* capacity of the in-memory header (param.h)
          nlog,         \* blocks of the on-disk log, its header included (mkfs.c)
          OpBlocks      \* blocks an operation really writes

ASSUME SizesAssumption ==
  /\ IsFiniteSet(Procs)
  /\ MAXOPBLOCKS \in Nat \ {0} /\ LOGSIZE \in Nat /\ nlog \in Nat \ {0}
  /\ OpBlocks \in 1..MAXOPBLOCKS

\* Two operations fit, and what they leave of their reservations makes up for
\* what the log area lacks of LOGSIZE: mkfs gives it nlog - 1 = 29 blocks,
\* param.h makes LOGSIZE 30 and MAXOPBLOCKS 10.
ASSUME FitsAssumption ==
  /\ OpBlocks < MAXOPBLOCKS /\ OpBlocks < nlog - 1
  /\ MAXOPBLOCKS <= LOGSIZE
  /\ LOGSIZE - 2 * (MAXOPBLOCKS - OpBlocks) < nlog - 1

NoBlock == "noblock"
ASSUME NoBlockAssumption == NoBlock \notin Blocks

VARIABLES
  outstanding,  \* log.outstanding
  committing,   \* log.committing
  lh,           \* log.lh: the block numbers of the transaction, in order
  hdr,          \* the header block on disk
  logd,         \* logd[i]: the i-th block of the log area on disk
  home,         \* the home blocks on disk
  cache,        \* the home blocks as bread() returns them
  boot,         \* "up", or where recover_from_log() is
  pc,           \* where the process is
  wrote,        \* the blocks its operation has logged
  cur,          \* the block it is about to log
  tail          \* the loop counter of write_log() and install_trans()

disk == <<hdr, logd, home>>
ops == <<pc, wrote, cur>>
vars == <<outstanding, committing, lh, hdr, logd, home, cache, boot,
          pc, wrote, cur, tail>>

Labels == {"idle", "begin", "asleep", "op", "append", "writelog", "writehead",
           "install", "clear", "finish"}

Goto(p, l) == pc' = [pc EXCEPT ![p] = l]
Logged == {lh[i] : i \in 1..Len(lh)}

\* wakeup(&log)
Woken(f) == [p \in Procs |-> IF f[p] = "asleep" THEN "begin" ELSE f[p]]

Init ==
  /\ outstanding = 0 /\ committing = FALSE
  /\ lh = <<>> /\ hdr = <<>>
  /\ home \in [Blocks -> Vals]
  /\ \E v \in Vals : logd = [i \in 1..(nlog - 1) |-> v]
  /\ cache = home
  /\ boot = "up"
  /\ pc = [p \in Procs |-> "idle"]
  /\ wrote = [p \in Procs |-> {}]
  /\ cur = [p \in Procs |-> NoBlock]
  /\ tail = 1

-----------------------------------------------------------------------------
(* begin_op(): under log.lock, as are the steps of end_op() and log_write() *)
(* that follow; sleep() releases it.                                         *)

Call(p) ==
  /\ boot = "up" /\ pc[p] = "idle"
  /\ Goto(p, "begin")
  /\ UNCHANGED <<outstanding, committing, lh, disk, cache, boot, wrote,
                 cur, tail>>

\* Mutant of Room: the operations already running are not counted.
RoomForOne == Len(lh) + MAXOPBLOCKS <= LOGSIZE

Room == Len(lh) + (outstanding + 1) * MAXOPBLOCKS <= LOGSIZE

BeginSleep(p) ==
  /\ pc[p] = "begin"
  /\ committing \/ ~Room
  /\ Goto(p, "asleep")
  /\ UNCHANGED <<outstanding, committing, lh, disk, cache, boot, wrote,
                 cur, tail>>

BeginOp(p) ==
  /\ pc[p] = "begin"
  /\ ~committing /\ Room
  /\ outstanding' = outstanding + 1
  /\ Goto(p, "op")
  /\ UNCHANGED <<committing, lh, disk, cache, boot, wrote, cur, tail>>

-----------------------------------------------------------------------------
(* The operation modifies a locked buffer and passes it to log_write().      *)

\* The panics of log_write(), tested before it acquires log.lock.
TooBig == Len(lh) >= LOGSIZE \/ Len(lh) >= nlog - 1

LogWriteCheck(p) ==
  /\ pc[p] = "op" /\ ~TooBig /\ outstanding >= 1
  /\ \E b \in Blocks, v \in Vals :
       /\ Cardinality(wrote[p] \cup {b}) <= OpBlocks
       /\ \A q \in Procs : cur[q] # b         \* the buffer's sleep lock
       /\ cache' = [cache EXCEPT ![b] = v]
       /\ cur' = [cur EXCEPT ![p] = b]
  /\ Goto(p, "append")
  /\ UNCHANGED <<outstanding, committing, lh, disk, boot, wrote, tail>>

\* Under log.lock: absorb the block or append it.
LogWriteAppend(p) ==
  /\ pc[p] = "append"
  /\ IF cur[p] \in Logged
     THEN UNCHANGED lh
     ELSE lh' = Append(lh, cur[p])
  /\ wrote' = [wrote EXCEPT ![p] = @ \cup {cur[p]}]
  /\ cur' = [cur EXCEPT ![p] = NoBlock]
  /\ Goto(p, "op")
  /\ UNCHANGED <<outstanding, committing, disk, cache, boot, tail>>

-----------------------------------------------------------------------------
(* end_op() and commit(). *)

\* Mutant of EndOp: every end_op() commits, whoever else is outstanding.
EndOpCommitsAlone(p) ==
  /\ pc[p] = "op" /\ ~committing
  /\ outstanding' = outstanding - 1
  /\ wrote' = [wrote EXCEPT ![p] = {}]
  /\ committing' = TRUE
  /\ Goto(p, IF lh = <<>> THEN "finish" ELSE "writelog")
  /\ tail' = 1
  /\ UNCHANGED <<lh, disk, cache, boot, cur>>

EndOp(p) ==
  /\ pc[p] = "op"
  /\ outstanding' = outstanding - 1
  /\ wrote' = [wrote EXCEPT ![p] = {}]
  /\ IF outstanding = 1
     THEN /\ committing' = TRUE
          /\ Goto(p, IF lh = <<>> THEN "finish" ELSE "writelog")
     ELSE /\ pc' = [Woken(pc) EXCEPT ![p] = "idle"]
          /\ UNCHANGED committing
  /\ tail' = 1
  /\ UNCHANGED <<lh, disk, cache, boot, cur>>

\* write_log(): one block from the cache to the log area.
WriteLog(p) ==
  /\ pc[p] = "writelog"
  /\ IF tail <= Len(lh)
     THEN /\ logd' = [logd EXCEPT ![tail] = cache[lh[tail]]]
          /\ tail' = tail + 1
          /\ UNCHANGED pc
     ELSE Goto(p, "writehead") /\ UNCHANGED <<logd, tail>>
  /\ UNCHANGED <<outstanding, committing, lh, hdr, home, cache, boot,
                 wrote, cur>>

\* write_head(): the transaction commits.
WriteHead(p) ==
  /\ pc[p] = "writehead"
  /\ hdr' = lh
  /\ tail' = 1
  /\ Goto(p, "install")
  /\ UNCHANGED <<outstanding, committing, lh, logd, home, cache, boot,
                 wrote, cur>>

\* One turn of the loop of install_trans(): copy and write.
InstallOne ==
  /\ tail <= Len(lh)
  /\ home' = [home EXCEPT ![lh[tail]] = logd[tail]]
  /\ cache' = [cache EXCEPT ![lh[tail]] = logd[tail]]
  /\ tail' = tail + 1
  /\ UNCHANGED <<hdr, logd>>

Install(p) ==
  /\ pc[p] = "install"
  /\ \/ InstallOne /\ UNCHANGED pc
     \/ /\ tail > Len(lh)
        /\ Goto(p, "clear")
        /\ UNCHANGED <<disk, cache, tail>>
  /\ UNCHANGED <<outstanding, committing, lh, boot, wrote, cur>>

\* Mutant of ClearHead: only the header in memory is cleared.
ClearHeadInMemory(p) ==
  /\ pc[p] = "clear"
  /\ lh' = <<>>
  /\ Goto(p, "finish")
  /\ UNCHANGED <<outstanding, committing, disk, cache, boot,
                 wrote, cur, tail>>

\* log.lh.n = 0; write_head(): the transaction is erased.
ClearHead(p) ==
  /\ pc[p] = "clear"
  /\ lh' = <<>> /\ hdr' = <<>>
  /\ Goto(p, "finish")
  /\ UNCHANGED <<outstanding, committing, logd, home, cache, boot,
                 wrote, cur, tail>>

\* Mutant of Finish: no wakeup after the commit.
FinishNoWakeup(p) ==
  /\ pc[p] = "finish"
  /\ committing' = FALSE
  /\ Goto(p, "idle")
  /\ UNCHANGED <<outstanding, lh, disk, cache, boot, wrote, cur, tail>>

Finish(p) ==
  /\ pc[p] = "finish"
  /\ committing' = FALSE
  /\ pc' = [Woken(pc) EXCEPT ![p] = "idle"]
  /\ UNCHANGED <<outstanding, lh, disk, cache, boot, wrote, cur, tail>>

-----------------------------------------------------------------------------
(* A crash at any moment, and recover_from_log() at the next boot. *)

Crash ==
  /\ outstanding' = 0 /\ committing' = FALSE /\ lh' = <<>>
  /\ cache' = home
  /\ boot' = "readhead"
  /\ pc' = [p \in Procs |-> "idle"]
  /\ wrote' = [p \in Procs |-> {}]
  /\ cur' = [p \in Procs |-> NoBlock]
  /\ tail' = 1
  /\ UNCHANGED disk

ReadHead ==
  /\ boot = "readhead"
  /\ lh' = hdr
  /\ boot' = "install"
  /\ UNCHANGED <<outstanding, committing, disk, cache, ops, tail>>

RecoverInstall ==
  /\ boot = "install"
  /\ \/ InstallOne /\ UNCHANGED boot
     \/ /\ tail > Len(lh)
        /\ boot' = "clear"
        /\ UNCHANGED <<disk, cache, tail>>
  /\ UNCHANGED <<outstanding, committing, lh, ops>>

RecoverClear ==
  /\ boot = "clear"
  /\ lh' = <<>> /\ hdr' = <<>>
  /\ boot' = "up"
  /\ tail' = 1
  /\ UNCHANGED <<outstanding, committing, logd, home, cache, ops>>

-----------------------------------------------------------------------------
BeginSteps(p) == BeginSleep(p) \/ BeginOp(p)
Commit(p) == \/ WriteLog(p) \/ WriteHead(p) \/ Install(p) \/ ClearHead(p)
             \/ Finish(p)
Recover == ReadHead \/ RecoverInstall \/ RecoverClear

Proc(p) == \/ Call(p) \/ BeginSteps(p) \/ LogWriteCheck(p)
           \/ LogWriteAppend(p) \/ EndOp(p) \/ Commit(p)

Next == (\E p \in Procs : Proc(p)) \/ Crash \/ Recover

Spec == Init /\ [][Next]_vars

-----------------------------------------------------------------------------
(* Properties. *)

TypeOK ==
  /\ outstanding \in 0..Cardinality(Procs)
  /\ committing \in BOOLEAN
  /\ lh \in Seq(Blocks) /\ hdr \in Seq(Blocks)
  /\ logd \in [1..(nlog - 1) -> Vals]
  /\ home \in [Blocks -> Vals] /\ cache \in [Blocks -> Vals]
  /\ boot \in {"up", "readhead", "install", "clear"}
  /\ pc \in [Procs -> Labels]
  /\ wrote \in [Procs -> SUBSET Blocks]
  /\ cur \in [Procs -> Blocks \cup {NoBlock}]
  /\ tail \in 1..nlog

\* What recovery would make of the disk as it is.
Recovered ==
  [b \in Blocks |->
     IF \E i \in 1..Len(hdr) : hdr[i] = b
     THEN logd[CHOOSE i \in 1..Len(hdr) : hdr[i] = b]
     ELSE home[b]]

\* The log implements an atomic disk: whatever the interleaving of operations,
\* commit, crash and recovery, what a crash leaves behind is the contents after
\* some whole operations, and commit adds all the finished ones at once
\* (log.c:12-16).
Abstract == INSTANCE AtomicDisk WITH
  mem <- IF boot = "up" THEN cache ELSE Recovered,
  disk <- Recovered,
  open <- {p \in Procs : pc[p] \in {"op", "append"}}

ImplementsAtomicDisk == Abstract!Spec

\* An operation that was let in never makes log_write() panic, not even for a
\* block that is already logged: begin_op() reserves the room, for the
\* operations that run and those that have finished but not committed, although
\* log_write() tests it without log.lock.
NeverTooBig ==
  /\ Len(lh) <= nlog - 1
  /\ \A p \in Procs : pc[p] = "op" => ~TooBig

\* Whoever sleeps in begin_op() has somebody to wake it up.
SleepersHaveWaker ==
  \A p \in Procs : pc[p] = "asleep" => outstanding > 0 \/ committing

\* begin_op() lets in what the log has room for, and nobody waits for ever.
LogSound == TypeOK /\ NeverTooBig /\ SleepersHaveWaker

\* The last end_op() returns with everything on disk: with no operation
\* outstanding and no commit under way the home blocks are up to date and the
\* log is empty, so that a power cut then loses nothing.
QuiescentIsDurable ==
  boot = "up" /\ outstanding = 0 /\ ~committing =>
    home = cache /\ hdr = <<>> /\ lh = <<>>
=============================================================================
