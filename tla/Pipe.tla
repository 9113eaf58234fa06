-------------------------------- MODULE Pipe --------------------------------
(***************************************************************************)
(* A pipe (xv6-labs/kernel/pipe.c) with its readers and writers: the ring  *)
(* buffer with its free-running 32-bit counters, the sleeps on its two     *)
(* channels, the closing of its ends and kill().                           *)
(*                                                                         *)
(* pi->lock is held from the first step of a call to its next sleep or     *)
(* return; only kill() gets in between, because it takes p->lock alone.    *)
(* Every process holds one reference to its end; the last one to go calls  *)
(* pipeclose() (fileclose() in file.c).                                    *)
(***************************************************************************)
EXTENDS Integers, Sequences

CONSTANTS Readers, Writers,
          Killable,      \* the processes that kill() is used on
          PIPESIZE,
          Wrap,          \* stands for 2^32: the counters are uints
          Bytes,
          MaxCount       \* bound on the n of a read or write

ASSUME SizesAssumption ==
  /\ PIPESIZE \in Nat \ {0} /\ MaxCount \in Nat
  /\ Wrap \in Nat /\ Wrap % PIPESIZE = 0 /\ Wrap > PIPESIZE

Procs == Readers \cup Writers
Nobody == "nobody"

\* pipe() gives its caller both ends.
ASSUME ProcsAssumption ==
  /\ Readers # {} /\ Writers # {} /\ Readers \cap Writers = {}
  /\ Nobody \notin Procs

VARIABLES
  data, nread, nwrite,    \* the ring buffer and its counters
  readopen, writeopen,
  holder,                 \* who holds pi->lock
  open,                   \* the processes that have not closed their end
  killed,                 \* proc.killed
  pc,                     \* where the process is
  todo,                   \* bytes a write has left, or a read asks for
  out                     \* the last result of a read

ring == <<data, nread, nwrite>>
vars == <<data, nread, nwrite, readopen, writeopen, holder, open, killed,
          pc, todo, out>>

Labels == {"user", "write", "put", "writesleep", "writeasleep",
           "read", "readsleep", "readasleep"}

Empty == nread = nwrite

\* Mutant of Full: the test of a buffer that is never quite filled, off by one
\* on the wrong side.
FullLate == nwrite = (nread + PIPESIZE + 1) % Wrap

Full == nwrite = (nread + PIPESIZE) % Wrap
Used == (nwrite - nread) % Wrap

Init ==
  /\ \E b \in Bytes : data = [i \in 0..(PIPESIZE - 1) |-> b]
  /\ nread = 0 /\ nwrite = 0
  /\ readopen = TRUE /\ writeopen = TRUE
  /\ holder = Nobody
  /\ open = Procs
  /\ killed = {}
  /\ pc = [p \in Procs |-> "user"]
  /\ todo = [p \in Procs |-> 0]
  /\ out = [eof |-> FALSE, bytes |-> <<>>]

\* wakeup(&pi->nread) and wakeup(&pi->nwrite), applied to the positions f.
WakeReaders(f) == [p \in Procs |-> IF f[p] = "readasleep" THEN "read" ELSE f[p]]
WakeWriters(f) == [p \in Procs |-> IF f[p] = "writeasleep" THEN "put" ELSE f[p]]

-----------------------------------------------------------------------------
(* pipewrite(). *)

WriteCall(p) ==
  /\ p \in Writers \cap open /\ pc[p] = "user" /\ p \notin killed
  /\ \E n \in 1..MaxCount : todo' = [todo EXCEPT ![p] = n]
  /\ pc' = [pc EXCEPT ![p] = "write"]
  /\ UNCHANGED <<ring, readopen, writeopen, holder, open, killed, out>>

WriteLock(p) ==
  /\ pc[p] = "write" /\ holder = Nobody
  /\ holder' = p
  /\ pc' = [pc EXCEPT ![p] = "put"]
  /\ UNCHANGED <<ring, readopen, writeopen, open, killed, todo, out>>

InWrite(p) == pc[p] = "put" /\ holder \in {p, Nobody}

\* One byte into the ring.  The lock is (re)acquired by the first step after a
\* sleep and kept.
WriteByte(p) ==
  /\ InWrite(p) /\ todo[p] > 0 /\ ~Full
  /\ \E b \in Bytes : data' = [data EXCEPT ![nwrite % PIPESIZE] = b]
  /\ nwrite' = (nwrite + 1) % Wrap
  /\ todo' = [todo EXCEPT ![p] = @ - 1]
  /\ holder' = p
  /\ UNCHANGED <<nread, readopen, writeopen, open, killed, pc, out>>

WriteReturns(p, f) ==
  /\ pc' = [f EXCEPT ![p] = "user"]
  /\ todo' = [todo EXCEPT ![p] = 0]
  /\ holder' = Nobody
  /\ UNCHANGED <<ring, readopen, writeopen, open, killed, out>>

\* All bytes are in, or copyin() failed: wake the readers and return.
WriteDone(p) ==
  /\ InWrite(p)
  /\ todo[p] = 0 \/ ~Full
  /\ WriteReturns(p, WakeReaders(pc))

\* The ring is full and nobody will read, or the writer was killed: -1.
WriteFails(p) ==
  /\ InWrite(p) /\ todo[p] > 0 /\ Full
  /\ ~readopen \/ p \in killed
  /\ WriteReturns(p, pc)

\* Mutant of WriteFull: the readers are not woken up before the sleep.
WriteFullNoWakeup(p) ==
  /\ InWrite(p) /\ todo[p] > 0 /\ Full
  /\ readopen /\ p \notin killed
  /\ pc' = [pc EXCEPT ![p] = "writesleep"]
  /\ holder' = p
  /\ UNCHANGED <<ring, readopen, writeopen, open, killed, todo, out>>

\* The ring is full: wake the readers, and on to sleep(&pi->nwrite).
WriteFull(p) ==
  /\ InWrite(p) /\ todo[p] > 0 /\ Full
  /\ readopen /\ p \notin killed
  /\ pc' = [WakeReaders(pc) EXCEPT ![p] = "writesleep"]
  /\ holder' = p
  /\ UNCHANGED <<ring, readopen, writeopen, open, killed, todo, out>>

\* sleep(): the lock is released and the process asleep in one step.
Sleep(p) ==
  /\ \/ pc[p] = "writesleep" /\ pc' = [pc EXCEPT ![p] = "writeasleep"]
     \/ pc[p] = "readsleep" /\ pc' = [pc EXCEPT ![p] = "readasleep"]
  /\ holder' = Nobody
  /\ UNCHANGED <<ring, readopen, writeopen, open, killed, todo, out>>

-----------------------------------------------------------------------------
(* piperead(). *)

ReadCall(p) ==
  /\ p \in Readers \cap open /\ pc[p] = "user" /\ p \notin killed
  /\ \E n \in 1..MaxCount : todo' = [todo EXCEPT ![p] = n]
  /\ pc' = [pc EXCEPT ![p] = "read"]
  /\ UNCHANGED <<ring, readopen, writeopen, holder, open, killed, out>>

InRead(p) == pc[p] = "read" /\ holder = Nobody

ReadEmpty(p) ==
  /\ InRead(p) /\ Empty /\ writeopen /\ p \notin killed
  /\ pc' = [pc EXCEPT ![p] = "readsleep"]
  /\ holder' = p
  /\ UNCHANGED <<ring, readopen, writeopen, open, killed, todo, out>>

ReadKilled(p) ==
  /\ InRead(p) /\ Empty /\ writeopen /\ p \in killed
  /\ pc' = [pc EXCEPT ![p] = "user"]
  /\ todo' = [todo EXCEPT ![p] = 0]
  /\ UNCHANGED <<ring, readopen, writeopen, holder, open, killed, out>>

MinOf(a, b) == IF a < b THEN a ELSE b

\* The loop of piperead(): m bytes leave the ring; the last of them is lost
\* where copyout() fails on it.
ReadBytes(p) ==
  /\ InRead(p) /\ (~Empty \/ ~writeopen)
  /\ \E m \in 0..MinOf(todo[p], Used), d \in 0..MaxCount :
       /\ \/ m = MinOf(todo[p], Used) /\ d = m
          \/ m > 0 /\ d = m - 1
       /\ out' = [eof |-> m = 0,
                  bytes |-> [i \in 1..d |-> data[(nread + i - 1) % PIPESIZE]]]
       /\ nread' = (nread + m) % Wrap
  /\ pc' = [WakeWriters(pc) EXCEPT ![p] = "user"]
  /\ todo' = [todo EXCEPT ![p] = 0]
  /\ UNCHANGED <<data, nwrite, readopen, writeopen, holder, open, killed>>

-----------------------------------------------------------------------------
(* close() or exit(), and kill(). *)

\* The last reference to an end: pipeclose().
Close(p) ==
  /\ pc[p] = "user" /\ p \in open /\ holder = Nobody
  /\ open' = open \ {p}
  /\ readopen' = (open' \cap Readers # {})
  /\ writeopen' = (open' \cap Writers # {})
  /\ pc' = IF p \in Writers
           THEN IF writeopen' THEN pc ELSE WakeReaders(pc)
           ELSE IF readopen' THEN pc ELSE WakeWriters(pc)
  /\ UNCHANGED <<ring, holder, killed, todo, out>>

Kill(p) ==
  /\ p \in Killable \ killed
  /\ killed' = killed \cup {p}
  /\ pc' = [pc EXCEPT ![p] = CASE @ = "readasleep" -> "read"
                               [] @ = "writeasleep" -> "put"
                               [] OTHER -> @]
  /\ UNCHANGED <<ring, readopen, writeopen, holder, open, todo, out>>

-----------------------------------------------------------------------------
Write(p) == \/ WriteLock(p) \/ WriteByte(p) \/ WriteDone(p)
            \/ WriteFails(p) \/ WriteFull(p)
Read(p) == ReadEmpty(p) \/ ReadKilled(p) \/ ReadBytes(p)

Next == \E p \in Procs : \/ WriteCall(p) \/ Write(p) \/ Sleep(p)
                         \/ ReadCall(p) \/ Read(p) \/ Close(p) \/ Kill(p)

Spec == Init /\ [][Next]_vars

-----------------------------------------------------------------------------
(* Properties. *)

TypeOK ==
  /\ data \in [0..(PIPESIZE - 1) -> Bytes]
  /\ nread \in 0..(Wrap - 1) /\ nwrite \in 0..(Wrap - 1)
  /\ Used <= PIPESIZE
  /\ readopen \in BOOLEAN /\ writeopen \in BOOLEAN
  /\ holder \in Procs \cup {Nobody}
  /\ open \subseteq Procs /\ killed \subseteq Procs
  /\ pc \in [Procs -> Labels]
  /\ todo \in [Procs -> 0..MaxCount]

\* The pipe is a bounded queue: bytes are read in the order they were written,
\* none twice, none overwritten, across the wrap of the ring and of its
\* counters; a read that finds the pipe empty ends without a byte only when
\* every write end is closed.
Queue == INSTANCE Fifo WITH
  Capacity <- PIPESIZE,
  queue <- [i \in 1..Used |-> data[(nread + i - 1) % PIPESIZE]],
  writable <- writeopen

ImplementsFifo == Queue!Spec

\* A reader sleeps only on an empty pipe with a write end open
\* ("pipe-empty", pipe.c:116).
ReadersHaveCause ==
  \A p \in Readers : pc[p] = "readasleep" /\ holder = Nobody => Empty /\ writeopen

\* No wakeup is lost, whichever of several sleepers gets to run first: a writer
\* sleeps only on a full pipe with a read end open (pipe.c:91) and, as long as
\* no writer was killed, a reader only on an empty one that may be written.
SleepersHaveCause ==
  /\ killed \cap Writers = {} => ReadersHaveCause
  /\ \A p \in Writers :
       pc[p] = "writeasleep" /\ holder = Nobody => Full /\ readopen

\* The ring never holds more than it has room for, and nobody sleeps for ever.
PipeSound == TypeOK /\ SleepersHaveCause
=============================================================================
