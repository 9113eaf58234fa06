-------------------------------- MODULE Sbuf --------------------------------
(***************************************************************************)
(* The prethreaded echo server of the course code: the threads that insert   *)
(* connected descriptors into the bounded buffer sbuf (conc/sbuf.c), and the *)
(* workers that remove and serve them (conc/echoservert_pre.c).  The three   *)
(* semaphores are POSIX ones: P() waits until the value is positive.          *)
(***************************************************************************)
EXTENDS Integers, Sequences

CONSTANTS Inserters, Workers,
          Conns, NoConn, \* descriptors of connections
          N,             \* sp->n
          CountBound     \* bound: sp->rear and sp->front count modulo this many;
                         \* both stand for an int that must not overflow

ASSUME SbufAssumption ==
  /\ N \in Nat \ {0} /\ CountBound \in Nat /\ CountBound > N /\ CountBound % N = 0
  /\ Inserters \cap Workers = {} /\ NoConn \notin Conns

VARIABLES
  cells, rear, front,   \* sp->buf, sp->rear, sp->front
  slots, items, mutex,  \* the semaphores
  step,                 \* where a thread is
  conn,                 \* the descriptor it has
  open,                 \* descriptors that accept() gave out and nobody closed
  last                  \* history: the descriptor that was removed last

sbufVars == <<cells, rear, front, slots, items, mutex, step, conn, open, last>>
Threads == Inserters \cup Workers

SbufInit ==
  /\ cells = [k \in 0..(N - 1) |-> NoConn] /\ rear = 0 /\ front = 0
  /\ slots = N /\ items = 0 /\ mutex = 1
  /\ step = [t \in Threads |-> IF t \in Inserters THEN "accept" ELSE "remove"]
  /\ conn = [t \in Threads |-> NoConn]
  /\ open = {} /\ last = NoConn

Inc(k) == (k + 1) % CountBound
At1(t, from, to) == step[t] = from /\ step' = [step EXCEPT ![t] = to]

-----------------------------------------------------------------------------
\* Accept() in main(): a descriptor that is not in use.
Accept(t) ==
  /\ t \in Inserters /\ At1(t, "accept", "insert")
  /\ \E c \in Conns \ open : conn' = [conn EXCEPT ![t] = c] /\ open' = open \cup {c}
  /\ UNCHANGED <<cells, rear, front, slots, items, mutex, last>>

\* P(&sp->slots) of sbuf_insert(), P(&sp->items) of sbuf_remove().
WaitSlot(t) ==
  /\ At1(t, "insert", "lock") /\ slots > 0
  /\ slots' = slots - 1
  /\ UNCHANGED <<cells, rear, front, items, mutex, conn, open, last>>

WaitItem(t) ==
  /\ At1(t, "remove", "lock") /\ items > 0
  /\ items' = items - 1
  /\ UNCHANGED <<cells, rear, front, slots, mutex, conn, open, last>>

\* Mutant of Lock: P(&sp->mutex) does not wait.
LockNever(t) ==
  /\ At1(t, "lock", "index")
  /\ mutex' = 0
  /\ UNCHANGED <<cells, rear, front, slots, items, conn, open, last>>

\* P(&sp->mutex)
Lock(t) ==
  /\ At1(t, "lock", "index") /\ mutex > 0
  /\ mutex' = mutex - 1
  /\ UNCHANGED <<cells, rear, front, slots, items, conn, open, last>>

\* ++sp->rear or ++sp->front, and then the access of the cell.
Index(t) ==
  /\ At1(t, "index", "access")
  /\ IF t \in Inserters THEN rear' = Inc(rear) /\ UNCHANGED front
                        ELSE front' = Inc(front) /\ UNCHANGED rear
  /\ UNCHANGED <<cells, slots, items, mutex, conn, open, last>>

Store(t) ==
  /\ t \in Inserters /\ At1(t, "access", "unlock")
  /\ cells' = [cells EXCEPT ![rear % N] = conn[t]]
  /\ conn' = [conn EXCEPT ![t] = NoConn]
  /\ UNCHANGED <<rear, front, slots, items, mutex, open, last>>

Load(t) ==
  /\ t \in Workers /\ At1(t, "access", "unlock")
  /\ conn' = [conn EXCEPT ![t] = cells[front % N]]
  /\ last' = cells[front % N]
  /\ cells' = [cells EXCEPT ![front % N] = NoConn]    \* not read again
  /\ UNCHANGED <<rear, front, slots, items, mutex, open>>

\* V(&sp->mutex)
Unlock(t) ==
  /\ At1(t, "unlock", "announce")
  /\ mutex' = mutex + 1
  /\ UNCHANGED <<cells, rear, front, slots, items, conn, open, last>>

\* V(&sp->items), V(&sp->slots)
Announce(t) ==
  /\ At1(t, "announce", IF t \in Inserters THEN "accept" ELSE "serve")
  /\ IF t \in Inserters THEN items' = items + 1 /\ UNCHANGED slots
                        ELSE slots' = slots + 1 /\ UNCHANGED items
  /\ UNCHANGED <<cells, rear, front, mutex, conn, open, last>>

\* echo_cnt() and Close() in thread().
Serve(t) ==
  /\ At1(t, "serve", "remove")
  /\ open' = open \ {conn[t]}
  /\ conn' = [conn EXCEPT ![t] = NoConn]
  /\ UNCHANGED <<cells, rear, front, slots, items, mutex, last>>

SbufNext ==
  \E t \in Threads : \/ Accept(t) \/ WaitSlot(t) \/ WaitItem(t) \/ Lock(t) \/ Index(t)
                     \/ Store(t) \/ Load(t) \/ Unlock(t) \/ Announce(t) \/ Serve(t)

SbufSpec == SbufInit /\ [][SbufNext]_sbufVars

-----------------------------------------------------------------------------
SbufTypeOK ==
  /\ cells \in [0..(N - 1) -> Conns \cup {NoConn}]
  /\ rear \in 0..(CountBound - 1) /\ front \in 0..(CountBound - 1)
  /\ slots \in 0..N /\ items \in 0..N /\ mutex \in 0..1
  /\ step \in [Threads -> {"accept", "insert", "remove", "lock", "index", "access",
                           "unlock", "announce", "serve"}]
  /\ conn \in [Threads -> Conns \cup {NoConn}]
  /\ open \subseteq Conns /\ last \in Conns \cup {NoConn}

Inside(t) == step[t] \in {"index", "access", "unlock"}

\* One thread at a time works on the buffer.
MutualExclusion == \A t, u \in Threads : Inside(t) /\ Inside(u) => t = u

\* The semaphores count what they stand for and keep all but one thread out.
SbufSound == SbufTypeOK /\ MutualExclusion

\* Nothing is overwritten, lost or handed out twice: the buffer is a bounded queue,
\* though a cell is written after the index moves.
InStore == IF \E t \in Inserters : step[t] = "access" THEN 1 ELSE 0
InLoad == IF \E t \in Workers : step[t] = "access" THEN 1 ELSE 0
Queued == (rear + CountBound - front) % CountBound
Q == INSTANCE Fifo WITH
       Capacity <- N, Bytes <- Conns, writable <- TRUE,
       queue <- [k \in 1..(Queued - InStore + InLoad) |-> cells[(front - InLoad + k + CountBound) % N]],
       out <- [eof |-> FALSE, bytes |-> IF last = NoConn THEN <<>> ELSE <<last>>]
SbufImplementsFifo == Q!Spec
=============================================================================
