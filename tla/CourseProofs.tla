----------------------------- MODULE CourseProofs -----------------------------
(***************************************************************************)
(* Proofs about two programs of the course code.                            *)
(*                                                                         *)
(* Sbuf, for any threads, connections and number of cells.  The semaphore   *)
(* mutex lets one thread at a time work on the buffer; a unit of slots and  *)
(* items that is in neither is with a thread that is Busy, so that neither  *)
(* ever counts beyond the cells there are.                                  *)
(*                                                                         *)
(* Reaper, for every set of pids.  That the job list is exact rests on the  *)
(* mask: while main() holds a pid that is in no list, SIGCHLD is blocked,   *)
(* and while handler() holds one, main() does not move.                     *)
(***************************************************************************)
EXTENDS Sbuf, Reaper, FiniteSetTheorems, SequenceTheorems, TLAPS

-----------------------------------------------------------------------------
(* sbuf.c: the bounded buffer. *)

\* Threads between their first P() and their last V().
Busy == {t \in Threads : step[t] \in {"lock", "index", "access", "unlock", "announce"}}

\* mutex is taken exactly while a thread is inside, and only one is.
Mutex ==
  /\ \A t \in Threads : Inside(t) => mutex = 0
  /\ MutualExclusion

\* Every unit of the two semaphores is counted, or with a thread.
UnitsCounted == IsFiniteSet(Busy) /\ slots + items + Cardinality(Busy) = N

SbufInv == SbufTypeOK /\ Mutex /\ UnitsCounted

LEMMA SbufInitial == SbufInit => SbufInv
<1> SUFFICES ASSUME SbufInit PROVE SbufInv
  OBVIOUS
<1>1. SbufTypeOK
  BY SbufAssumption DEF SbufInit, SbufTypeOK
<1>2. Mutex
  BY DEF SbufInit, Mutex, MutualExclusion, Inside
<1>3. Busy = {}
  BY DEF SbufInit, Busy
<1>4. UnitsCounted
  BY <1>3, FS_EmptySet, SbufAssumption DEF SbufInit, UnitsCounted
<1>5. QED
  BY <1>1, <1>2, <1>4 DEF SbufInv

\* A step of t that takes a unit out of slots or items puts t among the busy.
LEMMA BusyGrows ==
  ASSUME SbufTypeOK, NEW t \in Threads, IsFiniteSet(Busy), t \notin Busy,
         step' = [step EXCEPT ![t] = "lock"]
  PROVE  IsFiniteSet(Busy') /\ Cardinality(Busy') = Cardinality(Busy) + 1
<1>1. Busy' = Busy \cup {t}
  BY DEF Busy, SbufTypeOK
<1>2. QED
  BY <1>1, FS_AddElement

\* Announcing gives it back.
LEMMA BusyShrinks ==
  ASSUME SbufTypeOK, NEW t \in Threads, IsFiniteSet(Busy), t \in Busy,
         NEW to \in {"accept", "serve"}, step' = [step EXCEPT ![t] = to]
  PROVE  IsFiniteSet(Busy') /\ Cardinality(Busy') = Cardinality(Busy) - 1
<1>1. Busy' = Busy \ {t}
  BY DEF Busy, SbufTypeOK
<1>2. QED
  BY <1>1, FS_RemoveElement

\* Each step keeps the semaphores of the queue balanced.
LEMMA UnitsKept ==
  ASSUME SbufInv, NEW t \in Threads,
         \/ Accept(t) \/ WaitSlot(t) \/ WaitItem(t) \/ Lock(t) \/ Index(t)
         \/ Store(t) \/ Load(t) \/ Unlock(t) \/ Announce(t) \/ Serve(t)
  PROVE  UnitsCounted'
<1> SbufTypeOK /\ UnitsCounted
  BY DEF SbufInv
<1>0. /\ Cardinality(Busy) \in Nat /\ N \in Nat
      /\ slots \in Int /\ items \in Int
  BY FS_CardinalityType, SbufAssumption DEF UnitsCounted, SbufTypeOK
<1>1. CASE WaitSlot(t) \/ WaitItem(t)
  <2>1. t \notin Busy /\ step' = [step EXCEPT ![t] = "lock"]
    BY <1>1 DEF WaitSlot, WaitItem, At1, Busy
  <2>2. \/ slots' = slots - 1 /\ items' = items
        \/ slots' = slots /\ items' = items - 1
    BY <1>1 DEF WaitSlot, WaitItem
  <2>3. IsFiniteSet(Busy') /\ Cardinality(Busy') = Cardinality(Busy) + 1
    BY <2>1, BusyGrows DEF UnitsCounted
  <2>4. slots' + items' + Cardinality(Busy') = N
    BY <1>0, <2>2, <2>3 DEF UnitsCounted
  <2>5. QED
    BY <2>3, <2>4 DEF UnitsCounted
<1>2. CASE Announce(t)
  <2>1. t \in Busy /\ \E to \in {"accept", "serve"} : step' = [step EXCEPT ![t] = to]
    BY <1>2 DEF Announce, At1, Busy
  <2>2. \/ slots' = slots + 1 /\ items' = items
        \/ slots' = slots /\ items' = items + 1
    BY <1>2 DEF Announce
  <2>3. IsFiniteSet(Busy') /\ Cardinality(Busy') = Cardinality(Busy) - 1
    BY <2>1, BusyShrinks DEF UnitsCounted
  <2>4. slots' + items' + Cardinality(Busy') = N
    BY <1>0, <2>2, <2>3 DEF UnitsCounted
  <2>5. QED
    BY <2>3, <2>4 DEF UnitsCounted
<1>3. CASE Lock(t) \/ Index(t) \/ Store(t) \/ Load(t) \/ Unlock(t)
  <2>1. Busy' = Busy
    BY <1>3 DEF Lock, Index, Store, Load, Unlock, At1, Busy, SbufTypeOK
  <2>2. UNCHANGED <<slots, items>>
    BY <1>3 DEF Lock, Index, Store, Load, Unlock
  <2>3. QED
    BY <2>1, <2>2 DEF UnitsCounted
<1>4. CASE Accept(t) \/ Serve(t)
  <2>1. Busy' = Busy
    BY <1>4 DEF Accept, Serve, At1, Busy, SbufTypeOK
  <2>2. UNCHANGED <<slots, items>>
    BY <1>4 DEF Accept, Serve
  <2>3. QED
    BY <2>1, <2>2 DEF UnitsCounted
<1>5. QED
  BY <1>1, <1>2, <1>3, <1>4

\* Nobody gets in while mutex is 0, and only the one inside raises it.
LEMMA MutexKept ==
  ASSUME SbufInv, NEW t \in Threads,
         \/ Accept(t) \/ WaitSlot(t) \/ WaitItem(t) \/ Lock(t) \/ Index(t)
         \/ Store(t) \/ Load(t) \/ Unlock(t) \/ Announce(t) \/ Serve(t)
  PROVE  Mutex' /\ mutex' \in 0..1
<1> SbufTypeOK /\ Mutex
  BY DEF SbufInv
<1>1. CASE Lock(t)
  BY <1>1 DEF Lock, At1, Mutex, MutualExclusion, Inside, SbufTypeOK
<1>2. CASE Unlock(t)
  BY <1>2 DEF Unlock, At1, Mutex, MutualExclusion, Inside, SbufTypeOK
<1>3. CASE Index(t) \/ Store(t) \/ Load(t)
  BY <1>3 DEF Index, Store, Load, At1, Mutex, MutualExclusion, Inside, SbufTypeOK
<1>4. CASE Accept(t) \/ WaitSlot(t) \/ WaitItem(t) \/ Announce(t) \/ Serve(t)
  BY <1>4 DEF Accept, WaitSlot, WaitItem, Announce, Serve, At1, Mutex, MutualExclusion,
              Inside, SbufTypeOK
<1>5. QED
  BY <1>1, <1>2, <1>3, <1>4

\* The indices stay in their range: Inc() counts modulo CountBound.
LEMMA IncInRange ==
  ASSUME NEW k \in 0..(CountBound - 1)
  PROVE  Inc(k) \in 0..(CountBound - 1)
BY SbufAssumption, SMTT(30) DEF Inc

\* Every cell that a thread works on is one of the N.
LEMMA CellInRange ==
  ASSUME NEW k \in 0..(CountBound - 1)
  PROVE  k % N \in 0..(N - 1)
BY SbufAssumption, SMTT(30)

\* Each step keeps the types; that slots and items stay within 0..N is UnitsCounted.
LEMMA SbufTypesKept ==
  ASSUME SbufInv, NEW t \in Threads,
         \/ Accept(t) \/ WaitSlot(t) \/ WaitItem(t) \/ Lock(t) \/ Index(t)
         \/ Store(t) \/ Load(t) \/ Unlock(t) \/ Announce(t) \/ Serve(t)
  PROVE  SbufTypeOK'
<1> SbufTypeOK /\ UnitsCounted /\ N \in Nat
  BY SbufAssumption DEF SbufInv
<1>1. step' \in [Threads -> {"accept", "insert", "remove", "lock", "index", "access",
                            "unlock", "announce", "serve"}]
  BY DEF SbufTypeOK, Accept, WaitSlot, WaitItem, Lock, Index, Store, Load, Unlock, Announce,
         Serve, At1
<1>2. rear' \in 0..(CountBound - 1) /\ front' \in 0..(CountBound - 1)
  BY IncInRange DEF SbufTypeOK, Accept, WaitSlot, WaitItem, Lock, Index, Store, Load,
                    Unlock, Announce, Serve
<1>3. slots' \in 0..N /\ items' \in 0..N
  <2>1. slots' \in Nat /\ items' \in Nat
    BY DEF SbufTypeOK, Accept, WaitSlot, WaitItem, Lock, Index, Store, Load, Unlock,
           Announce, Serve
  <2>2. UnitsCounted'
    BY UnitsKept
  <2>3. Cardinality(Busy') \in Nat
    BY <2>2, FS_CardinalityType DEF UnitsCounted
  <2>4. QED
    BY <2>1, <2>2, <2>3 DEF UnitsCounted
<1>4. /\ cells' \in [0..(N - 1) -> Conns \cup {NoConn}]
      /\ conn' \in [Threads -> Conns \cup {NoConn}]
      /\ open' \subseteq Conns /\ last' \in Conns \cup {NoConn}
  <2>1. CASE Store(t)
    BY <2>1, CellInRange DEF Store, SbufTypeOK
  <2>2. CASE Load(t)
    BY <2>2, CellInRange DEF Load, SbufTypeOK
  <2>3. CASE ~Store(t) /\ ~Load(t)
    BY <2>3 DEF SbufTypeOK, Accept, WaitSlot, WaitItem, Lock, Index, Unlock, Announce, Serve
  <2>4. QED
    BY <2>1, <2>2, <2>3
<1>5. mutex' \in 0..1
  BY MutexKept
<1>6. QED
  BY <1>1, <1>2, <1>3, <1>4, <1>5 DEF SbufTypeOK

\* The bounded buffer of sbuf.c: slots and items stay within the n cells of the buffer
\* and mutex lets in one thread at a time, however many threads insert and remove.
THEOREM SbufIsSound == SbufSpec => []SbufSound
<1>1. SbufInv /\ [SbufNext]_sbufVars => SbufInv'
  <2> SUFFICES ASSUME SbufInv, [SbufNext]_sbufVars PROVE SbufInv'
    OBVIOUS
  <2>1. CASE SbufNext
    BY <2>1, SbufTypesKept, MutexKept, UnitsKept DEF SbufInv, SbufNext
  <2>2. CASE UNCHANGED sbufVars
    BY <2>2 DEF sbufVars, SbufInv, SbufTypeOK, Mutex, MutualExclusion, Inside, UnitsCounted,
                Busy
  <2>3. QED
    BY <2>1, <2>2
<1>2. SbufInv => SbufSound
  BY DEF SbufInv, Mutex, SbufSound
<1>3. QED
  BY SbufInitial, <1>1, <1>2, PTL DEF SbufSpec

-----------------------------------------------------------------------------
(* Remainders, as in PipeProofs. *)

LEMMA ModDiv ==
  ASSUME NEW n \in Nat \ {0}, NEW a \in Int
  PROVE  a = n * (a \div n) + (a % n) /\ a \div n \in Int /\ a % n \in 0..(n - 1)
BY SMTT(30)

LEMMA NoMultiple ==
  ASSUME NEW n \in Nat \ {0}, NEW q \in Int, -n < n * q, n * q < n
  PROVE  q = 0
<1>1. CASE q >= 1
  <2>1. n * q >= n * 1
    BY <1>1
  <2>2. QED
    BY <2>1
<1>2. CASE q <= -1
  <2>1. n * q <= n * (-1)
    BY <1>2
  <2>2. QED
    BY <2>1
<1>3. QED
  BY <1>1, <1>2

\* Numbers that are equal up to multiples of n, and less than n apart, are equal.
LEMMA ModUnique ==
  ASSUME NEW n \in Nat \ {0}, NEW q \in Int, NEW r \in 0..(n - 1)
  PROVE  (n * q + r) % n = r
<1> DEFINE a == n * q + r
<1>1. a \in Int
  OBVIOUS
<1>2. a = n * (a \div n) + (a % n) /\ a \div n \in Int /\ a % n \in 0..(n - 1)
  BY <1>1, ModDiv
<1> HIDE DEF a
<1>3. PICK d \in Int, e \in 0..(n - 1) : a = n * d + e /\ e = a % n
  BY <1>2
<1>4. n * (q - d) = n * q - n * d
  OBVIOUS
<1>5. n * (q - d) = e - r
  BY <1>3, <1>4 DEF a
<1>6. q - d = 0
  BY <1>5, NoMultiple
<1>7. QED
  BY <1>3, <1>5, <1>6 DEF a

LEMMA ModMultiple ==
  ASSUME NEW n \in Nat \ {0}, NEW k \in Int, NEW a \in Int
  PROVE  (a + n * k) % n = a % n
<1>1. PICK q \in Int, r \in 0..(n - 1) : a = n * q + r /\ r = a % n
  BY ModDiv
<1>2. n * (q + k) = n * q + n * k
  OBVIOUS
<1>3. a + n * k = n * (q + k) + r
  BY <1>1, <1>2
<1>4. (n * (q + k) + r) % n = r
  BY ModUnique
<1>5. QED
  BY <1>1, <1>3, <1>4

\* Cells less than n apart are different cells.
LEMMA ModApart ==
  ASSUME NEW n \in Nat \ {0}, NEW a \in Int, NEW j \in 1..(n - 1)
  PROVE  (a + j) % n # a % n
<1>1. PICK q \in Int, r \in 0..(n - 1) : a = n * q + r /\ r = a % n
  BY ModDiv
<1>2. PICK b \in Int : b = a + j
  OBVIOUS
<1>3. PICK s \in Int, t \in 0..(n - 1) : b = n * s + t /\ t = b % n
  BY ModDiv
<1>4. ASSUME t = r PROVE FALSE
  <2>1. n * (s - q) = n * s - n * q
    OBVIOUS
  <2>2. n * (s - q) = j
    BY <1>1, <1>2, <1>3, <1>4, <2>1
  <2>3. s - q = 0
    BY <2>2, NoMultiple
  <2>4. QED
    BY <2>2, <2>3
<1>5. QED
  BY <1>1, <1>2, <1>3, <1>4

LEMMA ModCases ==
  ASSUME NEW n \in Nat \ {0}, NEW a \in (-n)..(2 * n - 1)
  PROVE  a % n = IF a < 0 THEN a + n ELSE IF a < n THEN a ELSE a - n
<1>1. CASE a < 0
  <2>1. (n * (-1) + (a + n)) % n = a + n
    BY <1>1, ModUnique
  <2>2. QED
    BY <1>1, <2>1
<1>2. CASE a \in 0..(n - 1)
  <2>1. (n * 0 + a) % n = a
    BY <1>2, ModUnique
  <2>2. QED
    BY <1>2, <2>1
<1>3. CASE a >= n
  <2>1. (n * 1 + (a - n)) % n = a - n
    BY <1>3, ModUnique
  <2>2. QED
    BY <1>3, <2>1
<1>4. QED
  BY <1>1, <1>2, <1>3

-----------------------------------------------------------------------------
(* The queue.  Between Index and Store, or Load, an index is one ahead of the *)
(* cells: InStore and InLoad count that.                                     *)

Length == Queued - InStore + InLoad
Base == front - InLoad
Cell(b, k) == (b + k + CountBound) % N
Row(d, b, n) == [k \in 1..n |-> d[Cell(b, k)]]
Arrays == [0..(N - 1) -> Conns \cup {NoConn}]
TheQueue == Row(cells, Base, Length)

\* A thread does what its kind does, and an inserter has the connection that it is to store.
Roles ==
  /\ \A t \in Inserters : /\ step[t] \notin {"remove", "serve"}
                          /\ step[t] \in {"insert", "lock", "index", "access"} => conn[t] \in Conns
  /\ \A t \in Workers : step[t] \notin {"accept", "insert"}

\* A connection that is stored and not announced, or taken from items and not loaded.
Due == {t \in Threads : \/ t \in Inserters /\ step[t] \in {"unlock", "announce"}
                        \/ t \in Workers /\ step[t] \in {"lock", "index", "access"}}

LengthCounted == Length = items + Cardinality(Due)
CellsFilled == \A k \in 1..Length : cells[Cell(Base, k)] \in Conns

QueueInv == Roles /\ LengthCounted /\ CellsFilled

LEMMA Sizes ==
  /\ N \in Nat \ {0} /\ CountBound \in Nat \ {0} /\ N < CountBound
  /\ \E q \in Int : CountBound = N * q
<1>1. N \in Nat \ {0} /\ CountBound \in Nat \ {0} /\ N < CountBound /\ CountBound % N = 0
  BY SbufAssumption
<1>2. /\ CountBound = N * (CountBound \div N) + (CountBound % N)
      /\ CountBound \div N \in Int
  BY <1>1, ModDiv
<1>3. CountBound = N * (CountBound \div N)
  BY <1>1, <1>2
<1>4. QED
  BY <1>1, <1>2, <1>3

\* A cell is one of the N; it is the same a turn of the counter before.
LEMMA CellTurns ==
  ASSUME NEW b \in Int, NEW k \in Int
  PROVE  /\ Cell(b, k) \in 0..(N - 1)
         /\ Cell(b + 1, k) = Cell(b, k + 1)
         /\ Cell(b - CountBound, k) = Cell(b, k)
         /\ (b + k) % N = Cell(b, k)
<1>1. PICK q \in Int : CountBound = N * q
  BY Sizes
<1>2. PICK a \in Int : a = b + k
  OBVIOUS
<1>3. (a + N * q) % N = a % N
  BY ModMultiple, Sizes
<1>4. Cell(b, k) = a % N
  BY <1>1, <1>2, <1>3, Sizes DEF Cell
<1>5. Cell(b - CountBound, k) = a % N
  <2>1. (b - CountBound) + k + CountBound = a
    BY <1>2, Sizes
  <2>2. QED
    BY <2>1 DEF Cell
<1>6. Cell(b + 1, k) = Cell(b, k + 1)
  <2>1. (b + 1) + k + CountBound = b + (k + 1) + CountBound
    BY Sizes
  <2>2. QED
    BY <2>1 DEF Cell
<1>7. a % N \in 0..(N - 1)
  BY ModDiv, Sizes
<1>8. QED
  BY <1>2, <1>4, <1>5, <1>6, <1>7

LEMMA CellInBuffer == \A b, k \in Int : Cell(b, k) \in 0..(N - 1)
BY CellTurns

LEMMA CellAfter == \A b, k \in Int : Cell(b + 1, k) = Cell(b, k + 1)
BY CellTurns

\* Cells less than N apart are different ones.
LEMMA CellsApart ==
  ASSUME NEW b \in Int, NEW k \in Int, NEW j \in 1..(N - 1)
  PROVE  Cell(b, k + j) # Cell(b, k)
<1>1. PICK a \in Int : a = b + k + CountBound
  BY Sizes
<1>2. b + (k + j) + CountBound = a + j
  BY <1>1, Sizes
<1>3. (a + j) % N # a % N
  BY ModApart, Sizes
<1>4. QED
  BY <1>1, <1>2, <1>3 DEF Cell

\* Queued is how far rear is ahead of front.
LEMMA QueuedIs ==
  ASSUME NEW r \in 0..(CountBound - 1), NEW f \in 0..(CountBound - 1)
  PROVE  (r + CountBound - f) % CountBound = IF r < f THEN r - f + CountBound ELSE r - f
<1>1. PICK x \in (-CountBound)..(2 * CountBound - 1) : x = r + CountBound - f
  BY Sizes
<1>2. x % CountBound = IF x < 0 THEN x + CountBound
                       ELSE IF x < CountBound THEN x ELSE x - CountBound
  BY ModCases, Sizes
<1>3. QED
  BY <1>1, <1>2, Sizes

LEMMA IncIs ==
  ASSUME NEW k \in 0..(CountBound - 1)
  PROVE  Inc(k) = IF k = CountBound - 1 THEN 0 ELSE k + 1
<1>1. PICK x \in (-CountBound)..(2 * CountBound - 1) : x = k + 1
  BY Sizes
<1>2. x % CountBound = IF x < 0 THEN x + CountBound
                       ELSE IF x < CountBound THEN x ELSE x - CountBound
  BY ModCases, Sizes
<1>3. QED
  BY <1>1, <1>2, Sizes DEF Inc

LEMMA Counters ==
  ASSUME SbufTypeOK
  PROVE  /\ InStore \in 0..1 /\ InLoad \in 0..1 /\ Base \in Int
         /\ rear \in 0..(CountBound - 1) /\ front \in 0..(CountBound - 1)
         /\ Queued = IF rear < front THEN rear - front + CountBound ELSE rear - front
         /\ Queued \in 0..(CountBound - 1)
<1>1. rear \in 0..(CountBound - 1) /\ front \in 0..(CountBound - 1)
  BY DEF SbufTypeOK
<1>2. InStore \in 0..1 /\ InLoad \in 0..1
  BY DEF InStore, InLoad
<1>3. Queued = IF rear < front THEN rear - front + CountBound ELSE rear - front
  BY <1>1, QueuedIs DEF Queued
<1>4. QED
  BY <1>1, <1>2, <1>3, Sizes DEF Base

\* The units of the semaphores say how full the buffer is: a thread that is to store
\* finds room, and one that is to load finds a connection.
LEMMA LengthBounds ==
  ASSUME SbufInv, LengthCounted
  PROVE  /\ IsFiniteSet(Due) /\ Length \in 0..N
         /\ \A t \in Inserters : step[t] \in {"lock", "index", "access"} => Length < N
         /\ \A t \in Workers : step[t] \in {"lock", "index", "access"} => Length >= 1
<1>1. Due \subseteq Busy /\ IsFiniteSet(Busy)
  BY DEF SbufInv, UnitsCounted, Due, Busy
<1>2. /\ IsFiniteSet(Due) /\ Cardinality(Due) <= Cardinality(Busy)
      /\ Cardinality(Due) = Cardinality(Busy) => Due = Busy
      /\ Cardinality(Due) \in Nat /\ Cardinality(Busy) \in Nat
  BY <1>1, FS_Subset, FS_CardinalityType
<1>3. items \in 0..N /\ slots \in 0..N /\ slots + items + Cardinality(Busy) = N
  BY DEF SbufInv, SbufTypeOK, UnitsCounted
<1>4. Length = items + Cardinality(Due) /\ Length \in 0..N
  BY <1>2, <1>3, Sizes DEF LengthCounted
<1>5. ASSUME NEW t \in Inserters, step[t] \in {"lock", "index", "access"} PROVE Length < N
  <2>1. t \in Busy /\ t \notin Due
    BY <1>5, SbufAssumption DEF Busy, Due, Threads
  <2>2. Cardinality(Due) < Cardinality(Busy)
    BY <1>2, <2>1
  <2>3. QED
    BY <1>2, <1>3, <1>4, <2>2, Sizes
<1>6. ASSUME NEW t \in Workers, step[t] \in {"lock", "index", "access"} PROVE Length >= 1
  <2>1. t \in Due
    BY <1>6 DEF Due, Threads
  <2>2. Cardinality(Due) # 0
    BY <1>2, <2>1, FS_EmptySet
  <2>3. QED
    BY <1>2, <1>3, <1>4, <2>2
<1>7. QED
  BY <1>2, <1>4, <1>5, <1>6

\* rear points to the cell after the last one.
LEMMA RearIsNext ==
  ASSUME SbufTypeOK
  PROVE  rear % N = Cell(Base, Length + InStore)
<1>1. PICK b \in Int, k \in Int : b = Base /\ k = Length + InStore
  BY Counters DEF Length
<1>2. b + k = rear \/ b + k = rear + CountBound
  BY <1>1, Counters, Sizes DEF Length, Base
<1>3. CASE b + k = rear
  BY <1>1, <1>3, CellTurns
<1>4. CASE b + k = rear + CountBound
  <2>1. (b - CountBound) + k = rear /\ b - CountBound \in Int
    BY <1>4, Counters, Sizes
  <2>2. rear % N = Cell(b - CountBound, k)
    BY <2>1, CellTurns
  <2>3. QED
    BY <1>1, <2>2, CellTurns
<1>5. QED
  BY <1>2, <1>3, <1>4

-----------------------------------------------------------------------------
(* Each step keeps that, and is one of the queue or none. *)

\* A step that leaves the buffer, and who accesses it, alone.
BufferAlone == UNCHANGED <<cells, rear, front, last, InStore, InLoad>>

LEMMA AloneIsQuiet ==
  ASSUME BufferAlone
  PROVE  UNCHANGED Q!fvars /\ Length' = Length /\ (CellsFilled => CellsFilled')
<1>1. Length' = Length
  BY DEF BufferAlone, Length, Queued
<1>2. UNCHANGED Q!fvars
  BY DEF BufferAlone, Queued, Q!fvars
<1>3. QED
  BY <1>1, <1>2 DEF BufferAlone, CellsFilled, Base, Cell

\* Each step keeps the roles,
LEMMA RolesKept ==
  ASSUME SbufInv, QueueInv, NEW t \in Threads,
         \/ Accept(t) \/ WaitSlot(t) \/ WaitItem(t) \/ Lock(t) \/ Index(t)
         \/ Store(t) \/ Load(t) \/ Unlock(t) \/ Announce(t) \/ Serve(t)
  PROVE  Roles'
<1> /\ SbufTypeOK /\ Roles /\ Inserters \cap Workers = {}
    /\ \A u \in Threads : u \in Inserters \/ u \in Workers
    /\ \A u \in Inserters \cup Workers : u \in Threads
  BY SbufAssumption DEF SbufInv, QueueInv, Threads
<1>1. CASE Accept(t)
  BY <1>1 DEF Accept, At1, Roles, SbufTypeOK
<1>2. CASE WaitSlot(t) \/ WaitItem(t)
  BY <1>2 DEF WaitSlot, WaitItem, At1, Roles, SbufTypeOK
<1>3. CASE Lock(t) \/ Index(t) \/ Unlock(t)
  BY <1>3 DEF Lock, Index, Unlock, At1, Roles, SbufTypeOK
<1>4. CASE Store(t) \/ Load(t)
  BY <1>4 DEF Store, Load, At1, Roles, SbufTypeOK
<1>5. CASE Announce(t)
  BY <1>5 DEF Announce, At1, Roles, SbufTypeOK
<1>6. CASE Serve(t)
  BY <1>6 DEF Serve, At1, Roles, SbufTypeOK
<1>7. QED
  BY <1>1, <1>2, <1>3, <1>4, <1>5, <1>6

\* Each step keeps the count of what is due; only Store and Load change the length.
LEMMA DueCounts ==
  ASSUME SbufInv, QueueInv, NEW t \in Threads,
         \/ Accept(t) \/ WaitSlot(t) \/ WaitItem(t) \/ Lock(t) \/ Index(t)
         \/ Store(t) \/ Load(t) \/ Unlock(t) \/ Announce(t) \/ Serve(t)
  PROVE  items' + Cardinality(Due') = IF Store(t) THEN Length + 1
                                      ELSE IF Load(t) THEN Length - 1 ELSE Length
<1> /\ SbufTypeOK /\ Roles /\ IsFiniteSet(Due) /\ Length = items + Cardinality(Due)
    /\ Cardinality(Due) \in Nat /\ items \in Nat
  BY LengthBounds, FS_CardinalityType, Sizes
     DEF SbufInv, SbufTypeOK, QueueInv, LengthCounted
<1> /\ Inserters \cap Workers = {}
    /\ \A u \in Threads : u \in Inserters \/ u \in Workers
  BY SbufAssumption DEF Threads
<1>1. CASE WaitItem(t)
  <2>1. t \in Workers /\ t \notin Due
    BY <1>1 DEF WaitItem, At1, Roles, Due
  <2>2. Due' = Due \cup {t} /\ items' = items - 1 /\ ~Store(t) /\ ~Load(t)
    BY <1>1, <2>1 DEF WaitItem, At1, Due, SbufTypeOK, Store, Load
  <2>3. Cardinality(Due') = Cardinality(Due) + 1
    BY <2>1, <2>2, FS_AddElement
  <2>4. QED
    BY <2>2, <2>3
<1>2. CASE Store(t)
  <2>1. t \notin Due /\ Due' = Due \cup {t} /\ items' = items
    BY <1>2 DEF Store, At1, Due, SbufTypeOK
  <2>2. Cardinality(Due') = Cardinality(Due) + 1
    BY <2>1, FS_AddElement
  <2>3. QED
    BY <1>2, <2>1, <2>2
<1>3. CASE Load(t)
  <2>1. t \in Due /\ Due' = Due \ {t} /\ items' = items /\ ~Store(t)
    BY <1>3 DEF Load, At1, Due, SbufTypeOK, Store
  <2>2. Cardinality(Due') = Cardinality(Due) - 1
    BY <2>1, FS_RemoveElement
  <2>3. QED
    BY <1>3, <2>1, <2>2
<1>4. CASE Announce(t) /\ t \in Inserters
  <2>1. t \in Due /\ Due' = Due \ {t} /\ items' = items + 1 /\ ~Store(t) /\ ~Load(t)
    BY <1>4 DEF Announce, At1, Due, SbufTypeOK, Store, Load
  <2>2. Cardinality(Due') = Cardinality(Due) - 1
    BY <2>1, FS_RemoveElement
  <2>3. QED
    BY <2>1, <2>2
<1>5. CASE Announce(t) /\ t \notin Inserters
  <2>1. Due' = Due /\ items' = items /\ ~Store(t) /\ ~Load(t)
    BY <1>5 DEF Announce, At1, Due, SbufTypeOK, Store, Load
  <2>2. QED
    BY <2>1
<1>6. CASE WaitSlot(t)
  <2>1. t \in Inserters
    BY <1>6 DEF WaitSlot, At1, Roles
  <2>2. Due' = Due /\ items' = items /\ ~Store(t) /\ ~Load(t)
    BY <1>6, <2>1 DEF WaitSlot, At1, Due, SbufTypeOK, Store, Load
  <2>3. QED
    BY <2>2
<1>7. CASE Accept(t) \/ Serve(t)
  <2>1. Due' = Due /\ items' = items /\ ~Store(t) /\ ~Load(t)
    BY <1>7 DEF Accept, Serve, At1, Due, SbufTypeOK, Store, Load
  <2>2. QED
    BY <2>1
<1>8. CASE Lock(t) \/ Index(t) \/ Unlock(t)
  <2>1. Due' = Due /\ items' = items /\ ~Store(t) /\ ~Load(t)
    BY <1>8 DEF Lock, Index, Unlock, At1, Due, SbufTypeOK, Store, Load
  <2>2. QED
    BY <2>1
<1>9. QED
  BY <1>1, <1>2, <1>3, <1>4, <1>5, <1>6, <1>7, <1>8

\* Outside Index, Store and Load the buffer is left alone.
LEMMA OthersAreQuiet ==
  ASSUME SbufInv, QueueInv, NEW t \in Threads,
         \/ Accept(t) \/ WaitSlot(t) \/ WaitItem(t) \/ Lock(t) \/ Unlock(t)
         \/ Announce(t) \/ Serve(t)
  PROVE  QueueInv' /\ UNCHANGED Q!fvars
<1> SbufTypeOK
  BY DEF SbufInv
<1>1. /\ \A u \in Threads : step'[u] = "access" <=> step[u] = "access"
      /\ UNCHANGED <<cells, rear, front, last>> /\ ~Store(t) /\ ~Load(t)
  BY DEF Accept, WaitSlot, WaitItem, Lock, Unlock, Announce, Serve, Store, Load, At1,
         SbufTypeOK
<1>2. InStore' = InStore /\ InLoad' = InLoad
  BY <1>1 DEF InStore, InLoad, Threads
<1>3. UNCHANGED Q!fvars /\ Length' = Length /\ CellsFilled'
  BY <1>1, <1>2, AloneIsQuiet DEF BufferAlone, QueueInv
<1>4. LengthCounted'
  BY <1>1, <1>3, DueCounts DEF LengthCounted
<1>5. QED
  BY <1>3, <1>4, RolesKept DEF QueueInv

\* Only the thread that holds mutex accesses the buffer.
LEMMA Accesses ==
  ASSUME SbufInv, NEW t \in Threads, Inside(t)
  PROVE  /\ InStore = IF t \in Inserters /\ step[t] = "access" THEN 1 ELSE 0
         /\ InLoad = IF t \in Workers /\ step[t] = "access" THEN 1 ELSE 0
BY DEF SbufInv, Mutex, MutualExclusion, Inside, InStore, InLoad, Threads

\* The index moves before the cell is accessed; the queue does not show it.
LEMMA IndexIsQuiet ==
  ASSUME SbufInv, QueueInv, NEW t \in Threads, Index(t)
  PROVE  QueueInv' /\ UNCHANGED Q!fvars
<1> /\ SbufTypeOK /\ Inserters \cap Workers = {} /\ step[t] = "index" /\ Inside(t)
    /\ LengthCounted
  BY SbufAssumption DEF SbufInv, Index, At1, Inside, QueueInv
<1>1. InStore = 0 /\ InLoad = 0
  BY Accesses
<1>2. SbufInv'
  BY SbufTypesKept, MutexKept, UnitsKept DEF SbufInv
<1>3. Inside(t)' /\ step'[t] = "access" /\ UNCHANGED <<cells, last>> /\ ~Store(t) /\ ~Load(t)
  BY DEF Index, At1, Inside, SbufTypeOK, Store, Load
<1>4. /\ InStore' = IF t \in Inserters THEN 1 ELSE 0
      /\ InLoad' = IF t \in Workers THEN 1 ELSE 0
  BY <1>2, <1>3 DEF SbufInv, Mutex, MutualExclusion, Inside, InStore, InLoad, Threads
<1>5. Length = Queued /\ Length \in 0..N
  BY <1>1, Counters, LengthBounds DEF Length
<1>6. /\ rear' \in 0..(CountBound - 1) /\ front' \in 0..(CountBound - 1)
      /\ Queued' = IF rear' < front' THEN rear' - front' + CountBound ELSE rear' - front'
  <2>1. SbufTypeOK'
    BY <1>2 DEF SbufInv
  <2>2. rear' \in 0..(CountBound - 1) /\ front' \in 0..(CountBound - 1)
    BY <2>1 DEF SbufTypeOK
  <2>3. QED
    BY <2>2, QueuedIs DEF Queued
<1>7. ASSUME t \in Inserters
      PROVE  Length' = Length /\ \A k \in Int : Cell(Base, k)' = Cell(Base, k)
  <2>1. Length < N
    BY <1>7, LengthBounds
  <2>2. /\ rear' = IF rear = CountBound - 1 THEN 0 ELSE rear + 1
        /\ front' = front /\ InStore' = 1 /\ InLoad' = 0
    BY <1>4, <1>7, IncIs, Counters DEF Index
  <2>3. Queued' = Queued + 1
    BY <1>5, <1>6, <2>1, <2>2, Counters, Sizes
  <2>4. Length' = Length
    BY <1>5, <2>2, <2>3, Counters DEF Length
  <2>5. \A k \in Int : Cell(Base, k)' = Cell(Base, k)
    BY <1>1, <2>2 DEF Cell, Base
  <2>6. QED
    BY <2>4, <2>5
<1>8. ASSUME t \in Workers
      PROVE  Length' = Length /\ \A k \in Int : Cell(Base, k)' = Cell(Base, k)
  <2>1. Length >= 1 /\ t \notin Inserters
    BY <1>8, LengthBounds
  <2>2. /\ front' = IF front = CountBound - 1 THEN 0 ELSE front + 1
        /\ rear' = rear /\ InStore' = 0 /\ InLoad' = 1
    BY <1>4, <1>8, <2>1, IncIs, Counters DEF Index
  <2>3. Queued' = Queued - 1
    BY <1>5, <1>6, <2>1, <2>2, Counters, Sizes
  <2>4. Length' = Length
    BY <1>5, <2>2, <2>3, Counters DEF Length
  <2>5. ASSUME NEW k \in Int PROVE Cell(Base, k)' = Cell(Base, k)
    <3>1. PICK b \in Int, c \in Int : b = Base /\ c = Base'
      BY <1>6, <2>2, Counters DEF Base
    <3>2. c = b \/ c = b - CountBound
      BY <1>1, <2>2, <3>1, Counters, Sizes DEF Base
    <3>3. Cell(c, k) = Cell(b, k)
      BY <3>2, CellTurns
    <3>4. Cell(Base, k)' = Cell(c, k)
      BY <3>1 DEF Cell
    <3>5. QED
      BY <3>1, <3>3, <3>4
  <2>6. QED
    BY <2>4, <2>5
<1>9. Length' = Length /\ \A k \in Int : Cell(Base, k)' = Cell(Base, k)
  BY <1>7, <1>8 DEF Threads
<1>10. TheQueue' = TheQueue /\ CellsFilled'
  <2>1. \A k \in 1..Length : k \in Int
    BY <1>5, Sizes
  <2>2. QED
    BY <1>3, <1>9, <2>1 DEF TheQueue, Row, CellsFilled, QueueInv
<1>11. LengthCounted'
  BY <1>3, <1>9, DueCounts DEF LengthCounted
<1>12. UNCHANGED Q!fvars
  BY <1>3, <1>10 DEF Q!fvars, TheQueue, Row, Length, Cell, Base
<1>13. QED
  BY <1>10, <1>11, <1>12, RolesKept DEF QueueInv

\* A connection that is stored in the cell after the last becomes the last of the queue,
LEMMA StoredLast ==
  ASSUME NEW b \in Int, NEW n \in 0..(N - 1), NEW c \in Conns,
         NEW d \in Arrays,
         \A k \in 1..n : d[Cell(b, k)] \in Conns,
         NEW e \in Arrays, e[Cell(b, n + 1)] = c,
         \A x \in 0..(N - 1) : x # Cell(b, n + 1) => e[x] = d[x]
  PROVE  /\ Row(e, b, n + 1) = Append(Row(d, b, n), c)
         /\ \A k \in 1..(n + 1) : e[Cell(b, k)] \in Conns
<1> DEFINE s == [k \in 1..n |-> d[Cell(b, k)]]
           t == [k \in 1..(n + 1) |-> e[Cell(b, k)]]
<1>1. n \in Nat /\ Cell(b, n + 1) \in 0..(N - 1)
  <2>1. n \in Nat /\ n + 1 \in Int
    BY Sizes
  <2>2. QED
    BY <2>1, CellInBuffer
<1>2. e[Cell(b, n + 1)] = c
  OBVIOUS
<1>3. ASSUME NEW k \in 1..n PROVE e[Cell(b, k)] = d[Cell(b, k)]
  <2>1. PICK j \in 1..(N - 1) : k + j = n + 1
    <3>1. n + 1 - k \in 1..(N - 1) /\ k + (n + 1 - k) = n + 1
      BY <1>1, Sizes
    <3>2. QED
      BY <3>1
  <2>2. Cell(b, n + 1) # Cell(b, k)
    <3>1. k \in Int
      OBVIOUS
    <3>2. Cell(b, k + j) # Cell(b, k)
      BY <3>1, CellsApart
    <3>3. QED
      BY <2>1, <3>2
  <2>3. Cell(b, k) \in 0..(N - 1)
    <3>1. k \in Int
      OBVIOUS
    <3>2. QED
      BY <3>1, CellInBuffer
  <2>4. QED
    BY <2>2, <2>3
<1>4. s \in Seq(Conns) /\ Len(s) = n
  BY <1>1
<1>5. /\ Append(s, c) \in Seq(Conns) /\ Len(Append(s, c)) = n + 1
      /\ \A k \in 1..(n + 1) : Append(s, c)[k] = IF k = n + 1 THEN c ELSE s[k]
  <2> HIDE DEF s
  <2>1. QED
    BY <1>4, AppendProperties
<1>6. \A k \in 1..(n + 1) : k \in 1..n \/ k = n + 1
  BY <1>1
<1>7. \A k \in 1..(n + 1) : t[k] = Append(s, c)[k] /\ t[k] \in Conns
  BY <1>2, <1>3, <1>5, <1>6, <1>1
<1>8. t \in Seq(Conns) /\ Len(t) = n + 1
  BY <1>1, <1>7
<1>9. t = Append(s, c)
  <2> HIDE DEF s, t
  <2>1. QED
    BY <1>5, <1>7, <1>8, SeqEqual
<1>10. QED
  BY <1>7, <1>9 DEF Row

\* and the one that is loaded was the first.
LEMMA LoadedFirst ==
  ASSUME NEW b \in Int, NEW n \in 1..N,
         NEW d \in Arrays,
         \A k \in 1..n : d[Cell(b, k)] \in Conns,
         NEW e \in Arrays, \A x \in 0..(N - 1) : x # Cell(b, 1) => e[x] = d[x],
         NEW s, s = Row(d, b, n)
  PROVE  /\ Row(e, b + 1, n - 1) = SubSeq(s, 2, Len(s))
         /\ \A k \in 1..(n - 1) : e[Cell(b + 1, k)] \in Conns
         /\ <<d[Cell(b, 1)]>> = SubSeq(s, 1, 1) /\ Len(s) = n
<1> DEFINE t == [k \in 1..(n - 1) |-> e[Cell(b + 1, k)]]
<1>1. n \in Nat \ {0} /\ n - 1 \in Nat /\ 1 \in 1..n
  BY Sizes
<1>2. ASSUME NEW k \in 1..(n - 1)
      PROVE  e[Cell(b + 1, k)] = d[Cell(b, k + 1)] /\ k + 1 \in 1..n
  <2>1. Cell(b + 1, k) = Cell(b, k + 1) /\ Cell(b, k + 1) \in 0..(N - 1)
    <3>1. k \in Int /\ k + 1 \in Int
      OBVIOUS
    <3>2. QED
      BY <3>1, CellInBuffer, CellAfter
  <2>2. k \in 1..(N - 1) /\ 1 + k = k + 1
    BY Sizes
  <2>3. Cell(b, k + 1) # Cell(b, 1)
    BY <2>2, CellsApart
  <2>4. QED
    BY <1>1, <2>1, <2>3
<1>3. s \in Seq(Conns) /\ Len(s) = n /\ \A k \in 1..n : s[k] = d[Cell(b, k)]
  BY <1>1 DEF Row
<1>4. \A k \in 1..n : s[k] \in Conns
  BY <1>3
<1>5. /\ SubSeq(s, 2, n) \in Seq(Conns)
      /\ Len(SubSeq(s, 2, n)) = IF 2 <= n THEN n - 2 + 1 ELSE 0
      /\ \A k \in 1..(n - 2 + 1) : SubSeq(s, 2, n)[k] = s[2 + k - 1]
  <2>1. \A k \in 2..n : s[k] \in Conns
    BY <1>1, <1>4
  <2>2. QED
    BY <1>1, <2>1, SubSeqProperties
<1>6. /\ SubSeq(s, 1, 1) \in Seq(Conns)
      /\ Len(SubSeq(s, 1, 1)) = 1 /\ SubSeq(s, 1, 1)[1] = s[1]
  <2>1. \A k \in 1..1 : s[k] \in Conns
    BY <1>1, <1>4
  <2>2. /\ SubSeq(s, 1, 1) \in Seq(Conns)
        /\ Len(SubSeq(s, 1, 1)) = IF 1 <= 1 THEN 1 - 1 + 1 ELSE 0
        /\ \A k \in 1..(1 - 1 + 1) : SubSeq(s, 1, 1)[k] = s[1 + k - 1]
    BY <2>1, SubSeqProperties
  <2>3. QED
    BY <2>2
<1>7. <<d[Cell(b, 1)]>> = SubSeq(s, 1, 1)
  <2>1. PICK x \in Conns : x = d[Cell(b, 1)] /\ x = s[1]
    BY <1>1, <1>3, <1>4
  <2>2. <<x>> \in Seq(Conns) /\ Len(<<x>>) = 1 /\ <<x>>[1] = x
    OBVIOUS
  <2>3. <<x>> = SubSeq(s, 1, 1)
    BY <1>6, <2>1, <2>2, SeqEqual
  <2>4. QED
    BY <2>1, <2>3
<1>8. \A k \in 1..(n - 1) : t[k] = SubSeq(s, 2, n)[k] /\ t[k] \in Conns
  <2> SUFFICES ASSUME NEW k \in 1..(n - 1)
               PROVE  t[k] = SubSeq(s, 2, n)[k] /\ t[k] \in Conns
    OBVIOUS
  <2>1. 2 + k - 1 = k + 1 /\ k \in 1..(n - 2 + 1)
    BY <1>1
  <2>2. SubSeq(s, 2, n)[k] = s[k + 1]
    BY <1>5, <2>1
  <2>3. QED
    BY <1>2, <1>3, <1>4, <2>2
<1>9. t \in Seq(Conns) /\ Len(t) = n - 1
  BY <1>1, <1>8
<1>10. t = SubSeq(s, 2, n)
  <2> HIDE DEF t
  <2>1. Len(SubSeq(s, 2, n)) = n - 1
    BY <1>1, <1>5
  <2>2. QED
    BY <1>5, <1>8, <1>9, <2>1, SeqEqual
<1>11. QED
  BY <1>3, <1>7, <1>8, <1>10 DEF Row

LEMMA QueueShows ==
  /\ TheQueue = [k \in 1..(Queued - InStore + InLoad) |->
                   cells[(front - InLoad + k + CountBound) % N]]
  /\ Length = Queued - InStore + InLoad
BY DEF TheQueue, Row, Length, Cell, Base

LEMMA StorePuts ==
  ASSUME SbufInv, QueueInv, NEW t \in Threads, Store(t)
  PROVE  QueueInv' /\ \E c \in Conns : Q!Put(c)
<1> /\ SbufTypeOK /\ Inserters \cap Workers = {} /\ t \in Inserters /\ step[t] = "access"
    /\ Inside(t) /\ LengthCounted
  BY SbufAssumption DEF SbufInv, Store, At1, Inside, QueueInv
<1>1. PICK c \in Conns : c = conn[t]
  BY DEF QueueInv, Roles
<1>2. InStore = 1 /\ InLoad = 0
  BY Accesses
<1>3. \A u \in Threads : step'[u] # "access"
  BY DEF Store, At1, SbufInv, Mutex, MutualExclusion, Inside, SbufTypeOK
<1>4. InStore' = 0 /\ InLoad' = 0
  BY <1>3 DEF InStore, InLoad, Threads
<1>5. UNCHANGED <<front, rear, last>>
  BY DEF Store
<1>6. Length' = Length + 1 /\ Base' = Base
  BY <1>2, <1>4, <1>5, Counters DEF Length, Queued, Base
<1>7. PICK b \in Int, n \in 0..(N - 1) : b = Base /\ n = Length
  BY LengthBounds, Counters, Sizes
<1>8. cells' = [cells EXCEPT ![Cell(b, n + 1)] = c]
  BY <1>1, <1>2, <1>7, RearIsNext DEF Store
<1>9. /\ cells \in Arrays
      /\ \A k \in 1..n : cells[Cell(b, k)] \in Conns
  BY <1>7 DEF SbufTypeOK, QueueInv, CellsFilled, Arrays
<1>10. /\ Row(cells', b, n + 1) = Append(Row(cells, b, n), c)
       /\ \A k \in 1..(n + 1) : cells'[Cell(b, k)] \in Conns
  <2>1. PICK d \in Arrays, e \in Arrays : d = cells /\ e = cells'
    BY <1>8, <1>9 DEF Arrays
  <2>2. /\ Row(e, b, n + 1) = Append(Row(d, b, n), c)
        /\ \A k \in 1..(n + 1) : e[Cell(b, k)] \in Conns
    <3>1. \A k \in 1..n : d[Cell(b, k)] \in Conns
      BY <1>9, <2>1
    <3>2. /\ e[Cell(b, n + 1)] = c
          /\ \A x \in 0..(N - 1) : x # Cell(b, n + 1) => e[x] = d[x]
      <4>1. Cell(b, n + 1) \in 0..(N - 1)
        <5>1. n + 1 \in Int
          OBVIOUS
        <5>2. QED
          BY <5>1, CellInBuffer
      <4>2. QED
        BY <1>8, <2>1, <4>1 DEF Arrays
    <3>3. QED
      BY <3>1, <3>2, StoredLast
  <2>3. QED
    BY <2>1, <2>2
<1>11. TheQueue' = Append(TheQueue, c) /\ CellsFilled' /\ Len(TheQueue) = n
  <2>1. TheQueue = Row(cells, b, n)
    BY <1>7 DEF TheQueue
  <2>2. \A k : Cell(Base, k)' = Cell(b, k)
    BY <1>6, <1>7 DEF Cell
  <2>3. TheQueue' = Row(cells', b, n + 1)
    BY <1>6, <1>7, <2>2 DEF TheQueue, Row
  <2>4. CellsFilled'
    BY <1>6, <1>7, <1>10, <2>2 DEF CellsFilled
  <2>5. Len(TheQueue) = n
    BY <2>1, Sizes DEF Row
  <2>6. QED
    BY <1>10, <2>1, <2>3, <2>4, <2>5
<1>12. LengthCounted'
  BY <1>6, DueCounts DEF LengthCounted
<1>13. Q!Put(c)
  <2>1. Len(TheQueue) < N
    BY <1>11, Sizes
  <2>2. QED
    BY <1>5, <1>11, <2>1, QueueShows DEF Q!Put, TheQueue, Row, Length, Cell, Base
<1>14. QED
  BY <1>11, <1>12, <1>13, RolesKept DEF QueueInv

LEMMA LoadGets ==
  ASSUME SbufInv, QueueInv, NEW t \in Threads, Load(t)
  PROVE  QueueInv' /\ Length >= 1 /\ Len(TheQueue) = Length /\ Q!Get(1, 1)
<1> /\ SbufTypeOK /\ Inserters \cap Workers = {} /\ t \in Workers /\ step[t] = "access"
    /\ Inside(t) /\ LengthCounted /\ NoConn \notin Conns
  BY SbufAssumption DEF SbufInv, Load, At1, Inside, QueueInv
<1>1. InStore = 0 /\ InLoad = 1
  BY Accesses
<1>2. \A u \in Threads : step'[u] # "access"
  BY DEF Load, At1, SbufInv, Mutex, MutualExclusion, Inside, SbufTypeOK
<1>3. InStore' = 0 /\ InLoad' = 0
  BY <1>2 DEF InStore, InLoad, Threads
<1>4. UNCHANGED <<front, rear>>
  BY DEF Load
<1>5. Length' = Length - 1 /\ Base' = Base + 1
  BY <1>1, <1>3, <1>4, Counters DEF Length, Queued, Base
<1>6. PICK b \in Int, n \in 1..N : b = Base /\ n = Length
  BY LengthBounds, Counters, Sizes
<1>7. front % N = Cell(b, 1)
  <2>1. b + 1 = front
    BY <1>1, <1>6, Counters DEF Base
  <2>2. QED
    BY <2>1, CellTurns
<1>8. cells' = [cells EXCEPT ![Cell(b, 1)] = NoConn] /\ last' = cells[Cell(b, 1)]
  BY <1>7 DEF Load
<1>9. /\ cells \in Arrays
      /\ \A k \in 1..n : cells[Cell(b, k)] \in Conns
  BY <1>6 DEF SbufTypeOK, QueueInv, CellsFilled, Arrays
<1>10. TheQueue = Row(cells, b, n)
  BY <1>6 DEF TheQueue
<1>11. /\ Row(cells', b + 1, n - 1) = SubSeq(TheQueue, 2, Len(TheQueue))
       /\ \A k \in 1..(n - 1) : cells'[Cell(b + 1, k)] \in Conns
       /\ <<cells[Cell(b, 1)]>> = SubSeq(TheQueue, 1, 1) /\ Len(TheQueue) = n
  <2>1. PICK d \in Arrays, e \in Arrays : d = cells /\ e = cells'
    BY <1>8, <1>9 DEF Arrays
  <2>2. PICK s : s = TheQueue
    OBVIOUS
  <2>3. /\ Row(e, b + 1, n - 1) = SubSeq(s, 2, Len(s))
        /\ \A k \in 1..(n - 1) : e[Cell(b + 1, k)] \in Conns
        /\ <<d[Cell(b, 1)]>> = SubSeq(s, 1, 1) /\ Len(s) = n
    <3>1. \A k \in 1..n : d[Cell(b, k)] \in Conns
      BY <1>9, <2>1
    <3>2. (\A x \in 0..(N - 1) : x # Cell(b, 1) => e[x] = d[x]) /\ s = Row(d, b, n)
      BY <1>8, <1>10, <2>1, <2>2 DEF Arrays
    <3>3. QED
      BY <3>1, <3>2, LoadedFirst, SMTT(30)
  <2>4. QED
    BY <2>1, <2>2, <2>3
<1>12. TheQueue' = SubSeq(TheQueue, 2, Len(TheQueue)) /\ CellsFilled'
  <2>1. \A k : Cell(Base, k)' = Cell(b + 1, k)
    BY <1>5, <1>6 DEF Cell
  <2>2. TheQueue' = Row(cells', b + 1, n - 1)
    BY <1>5, <1>6, <2>1 DEF TheQueue, Row
  <2>3. CellsFilled'
    BY <1>5, <1>6, <1>11, <2>1 DEF CellsFilled
  <2>4. QED
    BY <1>11, <2>2, <2>3
<1>13. LengthCounted'
  <2>1. ~Store(t)
    BY DEF Store
  <2>2. QED
    BY <1>5, <2>1, DueCounts DEF LengthCounted
<1>14. (IF last' = NoConn THEN <<>> ELSE <<last'>>) = SubSeq(TheQueue, 1, 1)
  <2>1. cells[Cell(b, 1)] \in Conns
    BY <1>9
  <2>2. QED
    BY <1>8, <1>11, <2>1
<1>15. Q!Get(1, 1)
  <2>1. TheQueue' = SubSeq(TheQueue, 1 + 1, Len(TheQueue)) /\ 1 \in {1, 1 - 1}
    BY <1>12
  <2>2. QED
    BY <1>14, <2>1, QueueShows DEF Q!Get, TheQueue, Row, Length, Cell, Base
<1>16. QED
  BY <1>6, <1>11, <1>12, <1>13, <1>15, RolesKept DEF QueueInv

\* Descriptors leave sbuf's buffer in the order in which they were put there, none of them
\* twice and none lost, and there are never more than the n of sbuf_init() in it: whatever
\* the number of threads, and though the indices move before the cells are accessed and
\* wrap.
THEOREM BufferImplementsFifo == SbufSpec => SbufImplementsFifo
<1> DEFINE BothInv == SbufInv /\ QueueInv
<1>1. SbufInit => BothInv /\ Q!Init
  <2> SUFFICES ASSUME SbufInit PROVE BothInv /\ Q!Init
    OBVIOUS
  <2>1. SbufInv /\ SbufTypeOK
    BY SbufInitial DEF SbufInv
  <2>2. InStore = 0 /\ InLoad = 0 /\ Due = {} /\ items = 0 /\ Roles
    BY SbufAssumption DEF SbufInit, InStore, InLoad, Due, Roles, Threads
  <2>3. Length = 0 /\ Cardinality(Due) = 0
    BY <2>1, <2>2, Counters, FS_EmptySet DEF SbufInit, Length
  <2>4. QueueInv
    BY <2>2, <2>3 DEF QueueInv, LengthCounted, CellsFilled
  <2>5. TheQueue = <<>>
    BY <2>3 DEF TheQueue, Row
  <2>6. Q!Init
    BY <2>5, QueueShows DEF SbufInit, Q!Init, TheQueue, Row, Length, Cell, Base
  <2>7. QED
    BY <2>1, <2>4, <2>6
<1>2. BothInv /\ [SbufNext]_sbufVars => BothInv' /\ [Q!Next]_(Q!fvars)
  <2> SUFFICES ASSUME BothInv, [SbufNext]_sbufVars PROVE BothInv' /\ [Q!Next]_(Q!fvars)
    OBVIOUS
  <2>1. CASE UNCHANGED sbufVars
    <3>1. SbufInv' /\ Roles' /\ Due' = Due /\ items' = items /\ BufferAlone
      BY <2>1 DEF sbufVars, SbufInv, SbufTypeOK, Mutex, MutualExclusion, Inside,
                  UnitsCounted, Busy, QueueInv, Roles, Due, BufferAlone, InStore, InLoad
    <3>2. QED
      BY <3>1, AloneIsQuiet DEF QueueInv, LengthCounted
  <2>2. ASSUME NEW t \in Threads,
               \/ Accept(t) \/ WaitSlot(t) \/ WaitItem(t) \/ Lock(t) \/ Index(t)
               \/ Store(t) \/ Load(t) \/ Unlock(t) \/ Announce(t) \/ Serve(t)
        PROVE  BothInv' /\ [Q!Next]_(Q!fvars)
    <3>1. SbufInv'
      BY <2>2, SbufTypesKept, MutexKept, UnitsKept DEF SbufInv
    <3>2. CASE Store(t)
      BY <3>1, <3>2, StorePuts DEF Q!Next
    <3>3. CASE Load(t)
      <4>1. QueueInv' /\ Length >= 1 /\ Len(TheQueue) = Length /\ Q!Get(1, 1)
        BY <3>3, LoadGets
      <4>2. 1 \in 1..Length /\ 1 \in {1, 1 - 1}
        BY <4>1, Counters DEF Length, SbufInv
      <4>3. Q!Next
        BY <4>1, <4>2, QueueShows DEF Q!Next
      <4>4. QED
        BY <3>1, <4>1, <4>3
    <3>4. CASE Index(t)
      BY <3>1, <3>4, IndexIsQuiet
    <3>5. CASE ~Store(t) /\ ~Load(t) /\ ~Index(t)
      BY <2>2, <3>1, <3>5, OthersAreQuiet
    <3>6. QED
      BY <3>2, <3>3, <3>4, <3>5
  <2>3. QED
    BY <2>1, <2>2 DEF SbufNext
<1>3. QED
  BY <1>1, <1>2, PTL DEF SbufSpec, SbufImplementsFifo, Q!Spec

-----------------------------------------------------------------------------
(* procmask2.c: the job list. *)

\* Where main() and handler() are when each of them holds a pid.
Masked ==
  /\ blocked <=> main # "block"
  /\ handler2 # "off" => ~blocked
  /\ forked # NoChild <=> main = "add"
  /\ main = "add" => child[forked] # "none"
  /\ reaped # NoChild <=> handler2 = "delete"
  /\ handler2 = "delete" => child[reaped] = "none"

ReaperInv == ReaperSound /\ Masked

LEMMA ReaperInitial == ReaperInit => ReaperInv
BY ReaperAssumption
   DEF ReaperInit, ReaperInv, ReaperSound, ReaperTypeOK, JobsExact, ZombiesSeen, Masked

\* Each action keeps the types.
LEMMA TypesKept ==
  ASSUME ReaperInv, ReaperNext
  PROVE  ReaperTypeOK'
<1> ReaperTypeOK /\ Masked
  BY DEF ReaperInv, ReaperSound
<1>1. CASE BlockSignal
  BY <1>1 DEF BlockSignal, MainRuns, ReaperTypeOK
<1>2. CASE ForkChild
  BY <1>2 DEF ForkChild, MainRuns, ReaperTypeOK
<1>3. CASE AddJob
  BY <1>3 DEF AddJob, MainRuns, ReaperTypeOK, Masked
<1>4. CASE UnblockSignal
  BY <1>4 DEF UnblockSignal, MainRuns, ReaperTypeOK
<1>5. CASE Deliver
  BY <1>5 DEF Deliver, ReaperTypeOK
<1>6. CASE DeleteJob
  BY <1>6 DEF DeleteJob, ReaperTypeOK
<1>7. CASE HandlerReturns
  BY <1>7 DEF HandlerReturns, ReaperTypeOK
<1>8. ASSUME NEW c \in Children, ChildExits(c)
      PROVE  ReaperTypeOK'
  BY <1>8 DEF ChildExits, ReaperTypeOK
<1>9. ASSUME NEW c \in Children, WaitPid(c)
      PROVE  ReaperTypeOK'
  BY <1>9 DEF WaitPid, ReaperTypeOK
<1>10. QED
  BY <1>1, <1>2, <1>3, <1>4, <1>5, <1>6, <1>7, <1>8, <1>9 DEF ReaperNext

\* The mask is set from before fork() until the job is in the list.
LEMMA MaskKept ==
  ASSUME ReaperInv, ReaperNext
  PROVE  Masked'
<1> ReaperTypeOK /\ Masked /\ NoChild \notin Children
  BY ReaperAssumption DEF ReaperInv, ReaperSound
<1>1. CASE BlockSignal
  BY <1>1 DEF BlockSignal, MainRuns, ReaperTypeOK, Masked
<1>2. CASE ForkChild
  BY <1>2 DEF ForkChild, MainRuns, ReaperTypeOK, Masked
<1>3. CASE AddJob
  BY <1>3 DEF AddJob, MainRuns, ReaperTypeOK, Masked
<1>4. CASE UnblockSignal
  BY <1>4 DEF UnblockSignal, MainRuns, ReaperTypeOK, Masked
<1>5. CASE Deliver
  BY <1>5 DEF Deliver, ReaperTypeOK, Masked
<1>6. CASE DeleteJob
  BY <1>6 DEF DeleteJob, ReaperTypeOK, Masked
<1>7. CASE HandlerReturns
  BY <1>7 DEF HandlerReturns, ReaperTypeOK, Masked
<1>8. ASSUME NEW c \in Children, ChildExits(c)
      PROVE  Masked'
  BY <1>8 DEF ChildExits, ReaperTypeOK, Masked
<1>9. ASSUME NEW c \in Children, WaitPid(c)
      PROVE  Masked'
  BY <1>9 DEF WaitPid, ReaperTypeOK, Masked
<1>10. QED
  BY <1>1, <1>2, <1>3, <1>4, <1>5, <1>6, <1>7, <1>8, <1>9 DEF ReaperNext

\* The job list stays exact: the handler's pid is no longer a child's, main()'s is.
LEMMA JobsKept ==
  ASSUME ReaperInv, ReaperNext
  PROVE  JobsExact'
<1> ReaperTypeOK /\ Masked /\ JobsExact /\ NoChild \notin Children
  BY ReaperAssumption DEF ReaperInv, ReaperSound
<1>1. CASE BlockSignal
  BY <1>1 DEF BlockSignal, JobsExact
<1>2. CASE ForkChild
  BY <1>2 DEF ForkChild, MainRuns, ReaperTypeOK, Masked, JobsExact
<1>3. CASE AddJob
  BY <1>3 DEF AddJob, MainRuns, ReaperTypeOK, Masked, JobsExact
<1>4. CASE UnblockSignal
  BY <1>4 DEF UnblockSignal, JobsExact
<1>5. CASE Deliver
  BY <1>5 DEF Deliver, JobsExact
<1>6. CASE DeleteJob
  BY <1>6 DEF DeleteJob, ReaperTypeOK, Masked, JobsExact
<1>7. CASE HandlerReturns
  BY <1>7 DEF HandlerReturns, JobsExact
<1>8. ASSUME NEW c \in Children, ChildExits(c)
      PROVE  JobsExact'
  BY <1>8 DEF ChildExits, ReaperTypeOK, JobsExact
<1>9. ASSUME NEW c \in Children, WaitPid(c)
      PROVE  JobsExact'
  BY <1>9 DEF WaitPid, ReaperTypeOK, Masked, JobsExact
<1>10. QED
  BY <1>1, <1>2, <1>3, <1>4, <1>5, <1>6, <1>7, <1>8, <1>9 DEF ReaperNext

\* The handler returns only when no child is left, and a child that ends sends a signal.
LEMMA ZombiesStaySeen ==
  ASSUME ReaperInv, ReaperNext
  PROVE  ZombiesSeen'
<1> ReaperTypeOK /\ ZombiesSeen
  BY DEF ReaperInv, ReaperSound
<1>1. CASE BlockSignal \/ AddJob \/ UnblockSignal
  BY <1>1 DEF BlockSignal, AddJob, UnblockSignal, ZombiesSeen
<1>2. CASE ForkChild
  BY <1>2 DEF ForkChild, MainRuns, ReaperTypeOK, ZombiesSeen
<1>3. CASE Deliver \/ DeleteJob
  BY <1>3 DEF Deliver, DeleteJob, ZombiesSeen
<1>4. CASE HandlerReturns
  BY <1>4 DEF HandlerReturns, ZombiesSeen
<1>5. ASSUME NEW c \in Children, ChildExits(c) \/ WaitPid(c)
      PROVE  ZombiesSeen'
  BY <1>5 DEF ChildExits, WaitPid, ZombiesSeen
<1>6. QED
  BY <1>1, <1>2, <1>3, <1>4, <1>5 DEF ReaperNext

\* The job list of procmask2.c is exact, and every zombie is going to be reaped, however
\* many children there are and whenever they end.
THEOREM ReaperIsSound == ReaperSpec => []ReaperSound
<1>1. ReaperInv /\ [ReaperNext]_reaperVars => ReaperInv'
  <2>1. CASE ReaperNext
    BY <2>1, TypesKept, MaskKept, JobsKept, ZombiesStaySeen DEF ReaperInv, ReaperSound
  <2>2. CASE UNCHANGED reaperVars
    BY <2>2 DEF reaperVars, ReaperInv, ReaperSound, ReaperTypeOK, JobsExact, ZombiesSeen, Masked
  <2>3. QED
    BY <2>1, <2>2
<1>2. ReaperInv => ReaperSound
  BY DEF ReaperInv
<1>3. QED
  BY ReaperInitial, <1>1, <1>2, PTL DEF ReaperSpec
=============================================================================
