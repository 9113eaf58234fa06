------------------------------ MODULE PipeProofs ------------------------------
(***************************************************************************)
(* Proofs about Pipe, for any readers, writers and sizes: nobody sleeps       *)
(* without a cause, and the ring with its wrapping counters is a bounded       *)
(* queue.                                                                    *)
(***************************************************************************)
EXTENDS Pipe, SequenceTheorems, TLAPS

Writing == {"write", "put", "writesleep", "writeasleep"}
Reading == {"read", "readsleep", "readasleep"}

\* A process is in a call of its own end, which is open then.
Ends ==
  /\ readopen = (open \cap Readers # {})
  /\ writeopen = (open \cap Writers # {})
  /\ \A p \in Procs : /\ pc[p] # "user" => p \in open
                      /\ pc[p] \in Writing => p \in Writers
                      /\ pc[p] \in Reading => p \in Readers /\ todo[p] > 0

\* Who is on the way to sleep() has the lock; who has it does not stand elsewhere.
Locked == \A p \in Procs : /\ pc[p] \in {"writesleep", "readsleep"} => holder = p
                           /\ holder = p => pc[p] \in {"put", "writesleep", "readsleep"}

\* What a process that sleeps, or will sleep with its next step, has found.  A sleeping
\* reader may be behind only with a writer that still has the lock, and will wake it.
WritersFound ==
  \A p \in Procs : pc[p] \in {"writesleep", "writeasleep"} => Full /\ readopen
ReadersFound ==
  /\ \A p \in Procs : pc[p] = "readsleep" => Empty /\ writeopen
  /\ killed \cap Writers = {} =>
       \A p \in Procs : pc[p] = "readasleep" =>
         writeopen /\ (Empty \/ \E q \in Writers : holder = q /\ pc[q] = "put")

PipeInv == TypeOK /\ Ends /\ Locked /\ WritersFound /\ ReadersFound

-----------------------------------------------------------------------------
(* Remainders. *)

LEMMA ModDiv ==
  ASSUME NEW n \in Nat \ {0}, NEW a \in Int
  PROVE  a = n * (a \div n) + (a % n) /\ a \div n \in Int /\ a % n \in 0..(n - 1)
BY SMTT(30)

LEMMA NoMultiple ==
  ASSUME NEW n \in Nat \ {0}, NEW q \in Int, -n < n * q, n * q < n
  PROVE  q = 0
<1>1. CASE q >= 1
  <2>1. n * q >= n * 1
    BY <1>1
  <2>2. QED
    BY <2>1
<1>2. CASE q <= -1
  <2>1. n * q <= n * (-1)
    BY <1>2
  <2>2. QED
    BY <2>1
<1>3. QED
  BY <1>1, <1>2

\* Numbers that are equal up to multiples of n, and less than n apart, are equal.
LEMMA ModUnique ==
  ASSUME NEW n \in Nat \ {0}, NEW q \in Int, NEW r \in 0..(n - 1)
  PROVE  (n * q + r) % n = r
<1> DEFINE a == n * q + r
<1>1. a \in Int
  OBVIOUS
<1>2. a = n * (a \div n) + (a % n) /\ a \div n \in Int /\ a % n \in 0..(n - 1)
  BY <1>1, ModDiv
<1> HIDE DEF a
<1>3. PICK d \in Int, e \in 0..(n - 1) : a = n * d + e /\ e = a % n
  BY <1>2
<1>4. n * (q - d) = n * q - n * d
  OBVIOUS
<1>5. n * (q - d) = e - r
  BY <1>3, <1>4 DEF a
<1>6. q - d = 0
  BY <1>5, NoMultiple
<1>7. QED
  BY <1>3, <1>5, <1>6 DEF a

LEMMA ModMultiple ==
  ASSUME NEW n \in Nat \ {0}, NEW k \in Int, NEW a \in Int
  PROVE  (a + n * k) % n = a % n
<1>1. PICK q \in Int, r \in 0..(n - 1) : a = n * q + r /\ r = a % n
  BY ModDiv
<1>2. n * (q + k) = n * q + n * k
  OBVIOUS
<1>3. a + n * k = n * (q + k) + r
  BY <1>1, <1>2
<1>4. (n * (q + k) + r) % n = r
  BY ModUnique
<1>5. QED
  BY <1>1, <1>3, <1>4

\* Cells less than n apart are different cells.
LEMMA ModApart ==
  ASSUME NEW n \in Nat \ {0}, NEW a \in Int, NEW j \in 1..(n - 1)
  PROVE  (a + j) % n # a % n
<1>1. PICK q \in Int, r \in 0..(n - 1) : a = n * q + r /\ r = a % n
  BY ModDiv
<1>2. PICK b \in Int : b = a + j
  OBVIOUS
<1>3. PICK s \in Int, t \in 0..(n - 1) : b = n * s + t /\ t = b % n
  BY ModDiv
<1>4. ASSUME t = r PROVE FALSE
  <2>1. n * (s - q) = n * s - n * q
    OBVIOUS
  <2>2. n * (s - q) = j
    BY <1>1, <1>2, <1>3, <1>4, <2>1
  <2>3. s - q = 0
    BY <2>2, NoMultiple
  <2>4. QED
    BY <2>2, <2>3
<1>5. QED
  BY <1>1, <1>2, <1>3, <1>4

LEMMA ModCases ==
  ASSUME NEW n \in Nat \ {0}, NEW a \in (-n)..(2 * n - 1)
  PROVE  a % n = IF a < 0 THEN a + n ELSE IF a < n THEN a ELSE a - n
<1>1. CASE a < 0
  <2>1. (n * (-1) + (a + n)) % n = a + n
    BY <1>1, ModUnique
  <2>2. QED
    BY <1>1, <2>1
<1>2. CASE a \in 0..(n - 1)
  <2>1. (n * 0 + a) % n = a
    BY <1>2, ModUnique
  <2>2. QED
    BY <1>2, <2>1
<1>3. CASE a >= n
  <2>1. (n * 1 + (a - n)) % n = a - n
    BY <1>3, ModUnique
  <2>2. QED
    BY <1>3, <2>1
<1>4. QED
  BY <1>1, <1>2, <1>3

\* Sums and differences on a ring of n.
LEMMA ModSum ==
  ASSUME NEW n \in Nat \ {0}, NEW a \in 0..(n - 1), NEW b \in 0..n
  PROVE  (a + b) % n = IF a + b < n THEN a + b ELSE a + b - n
<1>1. PICK x \in (-n)..(2 * n - 1) : x = a + b
  OBVIOUS
<1>2. x % n = IF x < 0 THEN x + n ELSE IF x < n THEN x ELSE x - n
  BY ModCases
<1>3. QED
  BY <1>1, <1>2

LEMMA ModDifference ==
  ASSUME NEW n \in Nat \ {0}, NEW a \in 0..(n - 1), NEW b \in 0..(n - 1)
  PROVE  (a - b) % n = IF a < b THEN a - b + n ELSE a - b
<1>1. PICK x \in (-n)..(2 * n - 1) : x = a - b
  OBVIOUS
<1>2. x % n = IF x < 0 THEN x + n ELSE IF x < n THEN x ELSE x - n
  BY ModCases
<1>3. QED
  BY <1>1, <1>2

-----------------------------------------------------------------------------
(* The counters. *)

\* Used is how far nwrite is ahead of nread.
LEMMA UsedCounts ==
  ASSUME TypeOK
  PROVE  /\ Used \in 0..PIPESIZE
         /\ nwrite = IF nread + Used < Wrap THEN nread + Used ELSE nread + Used - Wrap
         /\ Empty <=> Used = 0
         /\ Full <=> Used = PIPESIZE
<1> /\ Wrap \in Nat \ {0} /\ PIPESIZE \in Nat \ {0} /\ PIPESIZE < Wrap
    /\ nread \in 0..(Wrap - 1) /\ nwrite \in 0..(Wrap - 1) /\ Used <= PIPESIZE
  BY SizesAssumption DEF TypeOK
<1>1. Used = IF nwrite < nread THEN nwrite - nread + Wrap ELSE nwrite - nread
  BY ModDifference DEF Used
<1>2. (nread + PIPESIZE) % Wrap = IF nread + PIPESIZE < Wrap THEN nread + PIPESIZE
                                  ELSE nread + PIPESIZE - Wrap
  <2>1. PIPESIZE \in 0..Wrap
    OBVIOUS
  <2>2. QED
    BY <2>1, ModSum
<1>3. QED
  BY <1>1, <1>2 DEF Empty, Full

\* A byte that is written makes it one more,
LEMMA UsedGrows ==
  ASSUME TypeOK, ~Full, nwrite' = (nwrite + 1) % Wrap, nread' = nread
  PROVE  nwrite' \in 0..(Wrap - 1) /\ Used' = Used + 1 /\ Used < PIPESIZE
<1> /\ Wrap \in Nat \ {0} /\ PIPESIZE \in Nat \ {0} /\ PIPESIZE < Wrap
    /\ nread \in 0..(Wrap - 1) /\ nwrite \in 0..(Wrap - 1)
  BY SizesAssumption DEF TypeOK
<1>1. /\ Used \in 0..(PIPESIZE - 1)
      /\ nwrite = IF nread + Used < Wrap THEN nread + Used ELSE nread + Used - Wrap
  BY UsedCounts
<1>2. nwrite' = IF nwrite + 1 < Wrap THEN nwrite + 1 ELSE nwrite + 1 - Wrap
  <2>1. 1 \in 0..Wrap
    OBVIOUS
  <2>2. QED
    BY <2>1, ModSum
<1>3. nwrite' \in 0..(Wrap - 1)
  BY <1>2
<1>4. Used' = IF nwrite' < nread THEN nwrite' - nread + Wrap ELSE nwrite' - nread
  BY <1>3, ModDifference DEF Used
<1>5. QED
  BY <1>1, <1>2, <1>3, <1>4

\* and m bytes that are read m less.
LEMMA UsedShrinks ==
  ASSUME TypeOK, NEW m \in 0..Used, nread' = (nread + m) % Wrap, nwrite' = nwrite
  PROVE  nread' \in 0..(Wrap - 1) /\ Used' = Used - m
<1> /\ Wrap \in Nat \ {0} /\ PIPESIZE \in Nat \ {0} /\ PIPESIZE < Wrap
    /\ nread \in 0..(Wrap - 1) /\ nwrite \in 0..(Wrap - 1)
  BY SizesAssumption DEF TypeOK
<1>1. /\ Used \in 0..PIPESIZE /\ m \in 0..PIPESIZE
      /\ nwrite = IF nread + Used < Wrap THEN nread + Used ELSE nread + Used - Wrap
  BY UsedCounts
<1>2. nread' = IF nread + m < Wrap THEN nread + m ELSE nread + m - Wrap
  <2>1. m \in 0..Wrap
    BY <1>1
  <2>2. QED
    BY <2>1, ModSum
<1>3. nread' \in 0..(Wrap - 1)
  BY <1>1, <1>2
<1>4. Used' = IF nwrite < nread' THEN nwrite - nread' + Wrap ELSE nwrite - nread'
  BY <1>3, ModDifference DEF Used
<1>5. QED
  BY <1>1, <1>2, <1>3, <1>4

-----------------------------------------------------------------------------
(* Each action keeps the invariant. *)

PipeStep(p) == \/ WriteCall(p) \/ Write(p) \/ Sleep(p)
               \/ ReadCall(p) \/ Read(p) \/ Close(p) \/ Kill(p)

\* Each action keeps the types,
LEMMA TypesKept ==
  ASSUME PipeInv, NEW p \in Procs, PipeStep(p)
  PROVE  TypeOK'
<1> TypeOK /\ Ends
  BY DEF PipeInv
<1>1. CASE WriteCall(p)
  BY <1>1, SizesAssumption DEF WriteCall, TypeOK, Labels, ring, Used
<1>2. CASE WriteLock(p)
  BY <1>2, SizesAssumption DEF WriteLock, TypeOK, Labels, ring, Used
<1>3. CASE WriteByte(p)
  <2>1. nwrite' \in 0..(Wrap - 1) /\ Used' <= PIPESIZE
    <3>1. ~Full /\ nwrite' = (nwrite + 1) % Wrap /\ nread' = nread
      BY <1>3 DEF WriteByte
    <3>2. nwrite' \in 0..(Wrap - 1) /\ Used' = Used + 1 /\ Used < PIPESIZE
      BY <3>1, UsedGrows
    <3>3. QED
      BY <3>2, UsedCounts, SizesAssumption
  <2>2. data' \in [0..(PIPESIZE - 1) -> Bytes]
    BY <1>3 DEF WriteByte, TypeOK
  <2>3. todo' \in [Procs -> 0..MaxCount]
    <3>1. todo[p] - 1 \in 0..MaxCount
      BY <1>3, SizesAssumption DEF WriteByte, TypeOK
    <3>2. QED
      BY <1>3, <3>1 DEF WriteByte, TypeOK
  <2>4. QED
    BY <1>3, <2>1, <2>2, <2>3 DEF WriteByte, InWrite, TypeOK
<1>4. CASE WriteDone(p)
  BY <1>4, SizesAssumption DEF WriteDone, InWrite, WriteReturns, WakeReaders, TypeOK,
                               Labels, ring, Used
<1>5. CASE WriteFails(p)
  BY <1>5, SizesAssumption DEF WriteFails, InWrite, WriteReturns, TypeOK, Labels, ring, Used
<1>6. CASE WriteFull(p)
  BY <1>6, SizesAssumption DEF WriteFull, InWrite, WakeReaders, TypeOK, Labels, ring, Used
<1>7. CASE Sleep(p)
  BY <1>7, SizesAssumption DEF Sleep, TypeOK, Labels, ring, Used
<1>8. CASE ReadCall(p)
  BY <1>8, SizesAssumption DEF ReadCall, TypeOK, Labels, ring, Used
<1>9. CASE ReadEmpty(p)
  BY <1>9, SizesAssumption DEF ReadEmpty, InRead, TypeOK, Labels, ring, Used
<1>10. CASE ReadKilled(p)
  BY <1>10, SizesAssumption DEF ReadKilled, InRead, TypeOK, Labels, ring, Used
<1>11. CASE ReadBytes(p)
  <2>1. nread' \in 0..(Wrap - 1) /\ Used' <= PIPESIZE
    <3>1. PICK m \in 0..MinOf(todo[p], Used) : nread' = (nread + m) % Wrap
      BY <1>11 DEF ReadBytes
    <3>2. m \in 0..Used /\ Used \in 0..PIPESIZE
      BY UsedCounts DEF MinOf, TypeOK
    <3>3. nwrite' = nwrite
      BY <1>11 DEF ReadBytes
    <3>4. nread' \in 0..(Wrap - 1) /\ Used' = Used - m
      BY <3>1, <3>2, <3>3, UsedShrinks
    <3>5. QED
      BY <3>2, <3>4, SizesAssumption
  <2>2. pc' \in [Procs -> Labels] /\ todo' \in [Procs -> 0..MaxCount]
    BY <1>11, SizesAssumption DEF ReadBytes, WakeWriters, TypeOK, Labels
  <2>3. QED
    BY <1>11, <2>1, <2>2 DEF ReadBytes, TypeOK
<1>12. CASE Close(p)
  BY <1>12, SizesAssumption DEF Close, WakeReaders, WakeWriters, TypeOK, Labels, ring, Used
<1>13. CASE Kill(p)
  BY <1>13, SizesAssumption DEF Kill, TypeOK, Labels, ring, Used
<1>14. QED
  BY <1>1, <1>2, <1>3, <1>4, <1>5, <1>6, <1>7, <1>8, <1>9, <1>10, <1>11, <1>12, <1>13
     DEF PipeStep, Write, Read

\* what is known of the ends,
LEMMA EndsKept ==
  ASSUME PipeInv, NEW p \in Procs, PipeStep(p)
  PROVE  Ends'
<1> TypeOK /\ Ends
  BY DEF PipeInv
<1>1. CASE WriteCall(p)
  BY <1>1, ProcsAssumption DEF WriteCall, Ends, TypeOK, Writing, Reading, Procs
<1>2. CASE WriteLock(p)
  BY <1>2, ProcsAssumption DEF WriteLock, Ends, TypeOK, Writing, Reading, Procs
<1>3. CASE WriteByte(p)
  BY <1>3, ProcsAssumption DEF WriteByte, InWrite, Ends, TypeOK, Writing, Reading, Procs
<1>4. CASE WriteDone(p)
  BY <1>4, ProcsAssumption DEF WriteDone, InWrite, WriteReturns, WakeReaders, Ends, TypeOK,
                               Writing, Reading, Procs
<1>5. CASE WriteFails(p)
  BY <1>5, ProcsAssumption DEF WriteFails, InWrite, WriteReturns, Ends, TypeOK, Writing,
                               Reading, Procs
<1>6. CASE WriteFull(p)
  BY <1>6, ProcsAssumption DEF WriteFull, InWrite, WakeReaders, Ends, TypeOK, Writing,
                               Reading, Procs
<1>7. CASE Sleep(p)
  BY <1>7, ProcsAssumption DEF Sleep, Ends, TypeOK, Writing, Reading, Procs
<1>8. CASE ReadCall(p)
  BY <1>8, ProcsAssumption DEF ReadCall, Ends, TypeOK, Writing, Reading, Procs
<1>9. CASE ReadEmpty(p)
  BY <1>9, ProcsAssumption DEF ReadEmpty, InRead, Ends, TypeOK, Writing, Reading, Procs
<1>10. CASE ReadKilled(p)
  BY <1>10, ProcsAssumption DEF ReadKilled, InRead, Ends, TypeOK, Writing, Reading, Procs
<1>11. CASE ReadBytes(p)
  BY <1>11, ProcsAssumption DEF ReadBytes, InRead, WakeWriters, Ends, TypeOK, Writing,
                                Reading, Procs
<1>12. CASE Close(p)
  BY <1>12, ProcsAssumption DEF Close, WakeReaders, WakeWriters, Ends, TypeOK, Writing,
                                Reading, Procs
<1>13. CASE Kill(p)
  BY <1>13, ProcsAssumption DEF Kill, Ends, TypeOK, Writing, Reading, Procs
<1>14. QED
  BY <1>1, <1>2, <1>3, <1>4, <1>5, <1>6, <1>7, <1>8, <1>9, <1>10, <1>11, <1>12, <1>13
     DEF PipeStep, Write, Read

\* who has the lock,
LEMMA LockedKept ==
  ASSUME PipeInv, NEW p \in Procs, PipeStep(p)
  PROVE  Locked'
<1> TypeOK /\ Locked /\ Nobody \notin Procs
  BY ProcsAssumption DEF PipeInv
<1>1. CASE WriteCall(p)
  BY <1>1 DEF WriteCall, Locked, TypeOK
<1>2. CASE WriteLock(p)
  BY <1>2 DEF WriteLock, Locked, TypeOK
<1>3. CASE WriteByte(p)
  BY <1>3 DEF WriteByte, InWrite, Locked, TypeOK
<1>4. CASE WriteDone(p)
  BY <1>4 DEF WriteDone, InWrite, WriteReturns, WakeReaders, Locked, TypeOK
<1>5. CASE WriteFails(p)
  BY <1>5 DEF WriteFails, InWrite, WriteReturns, Locked, TypeOK
<1>6. CASE WriteFull(p)
  BY <1>6 DEF WriteFull, InWrite, WakeReaders, Locked, TypeOK
<1>7. CASE Sleep(p)
  BY <1>7 DEF Sleep, Locked, TypeOK
<1>8. CASE ReadCall(p)
  BY <1>8 DEF ReadCall, Locked, TypeOK
<1>9. CASE ReadEmpty(p)
  BY <1>9 DEF ReadEmpty, InRead, Locked, TypeOK
<1>10. CASE ReadKilled(p)
  BY <1>10 DEF ReadKilled, InRead, Locked, TypeOK
<1>11. CASE ReadBytes(p)
  BY <1>11 DEF ReadBytes, InRead, WakeWriters, Locked, TypeOK
<1>12. CASE Close(p)
  BY <1>12 DEF Close, WakeReaders, WakeWriters, Locked, TypeOK
<1>13. CASE Kill(p)
  BY <1>13 DEF Kill, Locked, TypeOK
<1>14. QED
  BY <1>1, <1>2, <1>3, <1>4, <1>5, <1>6, <1>7, <1>8, <1>9, <1>10, <1>11, <1>12, <1>13
     DEF PipeStep, Write, Read

\* what the writers have found,
LEMMA WritersFoundKept ==
  ASSUME PipeInv, NEW p \in Procs, PipeStep(p)
  PROVE  WritersFound'
<1> TypeOK /\ Ends /\ Locked /\ WritersFound /\ Nobody \notin Procs
  BY ProcsAssumption DEF PipeInv
<1>1. CASE WriteCall(p)
  BY <1>1 DEF WriteCall, WritersFound, Full, ring, TypeOK
<1>2. CASE WriteLock(p)
  BY <1>2 DEF WriteLock, WritersFound, Full, ring, TypeOK
<1>3. CASE WriteByte(p)
  BY <1>3 DEF WriteByte, InWrite, WritersFound, Full, ring, TypeOK
<1>4. CASE WriteDone(p)
  BY <1>4 DEF WriteDone, InWrite, WriteReturns, WakeReaders, WritersFound, Full, ring,
              TypeOK
<1>5. CASE WriteFails(p)
  BY <1>5 DEF WriteFails, InWrite, WriteReturns, WritersFound, Full, ring, TypeOK
<1>6. CASE WriteFull(p)
  BY <1>6 DEF WriteFull, InWrite, WakeReaders, WritersFound, Full, ring, TypeOK
<1>7. CASE Sleep(p)
  BY <1>7 DEF Sleep, WritersFound, Full, ring, TypeOK
<1>8. CASE ReadCall(p)
  BY <1>8 DEF ReadCall, WritersFound, Full, ring, TypeOK
<1>9. CASE ReadEmpty(p)
  BY <1>9 DEF ReadEmpty, InRead, WritersFound, Full, ring, TypeOK
<1>10. CASE ReadKilled(p)
  BY <1>10 DEF ReadKilled, InRead, WritersFound, Full, ring, TypeOK
<1>11. CASE ReadBytes(p)
  <2>1. \A q \in Procs : pc[q] # "writesleep"
    BY <1>11 DEF ReadBytes, InRead, Locked
  <2>2. \A q \in Procs : pc'[q] \notin {"writesleep", "writeasleep"}
    BY <1>11, <2>1 DEF ReadBytes, WakeWriters, TypeOK
  <2>3. QED
    BY <2>2 DEF WritersFound
<1>12. CASE Close(p)
  <2>1. \A q \in Procs : pc[q] # "writesleep"
    BY <1>12 DEF Close, Locked
  <2>2. Full' <=> Full
    BY <1>12 DEF Close, ring, Full
  <2>3. CASE p \in Writers
    <3>1. readopen' = readopen
      BY <1>12, <2>3, ProcsAssumption DEF Close, Ends
    <3>2. \A q \in Procs : pc'[q] = "writeasleep" => pc[q] = "writeasleep"
      BY <1>12, <2>3 DEF Close, WakeReaders, TypeOK
    <3>3. \A q \in Procs : pc'[q] # "writesleep"
      BY <1>12, <2>1, <2>3 DEF Close, WakeReaders, TypeOK
    <3>4. QED
      BY <2>2, <3>1, <3>2, <3>3 DEF WritersFound
  <2>4. CASE p \notin Writers /\ readopen'
    BY <1>12, <2>2, <2>4 DEF Close, WritersFound
  <2>5. CASE p \notin Writers /\ ~readopen'
    <3>1. \A q \in Procs : pc'[q] \notin {"writesleep", "writeasleep"}
      BY <1>12, <2>1, <2>5 DEF Close, WakeWriters, TypeOK
    <3>2. QED
      BY <3>1 DEF WritersFound
  <2>6. QED
    BY <2>3, <2>4, <2>5
<1>13. CASE Kill(p)
  BY <1>13 DEF Kill, WritersFound, Full, ring, TypeOK
<1>14. QED
  BY <1>1, <1>2, <1>3, <1>4, <1>5, <1>6, <1>7, <1>8, <1>9, <1>10, <1>11, <1>12, <1>13
     DEF PipeStep, Write, Read

\* and what the readers have.
LEMMA ReadersFoundKept ==
  ASSUME PipeInv, NEW p \in Procs, PipeStep(p)
  PROVE  ReadersFound'
<1> TypeOK /\ Ends /\ Locked /\ ReadersFound /\ Nobody \notin Procs
  BY ProcsAssumption DEF PipeInv
<1>1. CASE WriteCall(p)
  BY <1>1 DEF WriteCall, ReadersFound, Empty, ring, TypeOK
<1>2. CASE WriteLock(p)
  <2>1. \A q \in Writers : holder # q
    BY <1>2 DEF WriteLock, Procs
  <2>2. \A q \in Procs : pc'[q] \in {"readsleep", "readasleep"} => pc'[q] = pc[q]
    BY <1>2 DEF WriteLock, TypeOK
  <2>3. UNCHANGED <<ring, writeopen, killed>>
    BY <1>2 DEF WriteLock
  <2>4. QED
    BY <2>1, <2>2, <2>3 DEF ReadersFound, Empty, ring
<1>3. CASE WriteByte(p)
  <2>1. /\ p \in Writers /\ pc[p] = "put" /\ holder' = p /\ UNCHANGED <<pc, writeopen, killed>>
    BY <1>3 DEF WriteByte, InWrite, Ends, Writing
  <2>2. \A q \in Procs : pc[q] # "readsleep"
    BY <1>3 DEF WriteByte, InWrite, Locked
  <2>3. QED
    BY <2>1, <2>2 DEF ReadersFound
<1>4. CASE WriteDone(p)
  BY <1>4 DEF WriteDone, InWrite, WriteReturns, WakeReaders, ReadersFound, Empty, ring,
              TypeOK
<1>5. CASE WriteFails(p)
  <2>1. UNCHANGED <<ring, writeopen, killed>>
    BY <1>5 DEF WriteFails, WriteReturns
  <2>2. \A q \in Procs : pc'[q] \in {"readsleep", "readasleep"} => pc'[q] = pc[q]
    BY <1>5 DEF WriteFails, WriteReturns, TypeOK
  <2>3. p \in Writers
    BY <1>5 DEF WriteFails, InWrite, Ends, Writing
  <2>4. killed \cap Writers = {} => \A q \in Procs : pc[q] # "readasleep"
    BY <1>5, <2>3 DEF WriteFails, Ends, Reading
  <2>5. QED
    BY <2>1, <2>2, <2>4 DEF ReadersFound, Empty, ring
<1>6. CASE WriteFull(p)
  BY <1>6 DEF WriteFull, InWrite, WakeReaders, ReadersFound, Empty, ring, TypeOK
<1>7. CASE Sleep(p)
  <2>1. /\ UNCHANGED <<ring, writeopen, killed>>
        /\ holder = p /\ pc[p] \in {"writesleep", "readsleep"}
    BY <1>7 DEF Sleep, Locked
  <2>2. killed \cap Writers = {} => \A q \in Procs : pc[q] = "readasleep" => writeopen /\ Empty
    BY <2>1 DEF ReadersFound
  <2>3. pc[p] = "readsleep" => writeopen /\ Empty
    BY DEF ReadersFound
  <2>4. /\ pc'[p] = "readasleep" => pc[p] = "readsleep"
        /\ pc'[p] # "readsleep"
        /\ \A q \in Procs \ {p} : pc'[q] = pc[q]
    BY <1>7 DEF Sleep, TypeOK
  <2>5. QED
    BY <2>1, <2>2, <2>3, <2>4 DEF ReadersFound, Empty, ring
<1>8. CASE ReadCall(p)
  BY <1>8 DEF ReadCall, ReadersFound, Empty, ring, TypeOK
<1>9. CASE ReadEmpty(p)
  BY <1>9 DEF ReadEmpty, InRead, ReadersFound, Empty, ring, TypeOK
<1>10. CASE ReadKilled(p)
  BY <1>10 DEF ReadKilled, InRead, ReadersFound, Empty, ring, TypeOK
<1>11. CASE ReadBytes(p)
  <2>1. \A q \in Procs : pc[q] # "readsleep"
    BY <1>11 DEF ReadBytes, InRead, Locked
  <2>2. \A q \in Procs : pc'[q] \in {"readsleep", "readasleep"} => pc'[q] = pc[q]
    BY <1>11 DEF ReadBytes, WakeWriters, TypeOK
  <2>3. \A q \in Writers : holder # q
    BY <1>11 DEF ReadBytes, InRead, Procs
  <2>4. ASSUME Empty PROVE Empty'
    <3>1. Used = 0 /\ Used \in Nat
      BY <2>4, UsedCounts
    <3>2. PICK m \in 0..MinOf(todo[p], Used) : nread' = (nread + m) % Wrap
      BY <1>11 DEF ReadBytes
    <3>3. m \in 0..Used /\ m = 0 /\ nwrite' = nwrite
      BY <1>11, <3>1 DEF ReadBytes, MinOf, TypeOK
    <3>4. nread' \in 0..(Wrap - 1) /\ Used' = Used - m
      BY <3>2, <3>3, UsedShrinks
    <3>5. Used' = 0
      <4> HIDE DEF Used
      <4>1. QED
        BY <3>1, <3>3, <3>4
    <3>6. /\ Wrap \in Nat \ {0} /\ nwrite \in 0..(Wrap - 1)
          /\ Used' = (nwrite - nread') % Wrap
      BY <3>3, SizesAssumption DEF Used, TypeOK
    <3>7. nwrite = nread'
      <4>1. PICK r \in 0..(Wrap - 1) : r = nread'
        BY <3>4
      <4>2. PICK w \in 0..(Wrap - 1) : w = nwrite
        BY <3>6
      <4>3. (w - r) % Wrap = IF w < r THEN w - r + Wrap ELSE w - r
        BY <3>6, ModDifference
      <4>4. (w - r) % Wrap = 0
        BY <3>5, <3>6, <4>1, <4>2
      <4>5. w = r
        BY <3>6, <4>3, <4>4
      <4>6. QED
        BY <4>1, <4>2, <4>5
    <3>8. QED
      BY <3>3, <3>7 DEF Empty
  <2>5. UNCHANGED <<writeopen, killed>>
    BY <1>11 DEF ReadBytes
  <2>6. QED
    BY <2>1, <2>2, <2>3, <2>4, <2>5 DEF ReadersFound
<1>12. CASE Close(p)
  <2>1. \A q \in Procs : pc[q] # "readsleep"
    BY <1>12 DEF Close, Locked
  <2>2. \A q \in Writers : holder # q
    BY <1>12 DEF Close, Procs
  <2>3. Empty' <=> Empty
    BY <1>12 DEF Close, ring, Empty
  <2>4. \A q \in Procs : pc'[q] \in {"readsleep", "readasleep"} => pc'[q] = pc[q]
    BY <1>12 DEF Close, WakeReaders, WakeWriters, TypeOK
  <2>5. CASE p \in Writers /\ ~writeopen'
    <3>1. \A q \in Procs : pc'[q] # "readasleep"
      BY <1>12, <2>5 DEF Close, WakeReaders, TypeOK
    <3>2. QED
      BY <2>1, <2>4, <3>1 DEF ReadersFound
  <2>6. CASE p \in Writers => writeopen'
    <3>1. writeopen => writeopen'
      BY <1>12, <2>6 DEF Close, Ends, Procs
    <3>2. killed' = killed
      BY <1>12 DEF Close
    <3>3. QED
      BY <2>1, <2>2, <2>3, <2>4, <3>1, <3>2 DEF ReadersFound
  <2>7. QED
    BY <2>5, <2>6
<1>13. CASE Kill(p)
  BY <1>13 DEF Kill, ReadersFound, Empty, ring, TypeOK
<1>14. QED
  BY <1>1, <1>2, <1>3, <1>4, <1>5, <1>6, <1>7, <1>8, <1>9, <1>10, <1>11, <1>12, <1>13
     DEF PipeStep, Write, Read

-----------------------------------------------------------------------------
(* The invariant, and what it is for. *)

LEMMA PipeInitial == Init => PipeInv
<1> SUFFICES ASSUME Init PROVE PipeInv
  OBVIOUS
<1>1. Used = 0
  BY SizesAssumption, ModCases DEF Init, Used
<1>2. TypeOK
  BY <1>1, SizesAssumption DEF Init, TypeOK, Labels
<1>3. readopen = (open \cap Readers # {}) /\ writeopen = (open \cap Writers # {})
  BY ProcsAssumption DEF Init, Procs
<1>4. \A p \in Procs : pc[p] = "user" /\ p \in open /\ holder # p
  BY ProcsAssumption DEF Init
<1>5. QED
  BY <1>2, <1>3, <1>4 DEF PipeInv, Ends, Locked, WritersFound, ReadersFound, Writing,
                          Reading

LEMMA PipeStutter == PipeInv /\ UNCHANGED vars => PipeInv'
BY DEF PipeInv, TypeOK, Ends, Locked, WritersFound, ReadersFound, Used, Full, Empty, vars

THEOREM PipeInvariance == Spec => []PipeInv
<1>1. PipeInv /\ [Next]_vars => PipeInv'
  <2> SUFFICES ASSUME PipeInv, [Next]_vars PROVE PipeInv'
    OBVIOUS
  <2>1. ASSUME NEW p \in Procs, PipeStep(p) PROVE PipeInv'
    BY <2>1, TypesKept, EndsKept, LockedKept, WritersFoundKept, ReadersFoundKept DEF PipeInv
  <2>2. Next => \E p \in Procs : PipeStep(p)
    BY DEF Next, PipeStep
  <2>3. QED
    BY <2>1, <2>2, PipeStutter
<1>2. QED
  BY <1>1, PipeInitial, PTL DEF Spec

\* Who sleeps has a cause (pipe.c:91, pipe.c:116): no wakeup is lost, whatever the number
\* of readers and writers and whichever of them runs first; and the ring, its
\* counters wrapping, never holds more than PIPESIZE bytes.
THEOREM PipeIsSound == Spec => []PipeSound
<1>1. PipeInv => PipeSound
  BY ProcsAssumption DEF PipeInv, PipeSound, WritersFound, ReadersFound, SleepersHaveCause,
                         ReadersHaveCause, Procs
<1>2. QED
  BY <1>1, PipeInvariance, PTL

-----------------------------------------------------------------------------
(* The ring is a queue. *)

\* The n bytes of the ring d from the counter r on.
Contents(d, r, n) == [i \in 1..n |-> d[(r + i - 1) % PIPESIZE]]
Cells == [0..(PIPESIZE - 1) -> Bytes]

LEMMA ContentsAreBytes ==
  ASSUME NEW d \in Cells, NEW r \in Nat, NEW n \in Nat
  PROVE  /\ Contents(d, r, n) \in Seq(Bytes)
         /\ Len(Contents(d, r, n)) = n
         /\ \A i \in 1..n : Contents(d, r, n)[i] = d[(r + i - 1) % PIPESIZE]
<1>1. \A i \in 1..n : d[(r + i - 1) % PIPESIZE] \in Bytes
  <2> SUFFICES ASSUME NEW i \in 1..n PROVE d[(r + i - 1) % PIPESIZE] \in Bytes
    OBVIOUS
  <2>1. PICK a \in Int : a = r + i - 1
    OBVIOUS
  <2>2. a % PIPESIZE \in 0..(PIPESIZE - 1)
    BY ModDiv, SizesAssumption
  <2>3. QED
    BY <2>1, <2>2 DEF Cells
<1>2. Contents(d, r, n) \in [1..n -> Bytes]
  BY <1>1 DEF Contents
<1>3. Contents(d, r, n) \in Seq(Bytes)
  BY <1>2, SeqDef
<1>4. QED
  BY <1>2, <1>3, LenProperties DEF Contents

\* The counters wrap at a multiple of the ring's size: the cell stays the same.
LEMMA CellsWrap ==
  ASSUME NEW a \in Int
  PROVE  (a - Wrap) % PIPESIZE = a % PIPESIZE
<1>1. PICK k \in Int : Wrap = PIPESIZE * k
  <2>1. PIPESIZE \in Nat \ {0} /\ Wrap \in Int /\ Wrap % PIPESIZE = 0
    BY SizesAssumption
  <2>2. Wrap = PIPESIZE * (Wrap \div PIPESIZE) + (Wrap % PIPESIZE) /\ Wrap \div PIPESIZE \in Int
    BY <2>1, ModDiv
  <2>3. QED
    BY <2>1, <2>2
<1>2. PICK j \in Int : j = -k
  OBVIOUS
<1>3. PIPESIZE * j = -(PIPESIZE * k)
  BY <1>2, SizesAssumption
<1>4. a - Wrap = a + PIPESIZE * j
  BY <1>1, <1>3, SizesAssumption
<1>5. (a + PIPESIZE * j) % PIPESIZE = a % PIPESIZE
  BY SizesAssumption, ModMultiple
<1>6. QED
  BY <1>4, <1>5

\* x is r + n, up to the wrap of a counter.
Ahead(x, r, n) == x = IF r + n < Wrap THEN r + n ELSE r + n - Wrap

LEMMA CellAhead ==
  ASSUME NEW r \in Nat, NEW n \in Nat, NEW x \in Nat, Ahead(x, r, n), NEW i \in Nat
  PROVE  (x + i) % PIPESIZE = (r + n + i) % PIPESIZE
<1>1. CASE r + n < Wrap
  BY <1>1 DEF Ahead
<1>2. CASE ~(r + n < Wrap)
  <2>1. PICK a \in Int : a = r + n + i
    OBVIOUS
  <2>2. x + i = a - Wrap
    BY <1>2, <2>1, SizesAssumption DEF Ahead
  <2>3. QED
    BY <2>1, <2>2, CellsWrap
<1>3. QED
  BY <1>1, <1>2

LEMMA NextCell ==
  ASSUME NEW r \in Nat, NEW n \in Nat, NEW x \in Nat, Ahead(x, r, n)
  PROVE  x % PIPESIZE = (r + n) % PIPESIZE
<1>1. PICK z \in Nat : z = 0
  OBVIOUS
<1>2. (x + z) % PIPESIZE = (r + n + z) % PIPESIZE
  BY CellAhead DEF Ahead
<1>3. x + z = x /\ r + n + z = r + n
  BY <1>1
<1>4. QED
  BY <1>2, <1>3

\* A byte put where nwrite points to is the last of the queue, and none is overwritten.
LEMMA ContentsPut ==
  ASSUME NEW d \in Cells, NEW r \in Nat, NEW n \in Nat, n < PIPESIZE, NEW b \in Bytes,
         NEW w \in Nat, Ahead(w, r, n), NEW e \in Cells, e[w % PIPESIZE] = b,
         \A c \in 0..(PIPESIZE - 1) : c # w % PIPESIZE => e[c] = d[c]
  PROVE  Contents(e, r, n + 1) = Append(Contents(d, r, n), b)
<1> DEFINE s == Contents(d, r, n)
           t == Contents(e, r, n + 1)
           u == Append(s, b)
<1>1. n \in Nat /\ n + 1 \in Nat /\ PIPESIZE \in Nat \ {0}
  BY SizesAssumption
<1>2. w % PIPESIZE = (r + n) % PIPESIZE /\ w % PIPESIZE \in 0..(PIPESIZE - 1)
  <2>1. w % PIPESIZE = (r + n) % PIPESIZE
    <3> HIDE DEF s, t, u
    <3>1. QED
      BY NextCell DEF Ahead
  <2>2. w % PIPESIZE \in 0..(PIPESIZE - 1)
    BY <1>1, ModDiv
  <2>3. QED
    BY <2>1, <2>2
<1>3. e \in Cells
  BY DEF Cells
<1>4. /\ s \in Seq(Bytes) /\ Len(s) = n
      /\ \A i \in 1..n : s[i] = d[(r + i - 1) % PIPESIZE]
  BY <1>1, ContentsAreBytes
<1>5. /\ t \in Seq(Bytes) /\ Len(t) = n + 1
      /\ \A i \in 1..(n + 1) : t[i] = e[(r + i - 1) % PIPESIZE]
  BY <1>1, <1>3, ContentsAreBytes
<1> HIDE DEF s, t
<1>6. /\ u \in Seq(Bytes) /\ Len(u) = n + 1
      /\ \A i \in 1..(n + 1) : u[i] = IF i = n + 1 THEN b ELSE s[i]
  BY <1>4, AppendProperties
<1>7. ASSUME NEW i \in 1..n PROVE t[i] = u[i]
  <2>1. PICK a \in Int : a = r + i - 1
    OBVIOUS
  <2>2. PICK j \in 1..(PIPESIZE - 1) : a + j = r + n
    <3>1. n - i + 1 \in 1..(PIPESIZE - 1) /\ a + (n - i + 1) = r + n
      BY <1>1, <2>1
    <3>2. QED
      BY <3>1
  <2>3. (a + j) % PIPESIZE # a % PIPESIZE /\ a % PIPESIZE \in 0..(PIPESIZE - 1)
    BY <1>1, ModApart, ModDiv
  <2>4. e[a % PIPESIZE] = d[a % PIPESIZE]
    BY <1>2, <2>2, <2>3 DEF Cells
  <2>5. t[i] = e[a % PIPESIZE] /\ u[i] = d[a % PIPESIZE]
    BY <1>4, <1>5, <1>6, <2>1, <1>1
  <2>6. QED
    BY <2>4, <2>5
<1>8. t[n + 1] = u[n + 1]
  <2>1. r + (n + 1) - 1 = r + n
    BY <1>1
  <2>2. t[n + 1] = e[w % PIPESIZE]
    BY <1>1, <1>2, <1>5, <2>1
  <2>3. e[w % PIPESIZE] = b
    BY <1>2 DEF Cells
  <2>4. QED
    BY <1>1, <1>6, <2>2, <2>3
<1>9. \A i \in 1..Len(t) : t[i] = u[i]
  <2>1. \A i \in 1..Len(t) : i = n + 1 \/ i \in 1..n
    BY <1>1, <1>5
  <2>2. QED
    BY <1>7, <1>8, <2>1
<1>10. t = u
  BY <1>5, <1>6, <1>9, SeqEqual
<1>11. QED
  BY <1>10 DEF s, t

\* The bytes that are read are the first ones of the queue,
LEMMA ContentsFirst ==
  ASSUME NEW d \in Cells, NEW r \in Nat, NEW n \in Nat, NEW k \in 0..n
  PROVE  Contents(d, r, k) = SubSeq(Contents(d, r, n), 1, k)
<1> DEFINE s == Contents(d, r, n)
           t == Contents(d, r, k)
           u == SubSeq(s, 1, k)
<1>1. /\ s \in Seq(Bytes) /\ Len(s) = n
      /\ \A i \in 1..n : s[i] = d[(r + i - 1) % PIPESIZE]
  BY ContentsAreBytes
<1>2. /\ t \in Seq(Bytes) /\ Len(t) = k
      /\ \A i \in 1..k : t[i] = d[(r + i - 1) % PIPESIZE]
  <2>1. k \in Nat
    OBVIOUS
  <2>2. QED
    BY <2>1, ContentsAreBytes
<1> HIDE DEF s, t
<1>3. \A i \in 1..k : s[i] \in Bytes
  BY <1>1, LenProperties
<1>4. /\ u \in Seq(Bytes) /\ Len(u) = IF 1 <= k THEN k - 1 + 1 ELSE 0
      /\ \A i \in 1..(k - 1 + 1) : u[i] = s[1 + i - 1]
  BY <1>3, SubSeqProperties
<1>5. Len(u) = k /\ \A i \in 1..k : u[i] = s[i]
  BY <1>4
<1>6. \A i \in 1..Len(t) : t[i] = u[i]
  BY <1>1, <1>2, <1>5
<1>7. t = u
  BY <1>2, <1>4, <1>5, <1>6, SeqEqual
<1>8. QED
  BY <1>7 DEF s, t

\* and those that stay are the others.
LEMMA ContentsRest ==
  ASSUME NEW d \in Cells, NEW r \in Nat, NEW n \in Nat, NEW m \in 0..n,
         NEW x \in Nat, Ahead(x, r, m)
  PROVE  Contents(d, x, n - m) = SubSeq(Contents(d, r, n), m + 1, n)
<1> DEFINE s == Contents(d, r, n)
           k == n - m
           t == Contents(d, x, k)
           u == SubSeq(s, m + 1, n)
<1>1. /\ s \in Seq(Bytes) /\ Len(s) = n
      /\ \A i \in 1..n : s[i] = d[(r + i - 1) % PIPESIZE]
  BY ContentsAreBytes
<1>2. /\ t \in Seq(Bytes) /\ Len(t) = k
      /\ \A i \in 1..k : t[i] = d[(x + i - 1) % PIPESIZE]
  <2>1. k \in Nat
    OBVIOUS
  <2>2. QED
    BY <2>1, ContentsAreBytes
<1> HIDE DEF s, t
<1>3. \A i \in (m + 1)..n : s[i] \in Bytes
  BY <1>1, LenProperties
<1>4. /\ u \in Seq(Bytes) /\ Len(u) = IF m + 1 <= n THEN n - (m + 1) + 1 ELSE 0
      /\ \A i \in 1..(n - (m + 1) + 1) : u[i] = s[m + 1 + i - 1]
  BY <1>3, SubSeqProperties
<1>5. Len(u) = k /\ \A i \in 1..k : u[i] = s[m + i]
  BY <1>4
<1>6. ASSUME NEW i \in 1..k PROVE t[i] = u[i]
  <2>1. PICK j \in Nat : i = j + 1
    <3>1. i - 1 \in Nat /\ i = (i - 1) + 1
      OBVIOUS
    <3>2. QED
      BY <3>1
  <2>2. (x + j) % PIPESIZE = (r + m + j) % PIPESIZE
    <3>1. m \in Nat
      OBVIOUS
    <3>2. QED
      BY <3>1, CellAhead DEF Ahead
  <2>3. x + i - 1 = x + j /\ r + (m + i) - 1 = r + m + j /\ m + i \in 1..n
    BY <2>1
  <2>4. t[i] = d[(x + j) % PIPESIZE]
    BY <1>2, <2>3
  <2>5. u[i] = d[(r + m + j) % PIPESIZE]
    BY <1>1, <1>5, <2>3
  <2>6. QED
    BY <2>2, <2>4, <2>5
<1>7. t = u
  BY <1>2, <1>4, <1>5, <1>6, SeqEqual
<1>8. QED
  BY <1>7 DEF s, t

-----------------------------------------------------------------------------
(* Every step of the pipe is one of the queue, or none. *)

TheQueue == Contents(data, nread, Used)

LEMMA TheQueueIsMapped == TheQueue = [i \in 1..Used |-> data[(nread + i - 1) % PIPESIZE]]
BY DEF TheQueue, Contents

LEMMA QueueFacts ==
  ASSUME TypeOK
  PROVE  /\ data \in Cells /\ nread \in Nat /\ nwrite \in Nat /\ Used \in 0..PIPESIZE
         /\ PIPESIZE \in Nat \ {0} /\ Wrap \in Nat \ {0} /\ PIPESIZE < Wrap
         /\ nread \in 0..(Wrap - 1)
         /\ TheQueue \in Seq(Bytes) /\ Len(TheQueue) = Used
<1>1. /\ data \in Cells /\ nread \in Nat /\ nwrite \in Nat /\ nread \in 0..(Wrap - 1)
      /\ PIPESIZE \in Nat \ {0} /\ Wrap \in Nat \ {0} /\ PIPESIZE < Wrap
  BY SizesAssumption DEF TypeOK, Cells
<1>2. Used \in 0..PIPESIZE /\ Used \in Nat
  BY <1>1, UsedCounts
<1>3. QED
  BY <1>1, <1>2, ContentsAreBytes DEF TheQueue

LEMMA PutRefines ==
  ASSUME PipeInv, NEW p \in Procs, WriteByte(p)
  PROVE  \E b \in Bytes : Queue!Put(b)
<1> TypeOK /\ Ends
  BY DEF PipeInv
<1>1. PICK b \in Bytes : data' = [data EXCEPT ![nwrite % PIPESIZE] = b]
  BY DEF WriteByte
<1>2. writeopen /\ UNCHANGED <<writeopen, out>>
  BY DEF WriteByte, InWrite, Ends, Writing
<1>3. ~Full /\ nwrite' = (nwrite + 1) % Wrap /\ nread' = nread
  BY DEF WriteByte
<1>4. Used' = Used + 1 /\ Used < PIPESIZE
  BY <1>3, UsedGrows
<1>5. Ahead(nwrite, nread, Used) /\ Used \in Nat
  BY UsedCounts, QueueFacts DEF Ahead
<1>6. TheQueue' = Append(TheQueue, b)
  <2>1. PICK d \in Cells, r \in Nat, n \in Nat, w \in Nat, e \in Cells :
          d = data /\ r = nread /\ n = Used /\ w = nwrite /\ e = data'
    BY <1>1, <1>5, QueueFacts DEF Cells
  <2>2. n < PIPESIZE /\ Ahead(w, r, n)
    BY <1>4, <1>5, <2>1
  <2>3. e[w % PIPESIZE] = b /\ \A c \in 0..(PIPESIZE - 1) : c # w % PIPESIZE => e[c] = d[c]
    <3>1. w % PIPESIZE \in 0..(PIPESIZE - 1)
      BY SizesAssumption, ModDiv
    <3>2. QED
      BY <1>1, <2>1, <3>1 DEF Cells
  <2>4. Contents(e, r, n + 1) = Append(Contents(d, r, n), b)
    BY <2>1, <2>2, <2>3, ContentsPut DEF Ahead
  <2>5. TheQueue' = Contents(e, r, n + 1)
    BY <1>3, <1>4, <2>1 DEF TheQueue
  <2>6. QED
    BY <2>1, <2>4, <2>5 DEF TheQueue
<1>7. Len(TheQueue) < PIPESIZE
  BY <1>4, QueueFacts
<1>8. QED
  BY <1>2, <1>6, <1>7, TheQueueIsMapped DEF Queue!Put, TheQueue, Contents

LEMMA ReadRefines ==
  ASSUME PipeInv, NEW p \in Procs, ReadBytes(p)
  PROVE  \/ \E m \in 1..Used : \E d \in {m, m - 1} : Queue!Get(m, d)
         \/ Queue!Eof
<1> TypeOK /\ Ends
  BY DEF PipeInv
<1>1. /\ todo[p] \in Nat \ {0} /\ (~Empty \/ ~writeopen)
      /\ UNCHANGED <<data, nwrite, writeopen>>
  BY SizesAssumption DEF ReadBytes, InRead, Ends, Reading, TypeOK
<1>2. PICK m \in 0..MinOf(todo[p], Used), k \in 0..MaxCount :
        /\ \/ m = MinOf(todo[p], Used) /\ k = m
           \/ m > 0 /\ k = m - 1
        /\ out' = [eof |-> m = 0,
                   bytes |-> [i \in 1..k |-> data[(nread + i - 1) % PIPESIZE]]]
        /\ nread' = (nread + m) % Wrap
  BY DEF ReadBytes
<1>3. m \in 0..Used /\ Used \in 0..PIPESIZE /\ m \in Nat
  BY <1>1, QueueFacts DEF MinOf
<1>4. nread' \in 0..(Wrap - 1) /\ Used' = Used - m
  BY <1>1, <1>2, <1>3, UsedShrinks
<1>5. Ahead(nread', nread, m)
  <2>1. m \in 0..Wrap
    BY <1>3, QueueFacts
  <2>2. (nread + m) % Wrap = IF nread + m < Wrap THEN nread + m ELSE nread + m - Wrap
    BY <2>1, QueueFacts, ModSum
  <2>3. QED
    BY <1>2, <2>2 DEF Ahead
<1>6. PICK d \in Cells, r \in Nat, n \in Nat, x \in Nat :
        d = data /\ r = nread /\ n = Used /\ x = nread'
  BY <1>3, <1>4, QueueFacts
<1>7. TheQueue = Contents(d, r, n) /\ TheQueue' = Contents(d, x, n - m)
  BY <1>1, <1>4, <1>6 DEF TheQueue
<1>8. m \in 0..n /\ Ahead(x, r, m)
  BY <1>3, <1>5, <1>6
<1>9. Contents(d, x, n - m) = SubSeq(Contents(d, r, n), m + 1, n)
  BY <1>8, ContentsRest
<1>10. Len(TheQueue) = n
  BY <1>6, QueueFacts
<1>11. TheQueue' = SubSeq(TheQueue, m + 1, Len(TheQueue))
  BY <1>7, <1>9, <1>10
<1>12. CASE m > 0
  <2>1. k \in {m, m - 1} /\ k \in 0..n
    BY <1>2, <1>6, <1>3, <1>12
  <2>2. Contents(d, r, k) = SubSeq(TheQueue, 1, k)
    BY <1>7, <2>1, ContentsFirst
  <2>3. out' = [eof |-> FALSE, bytes |-> Contents(d, r, k)]
    <3>1. m = 0 <=> FALSE
      BY <1>3, <1>12
    <3>2. [i \in 1..k |-> data[(nread + i - 1) % PIPESIZE]] = Contents(d, r, k)
      BY <1>6 DEF Contents
    <3>3. QED
      BY <1>2, <3>1, <3>2
  <2>4. Queue!Get(m, k)
    BY <1>1, <1>11, <2>1, <2>2, <2>3, TheQueueIsMapped DEF Queue!Get, TheQueue, Contents
  <2>5. m \in 1..Used
    BY <1>3, <1>12
  <2>6. QED
    BY <2>1, <2>4, <2>5
<1>13. CASE m = 0
  <2>1. k = 0 /\ Used = 0
    BY <1>1, <1>2, <1>3, <1>13 DEF MinOf
  <2>2. Empty /\ ~writeopen
    BY <1>1, <2>1, UsedCounts
  <2>3. Contents(d, r, 0) = <<>> /\ TheQueue = <<>> /\ TheQueue' = <<>>
    BY <1>6, <1>7, <1>13, <2>1 DEF Contents
  <2>4. out' = [eof |-> TRUE, bytes |-> <<>>]
    <3>1. m = 0 <=> TRUE
      BY <1>13
    <3>2. [i \in 1..k |-> data[(nread + i - 1) % PIPESIZE]] = <<>>
      BY <2>1
    <3>3. QED
      BY <1>2, <3>1, <3>2
  <2>5. Queue!Eof
    BY <1>1, <2>2, <2>3, <2>4, TheQueueIsMapped DEF Queue!Eof, TheQueue, Contents
  <2>6. QED
    BY <2>5
<1>14. QED
  BY <1>3, <1>12, <1>13

LEMMA CloseRefines ==
  ASSUME PipeInv, NEW p \in Procs, Close(p)
  PROVE  Queue!HangUp \/ UNCHANGED Queue!fvars
<1>1. UNCHANGED <<data, nread, nwrite, out>>
  BY DEF Close, ring
<1>2. writeopen' = FALSE \/ writeopen' = writeopen
  BY DEF PipeInv, Ends, Close
<1>3. QED
  BY <1>1, <1>2 DEF Queue!HangUp, Queue!fvars, Used

LEMMA OthersStutter ==
  ASSUME UNCHANGED <<ring, writeopen, out>>
  PROVE  UNCHANGED Queue!fvars
BY DEF Queue!fvars, Used, ring

\* What is read is what was written, in its order, none of it twice and none of it lost but
\* the byte that copyout() fails on (pipe.c:126), whatever the size of the ring
\* and of the counters that wrap, and the number of readers and writers; a read
\* ends without a byte only when all write ends are closed and the ring is empty.
THEOREM PipeImplementsFifo == Spec => ImplementsFifo
<1>1. Init => Queue!Init
  <2> SUFFICES ASSUME Init PROVE Queue!Init
    OBVIOUS
  <2>1. Used = 0
    BY SizesAssumption, ModCases DEF Init, Used
  <2>2. [i \in 1..Used |-> data[(nread + i - 1) % PIPESIZE]] = <<>>
    BY <2>1
  <2>3. QED
    BY <2>2 DEF Init, Queue!Init
<1>2. PipeInv /\ [Next]_vars => [Queue!Next]_(Queue!fvars)
  <2> SUFFICES ASSUME PipeInv, [Next]_vars PROVE [Queue!Next]_(Queue!fvars)
    OBVIOUS
  <2>1. CASE UNCHANGED vars
    BY <2>1, OthersStutter DEF vars, ring
  <2>2. ASSUME NEW p \in Procs, WriteByte(p) PROVE Queue!Next
    BY <2>2, PutRefines DEF Queue!Next
  <2>3. ASSUME NEW p \in Procs, ReadBytes(p) PROVE Queue!Next
    <3>1. Len([i \in 1..Used |-> data[(nread + i - 1) % PIPESIZE]]) = Used
      BY QueueFacts, TheQueueIsMapped DEF PipeInv
    <3>2. QED
      BY <2>3, <3>1, ReadRefines DEF Queue!Next
  <2>4. ASSUME NEW p \in Procs, Close(p) PROVE [Queue!Next]_(Queue!fvars)
    BY <2>4, CloseRefines DEF Queue!Next
  <2>5. ASSUME NEW p \in Procs,
               \/ WriteCall(p) \/ WriteLock(p) \/ WriteDone(p) \/ WriteFails(p)
               \/ WriteFull(p) \/ Sleep(p) \/ ReadCall(p) \/ ReadEmpty(p)
               \/ ReadKilled(p) \/ Kill(p)
        PROVE  UNCHANGED <<ring, writeopen, out>>
    BY <2>5 DEF WriteCall, WriteLock, WriteDone, WriteFails, WriteReturns, WriteFull, Sleep,
                ReadCall, ReadEmpty, ReadKilled, Kill
  <2>6. QED
    BY <2>1, <2>2, <2>3, <2>4, <2>5, OthersStutter DEF Next, Write, Read
<1>3. QED
  BY <1>1, <1>2, PipeInvariance, PTL DEF Spec, ImplementsFifo, Queue!Spec
=============================================================================
