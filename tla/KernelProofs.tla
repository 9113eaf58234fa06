---------------------------- MODULE KernelProofs ----------------------------
(***************************************************************************)
(* Proofs about four parts of the kernel that share no state: the disk's   *)
(* driver (VirtioDisk), interrupts, ticks and sleep() (Traps), the console *)
(* over the UART (Console), which is a LineDiscipline, and the pages and   *)
(* address spaces of processes (Memory).                                   *)
(***************************************************************************)
EXTENDS VirtioDisk, Console, Traps, Memory, FiniteSetTheorems, SequenceTheorems,
        WellFoundedInduction, TLAPS

-----------------------------------------------------------------------------
(* Remainders. *)

LEMMA ModDiv ==
  ASSUME NEW n \in Nat \ {0}, NEW a \in Int
  PROVE  a = n * (a \div n) + (a % n) /\ a \div n \in Int /\ a % n \in 0..(n - 1)
BY SMTT(30)

LEMMA NoMultiple ==
  ASSUME NEW n \in Nat \ {0}, NEW q \in Int, -n < n * q, n * q < n
  PROVE  q = 0
<1>1. CASE q >= 1
  <2>1. n * q >= n * 1
    BY <1>1
  <2>2. QED
    BY <2>1
<1>2. CASE q <= -1
  <2>1. n * q <= n * (-1)
    BY <1>2
  <2>2. QED
    BY <2>1
<1>3. QED
  BY <1>1, <1>2

\* Numbers that are equal up to multiples of n, and less than n apart, are equal.
LEMMA ModUnique ==
  ASSUME NEW n \in Nat \ {0}, NEW q \in Int, NEW c \in 0..(n - 1)
  PROVE  (n * q + c) % n = c
<1> DEFINE a == n * q + c
<1>1. a \in Int
  OBVIOUS
<1>2. a = n * (a \div n) + (a % n) /\ a \div n \in Int /\ a % n \in 0..(n - 1)
  BY <1>1, ModDiv
<1> HIDE DEF a
<1>3. PICK d \in Int, f \in 0..(n - 1) : a = n * d + f /\ f = a % n
  BY <1>2
<1>4. n * (q - d) = n * q - n * d
  OBVIOUS
<1>5. n * (q - d) = f - c
  BY <1>3, <1>4 DEF a
<1>6. q - d = 0
  BY <1>5, NoMultiple
<1>7. QED
  BY <1>3, <1>5, <1>6 DEF a

LEMMA ModMultiple ==
  ASSUME NEW n \in Nat \ {0}, NEW k \in Int, NEW a \in Int
  PROVE  (a + n * k) % n = a % n
<1>1. PICK q \in Int, c \in 0..(n - 1) : a = n * q + c /\ c = a % n
  BY ModDiv
<1>2. n * (q + k) = n * q + n * k
  OBVIOUS
<1>3. a + n * k = n * (q + k) + c
  BY <1>1, <1>2
<1>4. (n * (q + k) + c) % n = c
  BY ModUnique
<1>5. QED
  BY <1>1, <1>3, <1>4

\* Cells less than n apart are different cells.
LEMMA ModApart ==
  ASSUME NEW n \in Nat \ {0}, NEW a \in Int, NEW j \in 1..(n - 1)
  PROVE  (a + j) % n # a % n
<1>1. PICK q \in Int, c \in 0..(n - 1) : a = n * q + c /\ c = a % n
  BY ModDiv
<1>2. PICK b \in Int : b = a + j
  OBVIOUS
<1>3. PICK s \in Int, t \in 0..(n - 1) : b = n * s + t /\ t = b % n
  BY ModDiv
<1>4. ASSUME t = c PROVE FALSE
  <2>1. n * (s - q) = n * s - n * q
    OBVIOUS
  <2>2. n * (s - q) = j
    <3>1. PICK x \in Int : x = n * s
      OBVIOUS
    <3>2. PICK y \in Int : y = n * q
      OBVIOUS
    <3>3. b = x + c /\ a = y + c
      BY <1>1, <1>3, <1>4, <3>1, <3>2
    <3>4. x - y = j
      BY <1>2, <3>3
    <3>5. QED
      BY <2>1, <3>1, <3>2, <3>4
  <2>3. s - q = 0
    BY <2>2, NoMultiple
  <2>4. QED
    BY <2>2, <2>3
<1>5. QED
  BY <1>1, <1>2, <1>3, <1>4

LEMMA ModCases ==
  ASSUME NEW n \in Nat \ {0}, NEW a \in (-n)..(2 * n - 1)
  PROVE  a % n = IF a < 0 THEN a + n ELSE IF a < n THEN a ELSE a - n
<1>1. CASE a < 0
  <2>1. (n * (-1) + (a + n)) % n = a + n
    BY <1>1, ModUnique
  <2>2. QED
    BY <1>1, <2>1
<1>2. CASE a \in 0..(n - 1)
  <2>1. (n * 0 + a) % n = a
    BY <1>2, ModUnique
  <2>2. QED
    BY <1>2, <2>1
<1>3. CASE a >= n
  <2>1. (n * 1 + (a - n)) % n = a - n
    BY <1>3, ModUnique
  <2>2. QED
    BY <1>3, <2>1
<1>4. QED
  BY <1>1, <1>2, <1>3

\* Sums and differences on a ring of n.
LEMMA ModSum ==
  ASSUME NEW n \in Nat \ {0}, NEW a \in 0..(n - 1), NEW b \in 0..n
  PROVE  (a + b) % n = IF a + b < n THEN a + b ELSE a + b - n
<1>1. PICK x \in (-n)..(2 * n - 1) : x = a + b
  OBVIOUS
<1>2. x % n = IF x < 0 THEN x + n ELSE IF x < n THEN x ELSE x - n
  BY ModCases
<1>3. QED
  BY <1>1, <1>2

LEMMA ModDifference ==
  ASSUME NEW n \in Nat \ {0}, NEW a \in 0..(n - 1), NEW b \in 0..(n - 1)
  PROVE  (a - b) % n = IF a < b THEN a - b + n ELSE a - b
<1>1. PICK x \in (-n)..(2 * n - 1) : x = a - b
  OBVIOUS
<1>2. x % n = IF x < 0 THEN x + n ELSE IF x < n THEN x ELSE x - n
  BY ModCases
<1>3. QED
  BY <1>1, <1>2

\* One more.
LEMMA ModPlus1 ==
  ASSUME NEW n \in Nat \ {0}, NEW a \in Nat
  PROVE  (a + 1) % n = IF a % n = n - 1 THEN 0 ELSE (a % n) + 1
<1> a \in Int
  OBVIOUS
<1>1. PICK q \in Int, d \in 0..(n - 1) : a = n * q + d /\ d = a % n
  BY ModDiv
<1>2. CASE d = n - 1
  <2>1. n * (q + 1) = n * q + n
    OBVIOUS
  <2>2. a + 1 = n * (q + 1) + 0
    BY <1>1, <1>2, <2>1
  <2>3. (n * (q + 1) + 0) % n = 0
    BY ModUnique
  <2>4. QED
    BY <1>1, <1>2, <2>2, <2>3
<1>3. CASE d # n - 1
  <2>1. d + 1 \in 0..(n - 1)
    BY <1>3
  <2>2. (n * q + (d + 1)) % n = d + 1
    BY <2>1, ModUnique
  <2>3. a + 1 = n * q + (d + 1)
    BY <1>1
  <2>4. QED
    BY <1>1, <1>3, <2>2, <2>3
<1>4. QED
  BY <1>2, <1>3

LEMMA ModLess ==
  ASSUME NEW n \in Nat \ {0}, NEW a \in Nat
  PROVE  a % n <= a /\ a % n \in 0..(n - 1) /\ (a < n => a % n = a)
<1> a \in Int
  OBVIOUS
<1>1. PICK q \in Int, d \in 0..(n - 1) : a = n * q + d /\ d = a % n
  BY ModDiv
<1>2. q >= 0
  <2>1. ASSUME q <= -1 PROVE FALSE
    <3>1. n * q <= n * (-1)
      BY <2>1
    <3>2. QED
      BY <1>1, <3>1
  <2>2. QED
    BY <2>1
<1>3. n * q >= 0
  BY <1>2
<1>4. a < n => a % n = a
  <2>1. ASSUME a < n PROVE a % n = a
    <3>1. a \in (-n)..(2 * n - 1)
      BY <2>1
    <3>2. QED
      BY <2>1, <3>1, ModCases
  <2>2. QED
    BY <2>1
<1>5. QED
  BY <1>1, <1>3, <1>4

LEMMA ModInt ==
  ASSUME NEW n \in Nat \ {0}, NEW a \in Int
  PROVE  a % n \in 0..(n - 1)
BY ModDiv

LEMMA ModAdd ==
  ASSUME NEW n \in Nat \ {0}, NEW a \in Int, NEW b \in Int, NEW k \in Int, a % n = b % n
  PROVE  (a + k) % n = (b + k) % n
<1>1. PICK q \in Int, c \in 0..(n - 1) : a = n * q + c /\ c = a % n
  BY ModDiv
<1>2. PICK p \in Int, d \in 0..(n - 1) : b = n * p + d /\ d = b % n
  BY ModDiv
<1>3. PICK m \in Int : m = q - p
  OBVIOUS
<1>4. n * m = n * q - n * p
  BY <1>3
<1>5. a + k = (b + k) + n * m
  <2>1. PICK x \in Int : x = n * q
    OBVIOUS
  <2>2. PICK y \in Int : y = n * p
    OBVIOUS
  <2>3. a = x + c /\ b = y + c
    BY <1>1, <1>2, <2>1, <2>2
  <2>4. n * m = x - y
    BY <1>4, <2>1, <2>2
  <2>5. QED
    BY <2>3, <2>4
<1>6. b + k \in Int
  OBVIOUS
<1>7. ((b + k) + n * m) % n = (b + k) % n
  BY <1>6, ModMultiple
<1>8. QED
  BY <1>5, <1>7

-----------------------------------------------------------------------------
(* virtio_disk.c *)

\* The chain of a request: its header, its data and its status descriptor.
Data(c) == desc[head[c]].next
Stat(c) == desc[Data(c)].next

Chains ==
  \A c \in Waiting :
    /\ desc[head[c]].own = c /\ desc[head[c]].part = "header" /\ desc[head[c]].more
    /\ desc[Data(c)].own = c /\ desc[Data(c)].part = "data" /\ desc[Data(c)].more
    /\ desc[Stat(c)].own = c /\ desc[Stat(c)].part = "status" /\ ~desc[Stat(c)].more
    /\ head[c] \notin free /\ Data(c) \notin free /\ Stat(c) \notin free

\* A descriptor that is not free is in a chain.
Covered == \A i \in Descs \ free : \E c \in Waiting : i \in {head[c], Data(c), Stat(c)}

Counted == IsFiniteSet(Waiting) /\ Cardinality(free) + 3 * Cardinality(Waiting) = NUM

\* A ring that is read at a and written at b lists nothing twice.
Entries(f, a, b) == {f[k] : k \in Pending(a, b)}
OneEach(f, a, b) == \A j, k \in Pending(a, b) : f[j] = f[k] => j = k

Flight == InAvail \cup work \cup InUsed
Rings ==
  /\ OneEach(avail, seen, availId) /\ OneEach(used, usedIdx, usedId)
  /\ InAvail \cap work = {} /\ InAvail \cap InUsed = {} /\ work \cap InUsed = {}
  /\ \A h \in Flight : \E c \in Waiting : h = head[c]

\* How far a request is.
Progress ==
  \A c \in Waiting :
    /\ info[head[c]] = c
    /\ busy[c] <=> head[c] \in Flight
    /\ result[c] = IF head[c] \in InAvail \cup work THEN "none"
                   ELSE IF head[c] \in status THEN "failed" ELSE "done"
    /\ head[c] \in status => head[c] \in InUsed

\* Who sleeps has not been told; a completion that is not late has its interrupt.
Sleeping ==
  /\ \A c \in asleep : \/ where[c] = "wait" /\ busy[c]
                       \/ where[c] = "room" /\ Waiting # {}
  /\ handler # "panicked" =>
       \A h \in InUsed : h \in late \/ (isr /\ handler # "ack") \/ handler = "loop"
  /\ handler = "panicked" => usedIdx # usedId /\ used[usedIdx] \in status

DiskInv == DiskTypeOK /\ Chains /\ Covered /\ Counted /\ Rings /\ Progress /\ Sleeping

-----------------------------------------------------------------------------
(* The rings. *)

\* How far k is from a.
Off(a, k) == IF k >= a THEN k - a ELSE k - a + NUM

LEMMA OffIs ==
  ASSUME NEW a \in Descs, NEW k \in Descs
  PROVE  Off(a, k) = (k - a) % NUM /\ Off(a, k) \in Descs
<1>1. NUM \in Nat /\ NUM >= 3
  BY DiskAssumption
<1>2. a \in 0..(NUM - 1) /\ k \in 0..(NUM - 1)
  BY DEF Descs
<1>3. CASE k >= a
  BY <1>1, <1>2, <1>3 DEF Off, Descs
<1>4. CASE k < a
  BY <1>1, <1>2, <1>4, SMTT(30) DEF Off, Descs
<1>5. QED
  BY <1>2, <1>3, <1>4

LEMMA PendingIs ==
  ASSUME NEW a \in Descs, NEW b \in Descs
  PROVE  Pending(a, b) = {k \in Descs : Off(a, k) < Off(a, b)}
<1>1. NUM \in Nat /\ NUM >= 3
  BY DiskAssumption
<1>2. Off(a, b) \in 0..(NUM - 1) /\ a \in 0..(NUM - 1)
  BY OffIs DEF Descs
<1>3. Pending(a, b) = {(a + k) % NUM : k \in 0..(Off(a, b) - 1)}
  BY OffIs DEF Pending
<1>4. ASSUME NEW k \in 0..(Off(a, b) - 1)
      PROVE  (a + k) % NUM \in Descs /\ Off(a, (a + k) % NUM) = k
  <2>1. CASE a + k < NUM
    BY <1>1, <1>2, <2>1 DEF Off, Descs
  <2>2. CASE a + k >= NUM
    <3>1. a + k - NUM \in 0..(NUM - 1)
      BY <1>1, <1>2, <2>2
    <3>2. (a + k) % NUM = a + k - NUM
      BY <1>1, <1>2, <2>2, <3>1, SMTT(30)
    <3>3. QED
      BY <1>1, <1>2, <3>1, <3>2 DEF Off, Descs
  <2>3. QED
    BY <1>1, <1>2, <2>1, <2>2
<1>5. ASSUME NEW i \in Descs, Off(a, i) < Off(a, b)
      PROVE  \E k \in 0..(Off(a, b) - 1) : i = (a + k) % NUM
  <2>1. Off(a, i) \in 0..(NUM - 1) /\ i \in 0..(NUM - 1)
    BY OffIs DEF Descs
  <2>2. i = (a + Off(a, i)) % NUM
    <3>1. CASE i >= a
      BY <1>1, <1>2, <2>1, <3>1 DEF Off
    <3>2. CASE i < a
      <4>1. a + Off(a, i) = i + NUM
        BY <1>1, <1>2, <2>1, <3>2 DEF Off
      <4>2. (i + NUM) % NUM = i
        BY <1>1, <2>1, SMTT(30)
      <4>3. QED
        BY <4>1, <4>2
    <3>3. QED
      BY <1>2, <2>1, <3>1, <3>2
  <2>3. Off(a, i) \in 0..(Off(a, b) - 1)
    BY <1>2, <1>5, <2>1
  <2>4. QED
    BY <2>2, <2>3
<1>6. Pending(a, b) \subseteq {k \in Descs : Off(a, k) < Off(a, b)}
  BY <1>2, <1>3, <1>4
<1>7. QED
  BY <1>3, <1>5, <1>6

LEMMA Plus1Is ==
  ASSUME NEW b \in Descs
  PROVE  Plus1(b) \in Descs /\ Plus1(b) = IF b = NUM - 1 THEN 0 ELSE b + 1
BY DiskAssumption DEF Plus1, Descs

\* Steps at either end.
LEMMA OffSteps ==
  ASSUME NEW a \in Descs, NEW b \in Descs
  PROVE  /\ a # b => Off(a, b) > 0
         /\ Off(a, b) < NUM - 1 => Off(a, Plus1(b)) = Off(a, b) + 1
         /\ Off(Plus1(a), b) = IF b = a THEN NUM - 1 ELSE Off(a, b) - 1
         /\ Off(a, a) = 0
         /\ \A k \in Descs : Off(a, k) = Off(a, b) => k = b
<1>1. NUM \in Nat /\ NUM >= 3 /\ a \in 0..(NUM - 1) /\ b \in 0..(NUM - 1)
  BY DiskAssumption DEF Descs
<1>2. Off(a, b) < NUM - 1 => Off(a, Plus1(b)) = Off(a, b) + 1
  <2>1. CASE b = NUM - 1
    BY <1>1, <2>1, Plus1Is DEF Off
  <2>2. CASE b # NUM - 1
    BY <1>1, <2>2, Plus1Is DEF Off
  <2>3. QED
    BY <2>1, <2>2
<1>3. Off(Plus1(a), b) = IF b = a THEN NUM - 1 ELSE Off(a, b) - 1
  <2>1. CASE a = NUM - 1
    BY <1>1, <2>1, Plus1Is DEF Off
  <2>2. CASE a # NUM - 1
    BY <1>1, <2>2, Plus1Is DEF Off
  <2>3. QED
    BY <2>1, <2>2
<1>4. \A k \in Descs : Off(a, k) = Off(a, b) => k = b
  BY <1>1 DEF Off, Descs
<1>5. QED
  BY <1>1, <1>2, <1>3, <1>4 DEF Off

\* The ring is empty when the indices meet.
LEMMA RingEmpty ==
  ASSUME NEW a \in Descs
  PROVE  Pending(a, a) = {}
BY PendingIs, DiskAssumption DEF Off, Descs

\* An entry is written at b.
LEMMA RingAdd ==
  ASSUME NEW f \in [Descs -> Descs], NEW a \in Descs, NEW b \in Descs, NEW x \in Descs,
         Off(a, b) < NUM - 1,
         NEW g \in [Descs -> Descs], g = [f EXCEPT ![b] = x]
  PROVE  /\ \A h : h \in Entries(g, a, Plus1(b)) <=> h \in Entries(f, a, b) \/ h = x
         /\ OneEach(f, a, b) /\ x \notin Entries(f, a, b) => OneEach(g, a, Plus1(b))
<1>1. NUM \in Nat /\ NUM >= 3 /\ a \in 0..(NUM - 1) /\ b \in 0..(NUM - 1)
  BY DiskAssumption DEF Descs
<1>2. Pending(a, Plus1(b)) = Pending(a, b) \cup {b} /\ b \notin Pending(a, b)
  <2>1. ASSUME NEW k \in Descs
        PROVE  Off(a, k) < Off(a, Plus1(b)) <=> Off(a, k) < Off(a, b) \/ k = b
    <3>1. Off(a, k) \in Int /\ Off(a, b) \in Int
      BY OffIs DEF Descs
    <3>2. QED
      BY <3>1, OffSteps
  <2>2. ~(Off(a, b) < Off(a, b))
    BY OffIs DEF Descs
  <2>3. QED
    BY <2>1, <2>2, PendingIs, Plus1Is
<1>3. Pending(a, b) \subseteq Descs
  BY PendingIs
<1>4. QED
  BY <1>2, <1>3 DEF Entries, OneEach

\* The entry at a is read, and forgotten.
LEMMA RingTake ==
  ASSUME NEW f \in [Descs -> Descs], NEW a \in Descs, NEW b \in Descs, a # b, OneEach(f, a, b),
         NEW g \in [Descs -> Descs], g = [f EXCEPT ![a] = 0], NEW x, x = f[a]
  PROVE  /\ x \in Entries(f, a, b)
         /\ \A h : h \in Entries(g, Plus1(a), b) <=> h \in Entries(f, a, b) /\ h # x
         /\ OneEach(g, Plus1(a), b)
<1>1. NUM \in Nat /\ NUM >= 3 /\ a \in 0..(NUM - 1) /\ b \in 0..(NUM - 1)
  BY DiskAssumption DEF Descs
<1>2. a \in Pending(a, b) /\ Pending(Plus1(a), b) = Pending(a, b) \ {a}
  <2>1. ASSUME NEW k \in Descs
        PROVE  Off(Plus1(a), k) < Off(Plus1(a), b) <=> Off(a, k) < Off(a, b) /\ k # a
    <3>1. Off(a, k) \in 0..(NUM - 1) /\ Off(a, b) \in 0..(NUM - 1)
      BY OffIs DEF Descs
    <3>2. Off(Plus1(a), b) = Off(a, b) - 1
      BY OffSteps
    <3>3. Off(Plus1(a), k) = IF k = a THEN NUM - 1 ELSE Off(a, k) - 1
      BY OffSteps
    <3>4. QED
      BY <1>1, <3>1, <3>2, <3>3
  <2>2. Off(a, a) < Off(a, b)
    BY <1>1 DEF Off
  <2>3. QED
    BY <2>1, <2>2, PendingIs, Plus1Is
<1>3. Pending(a, b) \subseteq Descs
  BY PendingIs
<1>4. QED
  BY <1>2, <1>3 DEF Entries, OneEach

\* The entry at a is listed.
LEMMA RingFirst ==
  ASSUME NEW f, NEW a \in Descs, NEW b \in Descs, a # b
  PROVE  f[a] \in Entries(f, a, b)
<1>1. Off(a, a) < Off(a, b)
  BY OffSteps
<1>2. a \in Pending(a, b)
  BY <1>1, PendingIs
<1>3. QED
  BY <1>2 DEF Entries

\* A ring whose entries are in S has room for one more than S has elements.
LEMMA RingRoom ==
  ASSUME NEW f \in [Descs -> Descs], NEW a \in Descs, NEW b \in Descs, OneEach(f, a, b),
         NEW S, IsFiniteSet(S), Cardinality(S) < NUM - 1, Entries(f, a, b) \subseteq S
  PROVE  Off(a, b) < NUM - 1
<1>1. NUM \in Nat /\ NUM >= 3 /\ a \in 0..(NUM - 1) /\ b \in 0..(NUM - 1)
  BY DiskAssumption DEF Descs
<1>2. SUFFICES ASSUME Off(a, b) = NUM - 1 PROVE FALSE
  <2>1. Off(a, b) \in 0..(NUM - 1)
    BY OffIs DEF Descs
  <2>2. QED
    BY <1>1, <2>1
<1>3. Pending(a, b) = Descs \ {b}
  <2>1. ASSUME NEW k \in Descs
        PROVE  Off(a, k) < NUM - 1 <=> k # b
    BY <1>1, <1>2 DEF Off, Descs
  <2>2. QED
    BY <1>2, <2>1, PendingIs
<1>4. IsFiniteSet(Descs) /\ Cardinality(Descs) = NUM
  BY <1>1, FS_Interval DEF Descs
<1>5. IsFiniteSet(Descs \ {b}) /\ Cardinality(Descs \ {b}) = NUM - 1
  BY <1>1, <1>4, FS_RemoveElement
<1>6. PICK g : g = [k \in Descs \ {b} |-> f[k]]
  OBVIOUS
<1>7. g \in [Descs \ {b} -> S]
  BY <1>3, <1>6 DEF Entries
<1>8. PICK j, k \in Descs \ {b} : j # k /\ g[j] = g[k]
  BY <1>5, <1>7, FS_PigeonHole
<1>9. QED
  BY <1>3, <1>6, <1>8 DEF OneEach

-----------------------------------------------------------------------------
(* Descriptors. *)

LEMMA LeastNat ==
  ASSUME NEW T \in SUBSET Nat, T # {}
  PROVE  \E m \in T : \A n \in T : m <= n
<1>1. PICK m \in T : \A n \in T : ~(<<n, m>> \in OpToRel(<, Nat))
  BY NatLessThanWellFounded, WFMin
<1>2. \A n \in T : ~(n < m)
  BY <1>1 DEF OpToRel
<1>3. QED
  BY <1>2

LEMMA LeastIn ==
  ASSUME NEW T \in SUBSET Descs, T # {}
  PROVE  Least(T) \in T
<1>1. T \in SUBSET Nat
  BY DiskAssumption DEF Descs
<1>2. \E m \in T : \A n \in T : m <= n
  BY <1>1, LeastNat
<1>3. QED
  BY <1>2 DEF Least

LEMMA ZeroIs == 0 \in Descs
BY DiskAssumption DEF Descs

LEMMA FiniteDescs ==
  /\ IsFiniteSet(Descs) /\ Cardinality(Descs) = NUM
  /\ \A T \in SUBSET Descs : IsFiniteSet(T) /\ Cardinality(T) \in Nat
<1>1. IsFiniteSet(Descs) /\ Cardinality(Descs) = NUM
  BY DiskAssumption, FS_Interval DEF Descs
<1>2. ASSUME NEW T \in SUBSET Descs
      PROVE  IsFiniteSet(T) /\ Cardinality(T) \in Nat
  BY <1>1, FS_Subset, FS_CardinalityType
<1>3. QED
  BY <1>1, <1>2

\* alloc3_desc() finds three descriptors when three are free.
LEMMA First3Is ==
  ASSUME free \subseteq Descs, Cardinality(free) >= 3
  PROVE  \E i, j, k \in free :
           /\ First3 = <<i, j, k>> /\ i # j /\ i # k /\ j # k
           /\ Cardinality(free \ {i, j, k}) = Cardinality(free) - 3
<1>1. IsFiniteSet(free) /\ Cardinality(free) \in Nat
  BY FiniteDescs
<1>2. PICK i : i = Least(free)
  OBVIOUS
<1>3. i \in free
  BY <1>1, <1>2, LeastIn, FS_EmptySet
<1>4. PICK A : A = free \ {i}
  OBVIOUS
<1>41. IsFiniteSet(A) /\ Cardinality(A) = Cardinality(free) - 1
  BY <1>1, <1>3, <1>4, FS_RemoveElement
<1>5. PICK j : j = Least(A)
  OBVIOUS
<1>6. j \in A
  BY <1>1, <1>4, <1>41, <1>5, LeastIn, FS_EmptySet
<1>7. PICK B : B = A \ {j}
  OBVIOUS
<1>8. IsFiniteSet(B) /\ Cardinality(B) = Cardinality(free) - 2
  BY <1>1, <1>41, <1>6, <1>7, FS_RemoveElement
<1>9. PICK k : k = Least(B)
  OBVIOUS
<1>10. k \in B
  BY <1>1, <1>4, <1>7, <1>8, <1>9, LeastIn, FS_EmptySet
<1>11. Cardinality(B \ {k}) = Cardinality(free) - 3
  <2>1. Cardinality(B \ {k}) = Cardinality(B) - 1
    BY <1>8, <1>10, FS_RemoveElement
  <2>2. QED
    BY <1>1, <1>8, <2>1
<1>12. B = free \ {i, j} /\ B \ {k} = free \ {i, j, k}
  BY <1>4, <1>7
<1>13. First3 = <<i, j, k>>
  BY <1>2, <1>4, <1>5, <1>9, <1>12 DEF First3
<1>14. QED
  BY <1>3, <1>4, <1>6, <1>7, <1>10, <1>11, <1>12, <1>13

\* The chain of a request that is under way.
LEMMA ChainIs ==
  ASSUME DiskTypeOK, Chains, NEW c \in Waiting
  PROVE  /\ {head[c], Data(c), Stat(c)} \subseteq Descs \ free
         /\ head[c] # Data(c) /\ head[c] # Stat(c) /\ Data(c) # Stat(c)
         /\ Chain(head[c]) = <<head[c], Data(c), Stat(c)>>
         /\ ChainSet(head[c]) = {head[c], Data(c), Stat(c)}
         /\ \A b \in Waiting \ {c} : {head[b], Data(b), Stat(b)}
                                       \cap {head[c], Data(c), Stat(c)} = {}
<1>1. c \in Clients /\ head[c] \in Descs
  BY DEF Waiting, DiskTypeOK
<1>2. Data(c) \in Descs
  BY <1>1 DEF Data, DiskTypeOK
<1>3. Stat(c) \in Descs
  BY <1>2 DEF Stat, DiskTypeOK
<1>4. head[c] # Data(c) /\ head[c] # Stat(c) /\ Data(c) # Stat(c)
  BY DEF Chains
<1>5. Chain(head[c]) = <<head[c], Data(c), Stat(c)>>
  BY DEF Chain, Chains, Data, Stat
<1>6. ChainSet(head[c]) = {head[c], Data(c), Stat(c)}
  <2>1. ChainSet(head[c]) = {<<head[c], Data(c), Stat(c)>>[k] : k \in 1..3}
    BY <1>5 DEF ChainSet
  <2>2. 1..3 = {1, 2, 3}
    OBVIOUS
  <2>3. QED
    BY <2>1, <2>2
<1>7. \A b \in Waiting \ {c} : {head[b], Data(b), Stat(b)}
                                  \cap {head[c], Data(c), Stat(c)} = {}
  BY DEF Chains
<1>8. QED
  BY <1>1, <1>2, <1>3, <1>4, <1>5, <1>6, <1>7 DEF Chains

LEMMA RingsAre ==
  InAvail = Entries(avail, seen, availId) /\ InUsed = Entries(used, usedIdx, usedId)
BY DEF InAvail, InUsed, Entries

\* The properties from the invariant.
LEMMA DiskInvServes == DiskInv => DiskServes
<1> SUFFICES ASSUME DiskInv PROVE DiskServes
  OBVIOUS
<1>1. DiskTypeOK /\ Chains /\ Covered /\ Counted /\ Rings /\ Progress /\ Sleeping
  BY DEF DiskInv
<1>2. DescriptorsConserved
  <2>1. free \cup UNION {ChainSet(head[c]) : c \in Waiting} \subseteq Descs
    <3>1. \A c \in Waiting : ChainSet(head[c]) \subseteq Descs
      BY <1>1, ChainIs
    <3>2. free \subseteq Descs
      BY <1>1 DEF DiskTypeOK
    <3>3. QED
      BY <3>1, <3>2
  <2>2. Descs \subseteq free \cup UNION {ChainSet(head[c]) : c \in Waiting}
    <3>1. ASSUME NEW i \in Descs \ free
          PROVE  \E c \in Waiting : i \in ChainSet(head[c])
      <4>1. PICK c \in Waiting : i \in {head[c], Data(c), Stat(c)}
        BY <1>1 DEF Covered
      <4>2. ChainSet(head[c]) = {head[c], Data(c), Stat(c)}
        BY <1>1, ChainIs
      <4>3. QED
        BY <4>1, <4>2
    <3>2. QED
      BY <3>1
  <2>3. free \cup UNION {ChainSet(head[c]) : c \in Waiting} = Descs
    BY <2>1, <2>2
  <2>4. Cardinality(free) + 3 * Cardinality(Waiting) = NUM
    BY <1>1 DEF Counted
  <2>5. QED
    BY <2>3, <2>4, Zenon DEF DescriptorsConserved
<1>3. RequestsTracked
  <2>1. ASSUME NEW c \in Waiting
        PROVE  Cardinality({S \in {InAvail, work, InUsed} : head[c] \in S}) <= 1
    <3>1. PICK T : T = {S \in {InAvail, work, InUsed} : head[c] \in S}
      OBVIOUS
    <3>2. \A S, Q \in T : S = Q
      BY <1>1, <3>1 DEF Rings
    <3>3. T = {} \/ \E S : T = {S}
      BY <3>2
    <3>4. Cardinality(T) <= 1
      <4>1. CASE T = {}
        BY <4>1, FS_EmptySet
      <4>2. ASSUME NEW S, T = {S}
            PROVE  Cardinality(T) <= 1
        <5>1. Cardinality(T) = 1
          BY <4>2, FS_Singleton
        <5>2. QED
          BY <5>1
      <4>3. QED
        BY <3>3, <4>1, <4>2
    <3>5. QED
      BY <3>1, <3>4
  <2>2. ASSUME NEW c \in Waiting
        PROVE  /\ info[head[c]] = c
               /\ busy[c] <=> head[c] \in InAvail \cup work \cup InUsed
               /\ result[c] = IF head[c] \in InAvail \cup work THEN "none"
                              ELSE IF head[c] \in status THEN "failed" ELSE "done"
               /\ result[c] = "failed" => busy[c]
    BY <1>1 DEF Progress, Flight
  <2>3. QED
    BY <2>1, <2>2 DEF RequestsTracked
<1>4. DiskSleepersHaveCause
  <2> SUFFICES ASSUME handler # "panicked", NEW c \in asleep
               PROVE  IF where[c] = "room" THEN Waiting \cup (AwaitRoom \ asleep) # {}
                      ELSE \/ head[c] \in InAvail \cup work
                           \/ head[c] \in InUsed /\ (isr \/ handler = "loop")
                           \/ head[c] \in InUsed \cap late
    BY DEF DiskSleepersHaveCause
  <2>1. CASE where[c] = "room"
    BY <1>1, <2>1 DEF Sleeping
  <2>2. CASE where[c] # "room"
    <3>1. c \in Waiting /\ busy[c]
      BY <1>1, <2>2 DEF Sleeping, Waiting, DiskTypeOK
    <3>2. head[c] \in Flight
      BY <1>1, <3>1 DEF Progress
    <3>3. head[c] \in InUsed => head[c] \in late \/ isr \/ handler = "loop"
      BY <1>1 DEF Sleeping
    <3>4. QED
      BY <2>2, <3>2, <3>3 DEF Flight
  <2>3. QED
    BY <2>1, <2>2
<1>5. PanicsForFailure
  <2> SUFFICES ASSUME handler = "panicked"
               PROVE  /\ usedIdx # usedId
                      /\ \E c \in Waiting : head[c] = used[usedIdx] /\ result[c] = "failed"
    BY DEF PanicsForFailure
  <2>1. usedIdx # usedId /\ used[usedIdx] \in status
    BY <1>1 DEF Sleeping
  <2>2. used[usedIdx] \in InUsed
    <3>1. used[usedIdx] \in Entries(used, usedIdx, usedId)
      BY <1>1, <2>1, RingFirst DEF DiskTypeOK
    <3>2. QED
      BY <3>1, RingsAre
  <2>3. PICK c \in Waiting : used[usedIdx] = head[c]
    BY <1>1, <2>2 DEF Rings, Flight
  <2>4. head[c] \notin InAvail \cup work
    BY <1>1, <2>2, <2>3 DEF Rings
  <2>5. result[c] = "failed"
    BY <1>1, <2>1, <2>3, <2>4 DEF Progress
  <2>6. QED
    BY <2>1, <2>3, <2>5
<1>6. QED
  BY <1>1, <1>2, <1>3, <1>4, <1>5 DEF DiskServes

-----------------------------------------------------------------------------
(* The actions. *)

LEMMA DiskInitInv == DiskInit => DiskInv
<1> SUFFICES ASSUME DiskInit PROVE DiskInv
  OBVIOUS
<1>1. 0 \in Descs /\ NoClient \notin Clients
  BY DiskAssumption DEF Descs
<1>2. Waiting = {}
  BY DEF DiskInit, Waiting
<1>3. DiskTypeOK
  <2>1. NoDesc \in [own : Clients \cup {NoClient}, part : Parts, next : Descs, more : BOOLEAN]
    BY <1>1 DEF NoDesc, Parts
  <2>2. QED
    BY <1>1, <2>1 DEF DiskInit, DiskTypeOK
<1>4. InAvail = {} /\ InUsed = {} /\ work = {}
  BY <1>1, RingEmpty DEF DiskInit, InAvail, InUsed
<1>5. Counted
  BY <1>2, FiniteDescs, FS_EmptySet, DiskAssumption DEF Counted, DiskInit
<1>6. Rings
  BY <1>1, <1>4, RingEmpty DEF Rings, OneEach, Flight, DiskInit
<1>7. Chains /\ Progress
  BY <1>2 DEF Chains, Progress
<1>8. Covered /\ Sleeping
  BY <1>4 DEF DiskInit, Covered, Sleeping
<1>9. QED
  BY <1>3, <1>5, <1>6, <1>7, <1>8 DEF DiskInv

LEMMA SubmitKeeps ==
  ASSUME DiskInv, LockFree, NEW c \in Clients, Submit(c)
  PROVE  DiskInv'
<1>1. DiskTypeOK /\ Chains /\ Covered /\ Counted /\ Rings /\ Progress /\ Sleeping
  BY DEF DiskInv
<1>2. PICK i, j, k \in free : /\ First3 = <<i, j, k>> /\ i # j /\ i # k /\ j # k
                             /\ Cardinality(free \ {i, j, k}) = Cardinality(free) - 3
  BY <1>1, First3Is DEF Submit, DiskTypeOK
<1>3. /\ free' = free \ {i, j, k}
      /\ info' = [info EXCEPT ![i] = c] /\ avail' = [avail EXCEPT ![availId] = i]
      /\ head' = [head EXCEPT ![c] = i] /\ availId' = Plus1(availId)
      /\ busy' = [busy EXCEPT ![c] = TRUE] /\ result' = [result EXCEPT ![c] = "none"]
      /\ where' = [where EXCEPT ![c] = "wait"] /\ asleep' = asleep \cup {c}
      /\ status' = status \ {i}
      /\ UNCHANGED <<used, usedId, usedIdx, seen, work, isr, handler, late>>
  BY <1>2 DEF Submit, device
<1>4. desc' = [desc EXCEPT ![i] = [own |-> c, part |-> "header", next |-> j, more |-> TRUE],
                           ![j] = [own |-> c, part |-> "data", next |-> k, more |-> TRUE],
                           ![k] = [own |-> c, part |-> "status", next |-> 0, more |-> FALSE]]
  BY <1>2 DEF Submit
<1>5. /\ {i, j, k} \subseteq Descs /\ 0 \in Descs /\ availId \in Descs /\ seen \in Descs
      /\ c \notin Waiting /\ Waiting' = Waiting \cup {c}
  <2>1. c \notin Waiting
    BY DEF Submit, MayTry, Waiting
  <2>2. Waiting' = Waiting \cup {c}
    BY <1>1, <1>3 DEF Waiting, DiskTypeOK
  <2>3. QED
    BY <1>1, <2>1, <2>2, DiskAssumption DEF DiskTypeOK, Descs
<1>6. ASSUME NEW b \in Waiting
      PROVE  /\ b # c /\ head'[b] = head[b] /\ Data(b)' = Data(b) /\ Stat(b)' = Stat(b)
             /\ desc'[head[b]] = desc[head[b]] /\ desc'[Data(b)] = desc[Data(b)]
             /\ desc'[Stat(b)] = desc[Stat(b)]
  <2>1. {head[b], Data(b), Stat(b)} \subseteq Descs \ {i, j, k}
    BY <1>1, <1>2, ChainIs
  <2>2. \A d \in Descs \ {i, j, k} : desc'[d] = desc[d]
    BY <1>1, <1>4, <1>5 DEF DiskTypeOK
  <2>3. b # c /\ head'[b] = head[b]
    BY <1>1, <1>3, <1>5 DEF Waiting, DiskTypeOK
  <2>4. Data(b)' = Data(b)
    BY <2>1, <2>2, <2>3 DEF Data
  <2>5. QED
    BY <2>1, <2>2, <2>3, <2>4 DEF Stat
<1>7. head'[c] = i /\ Data(c)' = j /\ Stat(c)' = k
  BY <1>1, <1>2, <1>3, <1>4, <1>5 DEF Data, Stat, DiskTypeOK
<1>8. DiskTypeOK'
  <2>1. desc' \in [Descs -> [own : Clients \cup {NoClient}, part : Parts, next : Descs, more : BOOLEAN]]
    BY <1>1, <1>4, <1>5 DEF DiskTypeOK, Parts
  <2>2. Plus1(availId) \in Descs
    BY <1>5, Plus1Is
  <2>3. /\ free' \subseteq Descs /\ info' \in [Descs -> Clients \cup {NoClient}]
        /\ avail' \in [Descs -> Descs] /\ head' \in [Clients -> Descs]
        /\ where' \in [Clients -> {"idle", "room", "wait"}] /\ asleep' \subseteq Clients
        /\ busy' \in [Clients -> BOOLEAN]
        /\ result' \in [Clients -> {"none", "done", "failed", "wrong"}]
    BY <1>1, <1>3, <1>5 DEF DiskTypeOK
  <2>4. QED
    BY <1>1, <1>3, <2>1, <2>2, <2>3 DEF DiskTypeOK
<1>9. Chains'
  <2>1. /\ desc'[i].own = c /\ desc'[i].part = "header" /\ desc'[i].more
        /\ desc'[j].own = c /\ desc'[j].part = "data" /\ desc'[j].more
        /\ desc'[k].own = c /\ desc'[k].part = "status" /\ ~desc'[k].more
    BY <1>1, <1>2, <1>4, <1>5 DEF DiskTypeOK
  <2>2. ASSUME NEW b \in Waiting
        PROVE  /\ desc'[head'[b]].own = b /\ desc'[head'[b]].part = "header" /\ desc'[head'[b]].more
               /\ desc'[Data(b)'].own = b /\ desc'[Data(b)'].part = "data" /\ desc'[Data(b)'].more
               /\ desc'[Stat(b)'].own = b /\ desc'[Stat(b)'].part = "status" /\ ~desc'[Stat(b)'].more
               /\ head'[b] \notin free' /\ Data(b)' \notin free' /\ Stat(b)' \notin free'
    BY <1>1, <1>3, <1>6 DEF Chains
  <2>3. QED
    BY <1>3, <1>5, <1>7, <2>1, <2>2 DEF Chains
<1>10. Covered'
  <2>1. ASSUME NEW d \in Descs, d \notin free', d \notin {i, j, k}
        PROVE  \E b \in Waiting' : d \in {head'[b], Data(b)', Stat(b)'}
    <3>1. PICK b \in Waiting : d \in {head[b], Data(b), Stat(b)}
      BY <1>1, <1>3, <2>1 DEF Covered
    <3>2. QED
      BY <1>5, <1>6, <3>1
  <2>2. QED
    BY <1>3, <1>5, <1>7, <2>1 DEF Covered
<1>11. Counted'
  <2>1. IsFiniteSet(Waiting') /\ Cardinality(Waiting') = Cardinality(Waiting) + 1
    BY <1>1, <1>5, FS_AddElement DEF Counted
  <2>2. Cardinality(free') = Cardinality(free) - 3
    BY <1>2, <1>3
  <2>3. Cardinality(Waiting) \in Nat /\ Cardinality(free) \in Nat
    BY <1>1, FS_CardinalityType, FiniteDescs DEF Counted, DiskTypeOK
  <2>4. QED
    BY <1>1, <2>1, <2>2, <2>3 DEF Counted
<1>12. Flight \subseteq Descs \ free
  BY <1>1, ChainIs DEF Rings
<1>13. /\ InAvail' = InAvail \cup {i} /\ work' = work /\ InUsed' = InUsed /\ i \notin Flight
       /\ OneEach(avail, seen, availId)'
  <2>1. i \notin Flight
    BY <1>2, <1>12
  <2>2. Off(seen, availId) < NUM - 1
    <3>1. IsFiniteSet(Descs \ free) /\ Cardinality(Descs \ free) < NUM - 1
      <4>1. Cardinality(free) >= 3 /\ free \subseteq Descs
        BY <1>1 DEF Submit, DiskTypeOK
      <4>2. Cardinality(Descs \ free) = NUM - Cardinality(free)
        <5>1. Descs \cap free = free
          BY <4>1
        <5>2. QED
          BY <5>1, FiniteDescs, FS_Difference
      <4>3. Cardinality(free) \in Nat /\ NUM \in Nat
        BY <4>1, FiniteDescs, DiskAssumption
      <4>4. QED
        BY <4>1, <4>2, <4>3, FiniteDescs
    <3>2. Entries(avail, seen, availId) \subseteq Descs \ free
      BY <1>12, RingsAre DEF Flight
    <3>3. QED
      BY <1>1, <1>5, <3>1, <3>2, RingRoom DEF Rings, DiskTypeOK
  <2>3. /\ Entries(avail', seen, Plus1(availId)) = Entries(avail, seen, availId) \cup {i}
        /\ OneEach(avail', seen, Plus1(availId))
    <3>1. i \notin Entries(avail, seen, availId)
      BY <2>1, RingsAre DEF Flight
    <3>2. OneEach(avail, seen, availId) /\ avail \in [Descs -> Descs]
      BY <1>1 DEF Rings, DiskTypeOK
    <3>3. /\ i \in Descs /\ seen \in Descs /\ availId \in Descs
          /\ avail' \in [Descs -> Descs] /\ avail' = [avail EXCEPT ![availId] = i]
      BY <1>3, <1>5, <3>2
    <3>4. \A h : h \in Entries(avail', seen, Plus1(availId)) <=> h \in Entries(avail, seen, availId) \/ h = i
      BY <2>2, <3>2, <3>3, RingAdd
    <3>5. OneEach(avail', seen, Plus1(availId))
      BY <2>2, <3>1, <3>2, <3>3, RingAdd
    <3>6. QED
      BY <3>4, <3>5
  <2>4. QED
    BY <1>3, <2>1, <2>3 DEF InAvail, InUsed, Entries, OneEach
<1>14. Rings'
  <2>1. Flight' = Flight \cup {i}
    BY <1>13 DEF Flight
  <2>2. OneEach(used, usedIdx, usedId)'
    BY <1>1, <1>3 DEF Rings, OneEach
  <2>3. \A h \in Flight' : \E b \in Waiting' : h = head'[b]
    BY <1>1, <1>5, <1>6, <1>7, <2>1 DEF Rings
  <2>4. QED
    BY <1>1, <1>13, <2>2, <2>3 DEF Rings, Flight
<1>15. Progress'
  <2>1. /\ Flight' = Flight \cup {i} /\ (InAvail \cup work)' = InAvail \cup work \cup {i}
        /\ InUsed' = InUsed
    BY <1>13 DEF Flight
  <2>2. ASSUME NEW b \in Waiting
        PROVE  /\ head[b] # i /\ info'[head[b]] = info[head[b]]
               /\ busy'[b] = busy[b] /\ result'[b] = result[b]
               /\ head[b] \in status' <=> head[b] \in status
    <3>1. b \in Clients \ {c} /\ head[b] \in Descs \ {i}
      BY <1>1, <1>2, <1>6, ChainIs DEF Waiting
    <3>2. QED
      BY <1>1, <1>3, <3>1 DEF DiskTypeOK
  <2>3. info'[i] = c /\ busy'[c] /\ result'[c] = "none" /\ i \notin status'
    BY <1>1, <1>3, <1>5 DEF DiskTypeOK
  <2>4. QED
    BY <1>1, <1>5, <1>6, <1>7, <2>1, <2>2, <2>3 DEF Progress
<1>16. Sleeping'
  <2>1. where'[c] = "wait" /\ busy'[c]
    BY <1>1, <1>3 DEF DiskTypeOK
  <2>2. \A b \in Clients \ {c} : where'[b] = where[b] /\ busy'[b] = busy[b]
    BY <1>1, <1>3 DEF DiskTypeOK
  <2>3. handler = "off" /\ InUsed' = InUsed
    BY <1>13 DEF LockFree
  <2>4. QED
    BY <1>1, <1>3, <1>5, <2>1, <2>2, <2>3 DEF Sleeping, DiskTypeOK
<1>17. QED
  BY <1>8, <1>9, <1>10, <1>11, <1>14, <1>15, <1>16 DEF DiskInv

\* A step that leaves the descriptors and the places of the requests alone.
LEMMA ChainsStay ==
  ASSUME Chains, Covered, Counted, UNCHANGED <<free, desc, head, where>>
  PROVE  Waiting' = Waiting /\ Chains' /\ Covered' /\ Counted'
<1>1. Waiting' = Waiting
  BY DEF Waiting
<1>2. \A c : Data(c)' = Data(c) /\ Stat(c)' = Stat(c)
  BY DEF Data, Stat
<1>3. Chains'
  BY <1>1, <1>2 DEF Chains
<1>4. Covered'
  BY <1>1, <1>2 DEF Covered
<1>5. Counted'
  BY <1>1 DEF Counted
<1>6. QED
  BY <1>1, <1>3, <1>4, <1>5

\* A step that leaves the rings and the device alone.
LEMMA RingsStay ==
  ASSUME UNCHANGED <<avail, availId, used, usedId, usedIdx, seen, work>>
  PROVE  /\ InAvail' = InAvail /\ InUsed' = InUsed /\ Flight' = Flight
         /\ OneEach(avail, seen, availId)' <=> OneEach(avail, seen, availId)
         /\ OneEach(used, usedIdx, usedId)' <=> OneEach(used, usedIdx, usedId)
<1>1. InAvail' = InAvail /\ InUsed' = InUsed
  BY DEF InAvail, InUsed
<1>2. QED
  BY <1>1 DEF Flight, OneEach

LEMMA NoRoomInv ==
  ASSUME DiskInv, NEW c \in Clients, NoRoom(c)
  PROVE  DiskInv'
<1>1. DiskTypeOK /\ Chains /\ Covered /\ Counted /\ Rings /\ Progress /\ Sleeping
  BY DEF DiskInv
<1>2. /\ where' = [where EXCEPT ![c] = "room"]
      /\ asleep' \subseteq asleep \cup {c}
      /\ UNCHANGED <<free, desc, info, avail, availId, used, usedId, usedIdx, seen, work,
                     status, isr, handler, head, busy, result, late>>
  BY DEF NoRoom, rings, device
<1>3. Waiting' = Waiting
  <2>1. c \notin Waiting
    BY DEF NoRoom, MayTry, Waiting
  <2>2. QED
    BY <1>1, <1>2, <2>1 DEF Waiting, DiskTypeOK
<1>4. Waiting # {}
  <2>1. Cardinality(free) < 3 /\ NUM \in Nat /\ NUM >= 3
    BY DiskAssumption DEF NoRoom
  <2>2. Cardinality(free) + 3 * Cardinality(Waiting) = NUM
    BY <1>1 DEF Counted
  <2>3. Cardinality(free) \in Nat
    BY <1>1, FiniteDescs DEF DiskTypeOK
  <2>4. Cardinality(Waiting) # 0
    BY <2>1, <2>2, <2>3
  <2>5. QED
    BY <2>4, FS_EmptySet
<1>5. DiskTypeOK'
  BY <1>1, <1>2 DEF DiskTypeOK
<1>6. \A b : Data(b)' = Data(b) /\ Stat(b)' = Stat(b)
  BY <1>2 DEF Data, Stat
<1>7. Chains'
  BY <1>1, <1>2, <1>3, <1>6 DEF Chains
<1>8. Covered'
  BY <1>1, <1>2, <1>3, <1>6 DEF Covered
<1>9. Counted'
  BY <1>1, <1>2, <1>3 DEF Counted
<1>10. Rings' /\ Progress'
  BY <1>1, <1>2, <1>3, RingsStay DEF Rings, Progress
<1>11. Sleeping'
  BY <1>1, <1>2, <1>3, <1>4, RingsStay DEF Sleeping, DiskTypeOK
<1>12. QED
  BY <1>5, <1>7, <1>8, <1>9, <1>10, <1>11 DEF DiskInv

LEMMA FinishInv ==
  ASSUME DiskInv, NEW c \in Clients, Finish(c)
  PROVE  DiskInv'
<1>1. DiskTypeOK /\ Chains /\ Covered /\ Counted /\ Rings /\ Progress /\ Sleeping
  BY DEF DiskInv
<1>2. c \in Waiting /\ c \notin asleep /\ ~busy[c] /\ head[c] \in Descs
  BY <1>1 DEF Finish, Waiting, DiskTypeOK
<1>3. PICK x, y, z \in Descs \ free :
        /\ x = head[c] /\ y = Data(c) /\ z = Stat(c) /\ x # y /\ x # z /\ y # z
        /\ ChainSet(head[c]) = {x, y, z}
        /\ \A b \in Waiting \ {c} : {head[b], Data(b), Stat(b)} \cap {x, y, z} = {}
  BY <1>1, <1>2, ChainIs
<1>4. /\ free' = free \cup {x, y, z}
      /\ desc' = [i \in Descs |-> IF i \in {x, y, z} THEN NoDesc ELSE desc[i]]
      /\ info' = [info EXCEPT ![x] = NoClient]
      /\ where' = [where EXCEPT ![c] = "idle"] /\ head' = [head EXCEPT ![c] = 0]
      /\ asleep' = asleep \ AwaitRoom /\ result' = [result EXCEPT ![c] = "none"]
      /\ UNCHANGED <<status, avail, availId, used, usedId, usedIdx, seen, work, isr, handler,
                     busy, late>>
  BY <1>3 DEF Finish, rings, device
<1>5. Waiting' = Waiting \ {c}
  BY <1>1, <1>4 DEF Waiting, DiskTypeOK
<1>6. ASSUME NEW b \in Waiting \ {c}
      PROVE  /\ head'[b] = head[b] /\ Data(b)' = Data(b) /\ Stat(b)' = Stat(b)
             /\ {head[b], Data(b), Stat(b)} \subseteq Descs \ free'
             /\ desc'[head[b]] = desc[head[b]] /\ desc'[Data(b)] = desc[Data(b)]
             /\ desc'[Stat(b)] = desc[Stat(b)]
  <2>1. {head[b], Data(b), Stat(b)} \subseteq Descs \ free
    BY <1>1, ChainIs
  <2>2. head[b] \notin {x, y, z} /\ Data(b) \notin {x, y, z} /\ Stat(b) \notin {x, y, z}
    BY <1>3
  <2>3. head'[b] = head[b]
    BY <1>1, <1>4 DEF Waiting, DiskTypeOK
  <2>4. desc'[head[b]] = desc[head[b]] /\ desc'[Data(b)] = desc[Data(b)] /\ desc'[Stat(b)] = desc[Stat(b)]
    BY <1>4, <2>1, <2>2
  <2>5. Data(b)' = Data(b)
    BY <2>3, <2>4 DEF Data
  <2>6. Stat(b)' = Stat(b)
    BY <2>4, <2>5 DEF Stat
  <2>7. QED
    BY <1>4, <2>1, <2>2, <2>3, <2>4, <2>5, <2>6
<1>7. DiskTypeOK'
  <2>1. NoDesc \in [own : Clients \cup {NoClient}, part : Parts, next : Descs, more : BOOLEAN]
    BY DiskAssumption DEF NoDesc, Parts, Descs
  <2>2. desc' \in [Descs -> [own : Clients \cup {NoClient}, part : Parts, next : Descs, more : BOOLEAN]]
    BY <1>1, <1>4, <2>1 DEF DiskTypeOK
  <2>3. /\ free' \subseteq Descs /\ info' \in [Descs -> Clients \cup {NoClient}]
        /\ head' \in [Clients -> Descs] /\ where' \in [Clients -> {"idle", "room", "wait"}]
        /\ asleep' \subseteq Clients /\ result' \in [Clients -> {"none", "done", "failed", "wrong"}]
    BY <1>1, <1>3, <1>4, ZeroIs DEF DiskTypeOK
  <2>4. QED
    BY <1>1, <1>4, <2>2, <2>3 DEF DiskTypeOK
<1>8. Chains'
  <2> SUFFICES ASSUME NEW b \in Waiting \ {c}
               PROVE  /\ desc'[head'[b]].own = b /\ desc'[head'[b]].part = "header" /\ desc'[head'[b]].more
                      /\ desc'[Data(b)'].own = b /\ desc'[Data(b)'].part = "data" /\ desc'[Data(b)'].more
                      /\ desc'[Stat(b)'].own = b /\ desc'[Stat(b)'].part = "status" /\ ~desc'[Stat(b)'].more
                      /\ head'[b] \notin free' /\ Data(b)' \notin free' /\ Stat(b)' \notin free'
    BY <1>5 DEF Chains
  <2>1. QED
    BY <1>1, <1>6 DEF Chains
<1>9. Covered'
  <2> SUFFICES ASSUME NEW i \in Descs \ free'
               PROVE  \E b \in Waiting' : i \in {head'[b], Data(b)', Stat(b)'}
    BY DEF Covered
  <2>1. PICK b \in Waiting : i \in {head[b], Data(b), Stat(b)}
    BY <1>1, <1>4 DEF Covered
  <2>2. b # c
    BY <1>3, <1>4, <2>1
  <2>3. QED
    BY <1>5, <1>6, <2>1, <2>2
<1>10. Counted'
  <2>1. IsFiniteSet(Waiting') /\ Cardinality(Waiting') = Cardinality(Waiting) - 1
    BY <1>1, <1>2, <1>5, FS_RemoveElement DEF Counted
  <2>2. Cardinality(free') = Cardinality(free) + 3
    <3>1. IsFiniteSet(free) /\ Cardinality(free) \in Nat
      BY <1>1, FiniteDescs DEF DiskTypeOK
    <3>2. PICK A : A = free \cup {x}
      OBVIOUS
    <3>3. IsFiniteSet(A) /\ Cardinality(A) = Cardinality(free) + 1
      BY <3>1, <3>2, FS_AddElement
    <3>4. PICK B : B = A \cup {y}
      OBVIOUS
    <3>5. y \notin A /\ z \notin B
      BY <1>3, <3>2, <3>4
    <3>6. IsFiniteSet(B) /\ Cardinality(B) = Cardinality(A) + 1
      BY <3>3, <3>4, <3>5, FS_AddElement
    <3>7. Cardinality(B \cup {z}) = Cardinality(B) + 1
      BY <3>5, <3>6, FS_AddElement
    <3>8. free' = B \cup {z}
      BY <1>4, <3>2, <3>4
    <3>9. QED
      BY <3>1, <3>3, <3>6, <3>7, <3>8
  <2>3. Cardinality(Waiting) \in Nat /\ Cardinality(free) \in Nat
    BY <1>1, FS_CardinalityType, FiniteDescs DEF Counted, DiskTypeOK
  <2>4. QED
    BY <1>1, <2>1, <2>2, <2>3 DEF Counted
<1>11. head[c] \notin Flight
  BY <1>1, <1>2 DEF Progress
<1>12. Rings'
  <2>1. \A h \in Flight : \E b \in Waiting \ {c} : h = head'[b]
    BY <1>1, <1>6, <1>11 DEF Rings
  <2>2. QED
    BY <1>1, <1>4, <1>5, <2>1, RingsStay DEF Rings
<1>13. Progress'
  <2>1. ASSUME NEW b \in Waiting \ {c}
        PROVE  /\ head'[b] = head[b] /\ info'[head[b]] = info[head[b]]
               /\ busy'[b] = busy[b] /\ result'[b] = result[b]
    <3>1. b \in Clients /\ head[b] \in Descs \ {x}
      BY <1>3, <1>6 DEF Waiting
    <3>2. QED
      BY <1>1, <1>4, <1>6, <3>1 DEF DiskTypeOK
  <2>2. Flight' = Flight /\ (InAvail \cup work)' = InAvail \cup work /\ InUsed' = InUsed
    BY <1>4, RingsStay
  <2>3. ASSUME NEW b \in Waiting \ {c}
        PROVE  /\ info'[head'[b]] = b
               /\ busy'[b] <=> head'[b] \in Flight'
               /\ result'[b] = IF head'[b] \in (InAvail \cup work)' THEN "none"
                              ELSE IF head'[b] \in status' THEN "failed" ELSE "done"
               /\ head'[b] \in status' => head'[b] \in InUsed'
    <3>1. /\ info[head[b]] = b
          /\ busy[b] <=> head[b] \in Flight
          /\ result[b] = IF head[b] \in InAvail \cup work THEN "none"
                        ELSE IF head[b] \in status THEN "failed" ELSE "done"
          /\ head[b] \in status => head[b] \in InUsed
      BY <1>1 DEF Progress
    <3>2. status' = status
      BY <1>4
    <3>3. QED
      BY <2>1, <2>2, <3>1, <3>2
  <2>4. QED
    BY <1>5, <2>3 DEF Progress
<1>14. Sleeping'
  <2>1. ASSUME NEW b \in asleep'
        PROVE  where'[b] = "wait" /\ busy'[b]
    <3>1. b \in asleep /\ b # c /\ where[b] # "room" /\ b \in Clients
      BY <1>1, <1>2, <1>4, <2>1 DEF AwaitRoom, DiskTypeOK
    <3>2. where[b] = "wait" /\ busy[b]
      BY <1>1, <3>1 DEF Sleeping
    <3>3. QED
      BY <1>1, <1>4, <3>1, <3>2 DEF DiskTypeOK
  <2>2. InUsed' = InUsed
    BY <1>4, RingsStay
  <2>3. QED
    BY <1>1, <1>4, <2>1, <2>2 DEF Sleeping
<1>15. QED
  BY <1>7, <1>8, <1>9, <1>10, <1>12, <1>13, <1>14 DEF DiskInv

LEMMA FetchInv ==
  ASSUME DiskInv, Fetch
  PROVE  DiskInv'
<1>1. DiskTypeOK /\ Chains /\ Covered /\ Counted /\ Rings /\ Progress /\ Sleeping
  BY DEF DiskInv
<1>2. PICK h : h = avail[seen]
  OBVIOUS
<1>3. /\ seen # availId /\ work' = work \cup {h} /\ avail' = [avail EXCEPT ![seen] = 0]
      /\ seen' = Plus1(seen)
      /\ UNCHANGED <<free, desc, info, status, availId, used, usedId, usedIdx, isr, handler,
                     where, asleep, head, busy, result, late>>
  BY <1>2 DEF Fetch, clients
<1>4. /\ seen \in Descs /\ availId \in Descs /\ avail \in [Descs -> Descs] /\ h \in Descs
      /\ seen' \in Descs /\ avail' \in [Descs -> Descs]
  <2>1. seen \in Descs /\ availId \in Descs /\ avail \in [Descs -> Descs] /\ 0 \in Descs
    BY <1>1, ZeroIs DEF DiskTypeOK
  <2>2. QED
    BY <1>2, <1>3, <2>1, Plus1Is
<1>5. DiskTypeOK'
  BY <1>1, <1>3, <1>4 DEF DiskTypeOK
<1>6. Waiting' = Waiting /\ Chains' /\ Covered' /\ Counted'
  BY <1>1, <1>3, ChainsStay
<1>7. /\ h \in InAvail /\ OneEach(avail, seen, availId)'
      /\ \A i : i \in InAvail' <=> i \in InAvail /\ i # h
  <2>1. OneEach(avail, seen, availId)
    BY <1>1 DEF Rings
  <2>2. /\ h \in Entries(avail, seen, availId) /\ OneEach(avail', Plus1(seen), availId)
        /\ \A i : i \in Entries(avail', Plus1(seen), availId)
                    <=> i \in Entries(avail, seen, availId) /\ i # h
    BY <1>2, <1>3, <1>4, <2>1, RingTake
  <2>3. QED
    BY <1>3, <2>2 DEF InAvail, Entries, OneEach
<1>8. InUsed' = InUsed /\ (OneEach(used, usedIdx, usedId)' <=> OneEach(used, usedIdx, usedId))
  BY <1>3 DEF InUsed, OneEach
<1>9. Flight' = Flight /\ (InAvail \cup work)' = InAvail \cup work
  BY <1>3, <1>7, <1>8 DEF Flight
<1>10. Rings'
  BY <1>1, <1>3, <1>6, <1>7, <1>8, <1>9 DEF Rings
<1>11. Progress'
  BY <1>1, <1>3, <1>6, <1>8, <1>9 DEF Progress
<1>12. Sleeping'
  BY <1>1, <1>3, <1>6, <1>8 DEF Sleeping
<1>13. QED
  BY <1>5, <1>6, <1>10, <1>11, <1>12 DEF DiskInv

LEMMA CompleteInv ==
  ASSUME DiskInv, NEW h \in Descs, NEW ok \in BOOLEAN, Complete(h, ok)
  PROVE  DiskInv'
<1>1. DiskTypeOK /\ Chains /\ Covered /\ Counted /\ Rings /\ Progress /\ Sleeping
  BY DEF DiskInv
<1>2. h \in work /\ h \in Flight /\ h \notin InUsed /\ h \notin InAvail
  BY <1>1 DEF Complete, Flight, Rings
<1>3. PICK c \in Waiting : h = head[c]
  BY <1>1, <1>2 DEF Rings
<1>4. result[c] = "none" /\ c \in Clients
  BY <1>1, <1>2, <1>3 DEF Progress, Waiting
<1>5. result' = [result EXCEPT ![c] = IF ok THEN "done" ELSE "failed"]
  <2>1. Chain(h) = <<h, Data(c), Stat(c)>>
    BY <1>1, <1>3, ChainIs
  <2>2. Len(Chain(h)) = 3 /\ Chain(h)[1] = h /\ Chain(h)[2] = Data(c) /\ Chain(h)[3] = Stat(c)
    BY <2>1
  <2>3. /\ desc[h].own = c /\ desc[h].part = "header" /\ desc[Data(c)].own = c
        /\ desc[Data(c)].part = "data" /\ desc[Stat(c)].part = "status"
    BY <1>1, <1>3 DEF Chains
  <2>4. \A k \in 1..3 : desc[Chain(h)[k]].part = <<"header", "data", "status">>[k]
    <3>1. \A k \in 1..3 : k = 1 \/ k = 2 \/ k = 3
      OBVIOUS
    <3>2. QED
      BY <2>2, <2>3, <3>1
  <2>5. result' = [result EXCEPT ![c] = IF result[c] = "none"
                                         THEN IF ok THEN "done" ELSE "failed" ELSE "wrong"]
    BY <2>2, <2>3, <2>4 DEF Complete
  <2>6. QED
    BY <1>4, <2>5
<1>6. /\ work' = work \ {h} /\ used' = [used EXCEPT ![usedId] = h] /\ usedId' = Plus1(usedId)
      /\ isr' = TRUE /\ status' = (IF ok THEN status \ {h} ELSE status \cup {h})
      /\ late' = (IF handler = "ack" THEN late \cup {h} ELSE late)
      /\ UNCHANGED <<free, desc, info, avail, availId, usedIdx, seen, handler,
                     where, asleep, head, busy>>
  BY DEF Complete, clients
<1>7. /\ usedIdx \in Descs /\ usedId \in Descs /\ used \in [Descs -> Descs]
      /\ usedId' \in Descs /\ used' \in [Descs -> Descs]
  <2>1. usedIdx \in Descs /\ usedId \in Descs /\ used \in [Descs -> Descs]
    BY <1>1 DEF DiskTypeOK
  <2>2. QED
    BY <1>6, <2>1, Plus1Is
<1>8. DiskTypeOK'
  <2>1. result' \in [Clients -> {"none", "done", "failed", "wrong"}]
    BY <1>1, <1>4, <1>5 DEF DiskTypeOK
  <2>2. status' \subseteq Descs /\ late' \subseteq Descs
    BY <1>1, <1>6 DEF DiskTypeOK
  <2>3. QED
    BY <1>1, <1>6, <1>7, <2>1, <2>2 DEF DiskTypeOK
<1>9. Waiting' = Waiting /\ Chains' /\ Covered' /\ Counted'
  BY <1>1, <1>6, ChainsStay
<1>10. Off(usedIdx, usedId) < NUM - 1
  <2>1. PICK d : d = Data(c)
    OBVIOUS
  <2>2. d \in Descs /\ h # d
    BY <1>1, <1>3, <2>1, ChainIs
  <2>3. PICK A : A = Descs \ {h}
    OBVIOUS
  <2>4. IsFiniteSet(A) /\ Cardinality(A) = NUM - 1 /\ d \in A
    BY <2>2, <2>3, FiniteDescs, FS_RemoveElement
  <2>5. IsFiniteSet(A \ {d}) /\ Cardinality(A \ {d}) = (NUM - 1) - 1
    BY <2>4, FS_RemoveElement
  <2>6. Cardinality(A \ {d}) < NUM - 1
    BY <2>5, DiskAssumption
  <2>7. Entries(used, usedIdx, usedId) \subseteq A \ {d}
    <3>1. ASSUME NEW i \in InUsed
          PROVE  i \in A \ {d}
      <4>1. PICK b \in Waiting : i = head[b]
        BY <1>1 DEF Rings, Flight
      <4>2. head[b] \in Descs /\ head[b] # d
        BY <1>1, <1>3, <2>1, <4>1, ChainIs
      <4>3. QED
        BY <1>2, <2>3, <4>1, <4>2
    <3>2. QED
      BY <3>1, RingsAre
  <2>8. OneEach(used, usedIdx, usedId)
    BY <1>1 DEF Rings
  <2>9. QED
    BY <1>7, <2>5, <2>6, <2>7, <2>8, RingRoom
<1>11. OneEach(used, usedIdx, usedId)' /\ \A i : i \in InUsed' <=> i \in InUsed \/ i = h
  <2>1. OneEach(used, usedIdx, usedId) /\ h \notin Entries(used, usedIdx, usedId)
    BY <1>1, <1>2, RingsAre DEF Rings
  <2>2. \A i : i \in Entries(used', usedIdx, Plus1(usedId))
                 <=> i \in Entries(used, usedIdx, usedId) \/ i = h
    BY <1>6, <1>7, <1>10, RingAdd
  <2>3. OneEach(used', usedIdx, Plus1(usedId))
    BY <1>6, <1>7, <1>10, <2>1, RingAdd
  <2>4. QED
    BY <1>6, <2>2, <2>3 DEF InUsed, Entries, OneEach
<1>12. InAvail' = InAvail /\ (OneEach(avail, seen, availId)' <=> OneEach(avail, seen, availId))
  BY <1>6 DEF InAvail, OneEach
<1>13. Flight' = Flight
  BY <1>2, <1>6, <1>11, <1>12 DEF Flight
<1>14. Rings'
  <2>1. InAvail' \cap work' = {} /\ InAvail' \cap InUsed' = {} /\ work' \cap InUsed' = {}
    BY <1>1, <1>2, <1>6, <1>11, <1>12 DEF Rings
  <2>2. \A i \in Flight' : \E b \in Waiting' : i = head'[b]
    BY <1>1, <1>6, <1>9, <1>13 DEF Rings
  <2>3. QED
    BY <1>1, <1>11, <1>12, <2>1, <2>2 DEF Rings
<1>15. Progress'
  <2>1. ASSUME NEW b \in Waiting \ {c}
        PROVE  /\ head[b] # h /\ result'[b] = result[b]
               /\ head[b] \in status' <=> head[b] \in status
    <3>1. head[b] # h
      BY <1>1, <1>3, ChainIs
    <3>2. b \in Clients
      BY DEF Waiting
    <3>3. QED
      BY <1>1, <1>5, <1>6, <3>1, <3>2 DEF DiskTypeOK
  <2>2. result'[c] = IF h \in status' THEN "failed" ELSE "done"
    BY <1>1, <1>4, <1>5, <1>6 DEF DiskTypeOK
  <2>3. h \notin InAvail' \cup work'
    BY <1>2, <1>6, <1>12
  <2>4. \A i : i # h => (i \in InAvail' \cup work' <=> i \in InAvail \cup work)
    BY <1>6, <1>12
  <2>5. QED
    BY <1>1, <1>3, <1>6, <1>9, <1>11, <1>13, <2>1, <2>2, <2>3, <2>4 DEF Progress
<1>16. Sleeping'
  <2>1. handler # "panicked" =>
          \A i \in InUsed' : i \in late' \/ (isr' /\ handler # "ack") \/ handler = "loop"
    BY <1>1, <1>6, <1>11 DEF Sleeping
  <2>2. ASSUME handler = "panicked" PROVE usedIdx # usedId' /\ used'[usedIdx] \in status'
    <3>1. usedIdx # usedId /\ used[usedIdx] \in status
      BY <1>1, <2>2 DEF Sleeping
    <3>2. usedIdx # usedId' /\ used'[usedIdx] = used[usedIdx]
      <4>1. used'[usedIdx] = used[usedIdx]
        BY <1>6, <1>7, <3>1
      <4>2. Off(usedIdx, usedId') = Off(usedIdx, usedId) + 1
        BY <1>6, <1>7, <1>10, OffSteps
      <4>3. Off(usedIdx, usedIdx) = 0 /\ Off(usedIdx, usedId) > 0
        BY <1>7, <3>1, OffSteps
      <4>4. Off(usedIdx, usedId) \in Int
        BY <1>7, OffIs DEF Descs
      <4>5. usedIdx # usedId'
        BY <4>2, <4>3, <4>4
      <4>6. QED
        BY <4>1, <4>5
    <3>3. used[usedIdx] # h
      <4>1. used[usedIdx] \in Entries(used, usedIdx, usedId)
        BY <1>7, <3>1, RingFirst
      <4>2. QED
        BY <1>2, <4>1, RingsAre
    <3>4. QED
      BY <1>6, <3>1, <3>2, <3>3
  <2>3. QED
    BY <1>1, <1>6, <1>9, <2>1, <2>2 DEF Sleeping
<1>17. QED
  BY <1>8, <1>9, <1>14, <1>15, <1>16 DEF DiskInv

LEMMA HandleInv ==
  ASSUME DiskInv, Handle
  PROVE  DiskInv'
<1>1. DiskTypeOK /\ Chains /\ Covered /\ Counted /\ Rings /\ Progress /\ Sleeping
  BY DEF DiskInv
<1>2. PICK h : h = used[usedIdx]
  OBVIOUS
<1>3. /\ handler = "loop" /\ usedIdx # usedId /\ h \notin status /\ late' = late \ {h}
      /\ busy' = [busy EXCEPT ![info[h]] = FALSE] /\ asleep' = asleep \ {info[h]}
      /\ used' = [used EXCEPT ![usedIdx] = 0] /\ usedIdx' = Plus1(usedIdx)
      /\ UNCHANGED <<free, desc, info, status, avail, availId, usedId, seen, work, isr, handler,
                     where, head, result>>
  BY <1>2 DEF Handle, device
<1>4. /\ usedIdx \in Descs /\ usedId \in Descs /\ used \in [Descs -> Descs] /\ h \in Descs
      /\ usedIdx' \in Descs /\ used' \in [Descs -> Descs]
  <2>1. usedIdx \in Descs /\ usedId \in Descs /\ used \in [Descs -> Descs] /\ 0 \in Descs
    BY <1>1, ZeroIs DEF DiskTypeOK
  <2>2. QED
    BY <1>2, <1>3, <2>1, Plus1Is
<1>5. /\ h \in InUsed /\ OneEach(used, usedIdx, usedId)'
      /\ \A i : i \in InUsed' <=> i \in InUsed /\ i # h
  <2>1. OneEach(used, usedIdx, usedId)
    BY <1>1 DEF Rings
  <2>2. /\ h \in Entries(used, usedIdx, usedId) /\ OneEach(used', Plus1(usedIdx), usedId)
        /\ \A i : i \in Entries(used', Plus1(usedIdx), usedId)
                    <=> i \in Entries(used, usedIdx, usedId) /\ i # h
    BY <1>2, <1>3, <1>4, <2>1, RingTake, ZenonT(40)
  <2>3. QED
    BY <1>3, <2>2 DEF InUsed, Entries, OneEach
<1>6. PICK c \in Waiting : h = head[c]
  BY <1>1, <1>5 DEF Rings, Flight
<1>7. info[h] = c /\ c \in Clients
  BY <1>1, <1>6 DEF Progress, Waiting
<1>8. busy' = [busy EXCEPT ![c] = FALSE] /\ asleep' = asleep \ {c}
  BY <1>3, <1>7
<1>9. DiskTypeOK'
  BY <1>1, <1>3, <1>4, <1>7, <1>8 DEF DiskTypeOK
<1>10. Waiting' = Waiting /\ Chains' /\ Covered' /\ Counted'
  BY <1>1, <1>3, ChainsStay
<1>11. InAvail' = InAvail /\ (OneEach(avail, seen, availId)' <=> OneEach(avail, seen, availId))
  BY <1>3 DEF InAvail, OneEach
<1>12. \A i : i \in Flight' <=> i \in Flight /\ i # h
  BY <1>1, <1>3, <1>5, <1>11 DEF Flight, Rings
<1>13. Rings'
  <2>1. InAvail' \cap work' = {} /\ InAvail' \cap InUsed' = {} /\ work' \cap InUsed' = {}
    BY <1>1, <1>3, <1>5, <1>11 DEF Rings
  <2>2. \A i \in Flight' : \E b \in Waiting' : i = head'[b]
    BY <1>1, <1>3, <1>10, <1>12 DEF Rings
  <2>3. QED
    BY <1>1, <1>5, <1>11, <2>1, <2>2 DEF Rings
<1>14. Progress'
  <2>1. ASSUME NEW b \in Waiting \ {c} PROVE head[b] # h /\ busy'[b] = busy[b]
    <3>1. head[b] # h
      BY <1>1, <1>6, ChainIs
    <3>2. b \in Clients
      BY DEF Waiting
    <3>3. QED
      BY <1>1, <1>8, <3>1, <3>2 DEF DiskTypeOK
  <2>2. ~busy'[c]
    BY <1>1, <1>7, <1>8 DEF DiskTypeOK
  <2>3. QED
    BY <1>1, <1>3, <1>5, <1>6, <1>10, <1>11, <1>12, <2>1, <2>2 DEF Progress
<1>15. Sleeping'
  <2>1. \A b \in asleep' : b \in asleep /\ b # c /\ busy'[b] = busy[b]
    BY <1>1, <1>8 DEF DiskTypeOK
  <2>2. QED
    BY <1>1, <1>3, <1>10, <2>1 DEF Sleeping
<1>16. QED
  BY <1>9, <1>10, <1>13, <1>14, <1>15 DEF DiskInv

LEMMA HandlerInv ==
  ASSUME DiskInv,
         Interrupt \/ HandlerPanics \/ HandlerDone \/ Acknowledge \/ UNCHANGED diskVars
  PROVE  DiskInv'
<1>1. DiskTypeOK /\ Chains /\ Covered /\ Counted /\ Rings /\ Progress /\ Sleeping
  BY DEF DiskInv
<1>2. /\ UNCHANGED <<free, desc, info, status, avail, availId, used, usedId, usedIdx, seen,
                     work, where, asleep, head, busy, result, late>>
      /\ isr' \in BOOLEAN /\ handler' \in {"off", "loop", "ack", "panicked"}
  BY <1>1 DEF Interrupt, HandlerPanics, HandlerDone, Acknowledge, diskVars, rings, device,
              clients, DiskTypeOK
<1>3. DiskTypeOK'
  BY <1>1, <1>2 DEF DiskTypeOK
<1>4. Waiting' = Waiting /\ Chains' /\ Covered' /\ Counted'
  BY <1>1, <1>2, ChainsStay
<1>5. Rings' /\ Progress' /\ InUsed' = InUsed
  BY <1>1, <1>2, <1>4, RingsStay DEF Rings, Progress
<1>6. /\ handler' # "panicked" =>
           \A h \in InUsed : h \in late \/ (isr' /\ handler' # "ack") \/ handler' = "loop"
      /\ handler' = "panicked" => usedIdx # usedId /\ used[usedIdx] \in status
  <2>1. CASE Interrupt
    BY <2>1 DEF Interrupt
  <2>2. CASE HandlerPanics
    BY <2>2 DEF HandlerPanics
  <2>3. CASE HandlerDone
    <3>1. InUsed = {}
      BY <1>1, <2>3, RingEmpty DEF HandlerDone, InUsed, DiskTypeOK
    <3>2. QED
      BY <2>3, <3>1 DEF HandlerDone
  <2>4. CASE Acknowledge
    BY <1>1, <2>4 DEF Acknowledge, Sleeping
  <2>5. CASE UNCHANGED diskVars
    BY <1>1, <2>5 DEF diskVars, Sleeping
  <2>6. QED
    BY <2>1, <2>2, <2>3, <2>4, <2>5
<1>7. Sleeping'
  BY <1>1, <1>2, <1>4, <1>5, <1>6 DEF Sleeping
<1>8. QED
  BY <1>3, <1>4, <1>5, <1>7 DEF DiskInv

\* Each request is performed once, with its own buffer, and its process is told of it
\* unless it failed, when the handler panics - and only then; descriptors are given
\* back.  Until that panic, who sleeps for descriptors has a request in flight to wait
\* for, and who sleeps for a buffer has the device, an interrupt or the handler, or was
\* reported between the handler's loop and its acknowledgement and not handled since.
\* virtio_disk_rw() and virtio_disk_intr(), for any number of processes and
\* descriptors, whatever order the device works in.
THEOREM DiskAlwaysServes == DiskSpec => []DiskServes
<1>1. DiskInit => DiskInv
  BY DiskInitInv
<1>2. DiskInv /\ [DiskNext]_diskVars => DiskInv'
  <2> SUFFICES ASSUME DiskInv, [DiskNext]_diskVars PROVE DiskInv'
    OBVIOUS
  <2>1. ASSUME LockFree, NEW c \in Clients, Submit(c) PROVE DiskInv'
    BY <2>1, SubmitKeeps
  <2>2. ASSUME NEW c \in Clients, NoRoom(c) PROVE DiskInv'
    BY <2>2, NoRoomInv
  <2>3. ASSUME NEW c \in Clients, Finish(c) PROVE DiskInv'
    BY <2>3, FinishInv
  <2>4. CASE Fetch
    BY <2>4, FetchInv
  <2>5. ASSUME NEW h \in Descs, NEW ok \in BOOLEAN, Complete(h, ok) PROVE DiskInv'
    BY <2>5, CompleteInv
  <2>6. CASE Handle
    BY <2>6, HandleInv
  <2>7. CASE Interrupt \/ HandlerPanics \/ HandlerDone \/ Acknowledge \/ UNCHANGED diskVars
    BY <2>7, HandlerInv
  <2>8. QED
    BY <2>1, <2>2, <2>3, <2>4, <2>5, <2>6, <2>7 DEF DiskNext
<1>3. QED
  BY <1>1, <1>2, DiskInvServes, PTL DEF DiskSpec

-----------------------------------------------------------------------------
(* trap.c, plic.c and sys_sleep() *)

Naps == [at : {"out", "tested", "asleep", "runnable", "zero", "minus1", "exited"}, n : Int,
         ticks0 : 0..(TickWrap - 1), killed : BOOLEAN]
Counts == [ticks : Nat, fires : Nat, killed : Nat]

TrapTypes ==
  /\ ssip \in [Harts -> BOOLEAN]
  /\ trapAt \in [Harts -> {"run", "soft", "softack", "claim", "handle", "complete"}]
  /\ irqOf \in [Harts -> Irqs \cup {NoIrq}]
  /\ line \subseteq Irqs /\ raised \subseteq Irqs /\ inService \subseteq Irqs
  /\ ticks \in 0..(TickWrap - 1)
  /\ sleeper \in [Sleepers -> Naps] /\ slept \in [Sleepers -> Counts]

\* A hart has an interrupt only between plic_claim() and plic_complete().
Claims == \A h \in Harts : irqOf[h] # NoIrq => trapAt[h] \in {"handle", "complete"}

\* Each tick is a timer interrupt of its own, but for one that was pending.
SoftPending == \A h \in Harts : trapAt[h] = "soft" => ssip[h]
TicksFired ==
  \A p \in Sleepers :
    /\ slept[p].ticks <= slept[p].fires + 1
    /\ ssip[Hart0] /\ trapAt[Hart0] # "softack" => slept[p].ticks <= slept[p].fires

\* What a nap has seen: Elapsed counts the ticks, up to the wrap of the counter.
NapOK(s, v) ==
  /\ s.at # "out" => s.n < TickWrap /\ Elapsed(s) = v.ticks % TickWrap
  /\ s.at = "zero" /\ s.n >= 0 => v.ticks >= s.n
  /\ s.at \in {"tested", "asleep"} => Elapsed(s) < s.n % TickWrap /\ (s.killed => v.killed = v.ticks)
  /\ s.at = "minus1" => s.killed
NapsOK == \A p \in Sleepers : NapOK(sleeper[p], slept[p])

TrapInv == TrapTypes /\ IrqsServed /\ Claims /\ SoftPending /\ TicksFired /\ NapsOK

LEMMA TrapInvSound == TrapInv => TicksSound
<1> SUFFICES ASSUME TrapInv PROVE TicksSound
  OBVIOUS
<1>1. TrapTypes /\ IrqsServed /\ TicksFired /\ NapsOK
  BY DEF TrapInv
<1>2. SleepsExact
  <2> SUFFICES ASSUME NEW p \in Sleepers
               PROVE  LET s == sleeper[p] IN
                        /\ s.at = "zero" /\ s.n >= 0 => slept[p].ticks >= s.n /\ slept[p].fires >= s.n - 1
                        /\ s.at = "asleep" => slept[p].ticks % TickWrap < s.n % TickWrap
                        /\ s.at = "asleep" /\ s.killed => slept[p].killed = slept[p].ticks
                        /\ s.at = "minus1" => s.killed
    BY DEF SleepsExact
  <2>1. NapOK(sleeper[p], slept[p]) /\ slept[p].ticks <= slept[p].fires + 1
    BY <1>1 DEF NapsOK, TicksFired
  <2>2. sleeper[p].n \in Int /\ slept[p].ticks \in Nat /\ slept[p].fires \in Nat
    BY <1>1 DEF TrapTypes, Naps, Counts
  <2>3. QED
    BY <2>1, <2>2 DEF NapOK
<1>3. QED
  BY <1>1, <1>2 DEF TicksSound

LEMMA ElapsedIs ==
  ASSUME TrapTypes, NEW s \in Naps
  PROVE  Elapsed(s) = IF ticks < s.ticks0 THEN ticks - s.ticks0 + TickWrap ELSE ticks - s.ticks0
<1>1. ticks \in 0..(TickWrap - 1) /\ s.ticks0 \in 0..(TickWrap - 1) /\ TickWrap \in Nat \ {0}
  BY TrapsAssumption DEF TrapTypes, Naps
<1>2. QED
  BY <1>1, ModDifference DEF Elapsed

\* The loop of sys_sleep(), from what the nap has seen.
LEMMA LoopIs ==
  ASSUME NEW s \in Naps
  PROVE  /\ SleepLoop(s) \in Naps /\ Elapsed(SleepLoop(s)) = Elapsed(s)
         /\ SleepLoop(s).n = s.n /\ SleepLoop(s).killed = s.killed
         /\ SleepLoop(s).at = IF Elapsed(s) < s.n % TickWrap
                              THEN IF s.killed THEN "minus1" ELSE "tested" ELSE "zero"
<1>1. SleepLoop(s) = [s EXCEPT !.at = IF Elapsed(s) < s.n % TickWrap
                                      THEN IF s.killed THEN "minus1" ELSE "tested" ELSE "zero"]
  BY DEF SleepLoop
<1>2. QED
  BY <1>1 DEF Naps, Elapsed

LEMMA LoopOK ==
  ASSUME TrapTypes, NEW s \in Naps, NEW v \in Counts,
         s.n < TickWrap, Elapsed(s) = v.ticks % TickWrap
  PROVE  SleepLoop(s) \in Naps /\ NapOK(SleepLoop(s), v)
<1> DEFINE t == SleepLoop(s)
<1>1. /\ t \in Naps /\ Elapsed(t) = Elapsed(s) /\ t.n = s.n /\ t.killed = s.killed
      /\ t.at = IF Elapsed(s) < s.n % TickWrap THEN IF s.killed THEN "minus1" ELSE "tested" ELSE "zero"
  BY LoopIs
<1> HIDE DEF t
<1>2. TickWrap \in Nat \ {0} /\ v.ticks \in Nat /\ s.n \in Int /\ s.killed \in BOOLEAN
  BY TrapsAssumption DEF Counts, Naps
<1>3. v.ticks % TickWrap <= v.ticks /\ v.ticks % TickWrap \in 0..(TickWrap - 1)
  BY <1>2, ModLess
<1>4. ASSUME s.n >= 0 PROVE s.n % TickWrap = s.n
  <2>1. PICK m \in Nat : m = s.n
    BY <1>2, <1>4
  <2>2. m < TickWrap => m % TickWrap = m
    BY <1>2, ModLess
  <2>3. QED
    BY <2>1, <2>2
<1>5. t.at = "zero" /\ t.n >= 0 => v.ticks >= t.n
  BY <1>1, <1>2, <1>3, <1>4
<1>6. t.at \in {"tested", "asleep"} => Elapsed(t) < t.n % TickWrap /\ ~t.killed
  BY <1>1
<1>7. t.at = "minus1" => t.killed
  BY <1>1
<1>8. QED
  BY <1>1, <1>5, <1>6, <1>7 DEF NapOK, t

LEMMA WokenIs ==
  ASSUME NEW s \in Naps
  PROVE  /\ WokenUp(s) \in Naps /\ WokenUp(s).n = s.n /\ WokenUp(s).ticks0 = s.ticks0
         /\ WokenUp(s).killed = s.killed
         /\ WokenUp(s).at = IF s.at = "asleep" THEN "runnable" ELSE s.at
BY DEF WokenUp, Naps

LEMMA AwakeIs == Awake \in Naps /\ Awake.at = "out"
<1>1. 0 \in 0..(TickWrap - 1)
  BY TrapsAssumption
<1>2. QED
  BY <1>1 DEF Awake, Naps

\* The actions of a hart, of a device and of a process that sleeps.
HartStep(h) == \/ TimerFires(h) \/ SoftwareTrap(h) \/ Clock(h) \/ AckSoftware(h)
               \/ ExternalTrap(h) \/ Claim(h) \/ Serve1(h) \/ CompleteIrq(h)
NapStep(p) == SleepCall(p) \/ FallsAsleep(p) \/ SleepGoesOn(p) \/ KillSleeper(p) \/ SleepReturns(p)

\* What has been counted since the call stays, or is forgotten by a new call.
LessSlept(v, u) == u = Unslept \/ (u.ticks = v.ticks /\ u.fires = v.fires)

\* A step of the process in sys_sleep(): its record, and no other, changes to what is in order.
LEMMA NapSteps ==
  ASSUME TrapInv, NEW p \in Sleepers, NapStep(p)
  PROVE  /\ sleeper' \in [Sleepers -> Naps] /\ slept' \in [Sleepers -> Counts]
         /\ \A q \in Sleepers : NapOK(sleeper'[q], slept'[q])
         /\ \A q \in Sleepers : LessSlept(slept[q], slept'[q])
         /\ UNCHANGED <<ssip, trapAt, plicVars, ticks, fires>>
<1>1. TrapTypes /\ NapsOK
  BY DEF TrapInv
<1>2. /\ sleeper \in [Sleepers -> Naps] /\ slept \in [Sleepers -> Counts]
      /\ sleeper[p] \in Naps /\ slept[p] \in Counts /\ NapOK(sleeper[p], slept[p])
  BY <1>1 DEF TrapTypes, NapsOK
<1>3. Unslept \in Counts
  BY DEF Counts, Unslept
<1>4. UNCHANGED <<ssip, trapAt, plicVars, ticks, fires>>
  BY DEF NapStep, SleepCall, FallsAsleep, SleepGoesOn, KillSleeper, SleepReturns
<1>5. PICK s, v : s = sleeper[p] /\ v = slept[p]
  OBVIOUS
<1>6. \E t \in Naps, u \in Counts :
        /\ sleeper' = [sleeper EXCEPT ![p] = t] /\ slept' = [slept EXCEPT ![p] = u]
        /\ NapOK(t, u) /\ LessSlept(v, u)
  <2>1. CASE SleepCall(p)
    <3>1. PICK n \in Durations : sleeper' = [sleeper EXCEPT ![p] = SleepLoop([s EXCEPT !.n = n, !.ticks0 = ticks])]
      BY <1>5, <2>1 DEF SleepCall
    <3>2. PICK c : c = [s EXCEPT !.n = n, !.ticks0 = ticks]
      OBVIOUS
    <3>3. c \in Naps /\ c.n = n /\ c.ticks0 = ticks /\ ticks \in 0..(TickWrap - 1)
      BY <1>1, <1>2, <1>5, <3>2, TrapsAssumption DEF Naps, TrapTypes
    <3>4. n < TickWrap /\ TickWrap \in Nat \ {0}
      BY TrapsAssumption
    <3>5. Elapsed(c) = 0
      BY <1>1, <3>3, ElapsedIs
    <3>6. 0 % TickWrap = 0
      BY <3>4, ModLess
    <3>7. PICK u \in Counts : u = Unslept
      BY <1>3
    <3>8. u.ticks = 0
      BY <3>7 DEF Unslept
    <3>9. SleepLoop(c) \in Naps /\ NapOK(SleepLoop(c), u)
      BY <1>1, <3>3, <3>4, <3>5, <3>6, <3>8, LoopOK
    <3>10. slept' = [slept EXCEPT ![p] = u]
      BY <2>1, <3>7 DEF SleepCall
    <3>11. sleeper' = [sleeper EXCEPT ![p] = SleepLoop(c)]
      BY <3>1, <3>2
    <3>12. QED
      BY <3>7, <3>9, <3>10, <3>11 DEF LessSlept
  <2>2. CASE SleepGoesOn(p)
    <3>1. sleeper' = [sleeper EXCEPT ![p] = SleepLoop(s)] /\ s.at = "runnable" /\ slept' = slept
      BY <1>5, <2>2 DEF SleepGoesOn
    <3>2. s \in Naps /\ v \in Counts /\ s.n < TickWrap /\ Elapsed(s) = v.ticks % TickWrap
      BY <1>2, <1>5, <3>1 DEF NapOK
    <3>3. SleepLoop(s) \in Naps /\ NapOK(SleepLoop(s), v)
      BY <1>1, <3>2, LoopOK
    <3>4. slept' = [slept EXCEPT ![p] = v]
      BY <1>2, <1>5, <3>1
    <3>5. QED
      BY <3>1, <3>2, <3>3, <3>4 DEF LessSlept
  <2>3. CASE KillSleeper(p)
    <3>1. PICK t : t = [WokenUp(s) EXCEPT !.killed = TRUE]
      OBVIOUS
    <3>2. sleeper' = [sleeper EXCEPT ![p] = t] /\ slept' = [slept EXCEPT ![p].killed = v.ticks]
      BY <1>5, <2>3, <3>1 DEF KillSleeper
    <3>3. PICK w1 \in Naps : w1 = WokenUp(s) /\ w1.n = s.n /\ w1.ticks0 = s.ticks0
                           /\ w1.at = IF s.at = "asleep" THEN "runnable" ELSE s.at
      BY <1>2, <1>5, WokenIs
    <3>4. /\ t \in Naps /\ t.n = s.n /\ t.ticks0 = s.ticks0 /\ t.killed
          /\ t.at = IF s.at = "asleep" THEN "runnable" ELSE s.at
      BY <3>1, <3>3 DEF Naps
    <3>5. Elapsed(t) = Elapsed(s)
      BY <3>4 DEF Elapsed
    <3>6. s.at = "out" <=> t.at = "out"
      BY <3>4
    <3>7. PICK u \in Counts : /\ u = [v EXCEPT !.killed = v.ticks]
                              /\ u.ticks = v.ticks /\ u.fires = v.fires /\ u.killed = u.ticks
      <4>1. PICK u : u = [v EXCEPT !.killed = v.ticks]
        OBVIOUS
      <4>2. u \in Counts /\ u.ticks = v.ticks /\ u.fires = v.fires /\ u.killed = u.ticks
        BY <1>2, <1>5, <4>1 DEF Counts
      <4>3. QED
        BY <4>1, <4>2
    <3>8. slept' = [slept EXCEPT ![p] = u]
      BY <1>2, <1>5, <3>2, <3>7
    <3>9. NapOK(t, u)
      BY <1>2, <1>5, <3>4, <3>5, <3>6, <3>7 DEF NapOK
    <3>10. QED
      BY <3>2, <3>4, <3>7, <3>8, <3>9 DEF LessSlept
  <2>4. CASE SleepReturns(p)
    <3>1. slept' = [slept EXCEPT ![p] = v] /\ v \in Counts
      BY <1>2, <1>5, <2>4 DEF SleepReturns
    <3>2. s \in Naps /\ s.at # "out" /\ NapOK(s, v)
      BY <1>2, <1>5, <2>4 DEF SleepReturns
    <3>3. CASE s.killed
      <4>1. PICK t : t = [s EXCEPT !.at = "exited"]
        OBVIOUS
      <4>2. sleeper' = [sleeper EXCEPT ![p] = t]
        BY <1>5, <2>4, <3>3, <4>1 DEF SleepReturns
      <4>3. t \in Naps /\ t.n = s.n /\ t.ticks0 = s.ticks0 /\ t.at = "exited"
        BY <3>2, <4>1 DEF Naps
      <4>4. Elapsed(t) = Elapsed(s)
        BY <4>3 DEF Elapsed
      <4>5. NapOK(t, v)
        BY <3>2, <4>3, <4>4 DEF NapOK
      <4>6. QED
        BY <3>1, <4>2, <4>3, <4>5 DEF LessSlept
    <3>4. CASE ~s.killed
      <4>1. sleeper' = [sleeper EXCEPT ![p] = Awake]
        BY <1>5, <2>4, <3>4 DEF SleepReturns
      <4>2. NapOK(Awake, v)
        BY AwakeIs DEF NapOK
      <4>3. QED
        BY <3>1, <4>1, <4>2, AwakeIs DEF LessSlept
    <3>5. QED
      BY <3>3, <3>4
  <2>5. CASE FallsAsleep(p)
    <3>1. PICK t : t = [s EXCEPT !.at = "asleep"]
      OBVIOUS
    <3>2. sleeper' = [sleeper EXCEPT ![p] = t] /\ s.at = "tested"
      BY <1>2, <1>5, <2>5, <3>1 DEF FallsAsleep
    <3>3. /\ t \in Naps /\ t.n = s.n /\ t.ticks0 = s.ticks0 /\ t.killed = s.killed
          /\ t.at = "asleep"
      BY <1>2, <1>5, <3>1 DEF Naps
    <3>4. Elapsed(t) = Elapsed(s)
      BY <3>3 DEF Elapsed
    <3>5. NapOK(t, v)
      BY <1>2, <1>5, <3>2, <3>3, <3>4 DEF NapOK
    <3>6. slept' = [slept EXCEPT ![p] = v] /\ v \in Counts
      BY <1>2, <1>5, <2>5 DEF FallsAsleep
    <3>7. QED
      BY <3>2, <3>3, <3>5, <3>6 DEF LessSlept
  <2>6. QED
    BY <2>1, <2>2, <2>3, <2>4, <2>5 DEF NapStep
<1>7. PICK t \in Naps, u \in Counts :
        /\ sleeper' = [sleeper EXCEPT ![p] = t] /\ slept' = [slept EXCEPT ![p] = u]
        /\ NapOK(t, u) /\ LessSlept(v, u)
  BY <1>6
<1>8. sleeper' \in [Sleepers -> Naps] /\ slept' \in [Sleepers -> Counts]
  BY <1>2, <1>7
<1>9. ASSUME NEW q \in Sleepers
      PROVE  /\ NapOK(sleeper'[q], slept'[q])
             /\ LessSlept(slept[q], slept'[q])
  <2>1. CASE q = p
    BY <1>2, <1>5, <1>7, <2>1
  <2>2. CASE q # p
    <3>1. sleeper'[q] = sleeper[q] /\ slept'[q] = slept[q]
      BY <1>2, <1>7, <2>2
    <3>2. QED
      BY <1>1, <3>1 DEF NapsOK, LessSlept
  <2>3. QED
    BY <2>1, <2>2
<1>10. QED
  BY <1>4, <1>8, <1>9

LEMMA TrapInitInv == TrapsInit => TrapInv
<1> SUFFICES ASSUME TrapsInit PROVE TrapInv
  OBVIOUS
<1>1. TrapTypes
  <2>1. {0, TickWrap - 1} \subseteq 0..(TickWrap - 1)
    BY TrapsAssumption
  <2>2. Unslept \in Counts
    BY DEF Counts, Unslept
  <2>3. QED
    BY <2>1, <2>2, AwakeIs DEF TrapsInit, TrapTypes
<1>2. IrqsServed /\ Claims /\ SoftPending
  BY DEF TrapsInit, IrqsServed, Claims, SoftPending
<1>3. TicksFired
  BY DEF TrapsInit, TicksFired, Unslept
<1>4. NapsOK
  BY AwakeIs DEF TrapsInit, NapsOK, NapOK
<1>5. QED
  BY <1>1, <1>2, <1>3, <1>4 DEF TrapInv

\* The interrupts: the steps of a hart and of a device,
LEMMA IrqsKept ==
  ASSUME TrapInv, \/ \E h \in Harts : HartStep(h)
                  \/ \E i \in Irqs : DeviceRaises(i)
  PROVE  IrqsServed' /\ Claims' /\ SoftPending'
<1>1. TrapTypes /\ IrqsServed /\ Claims /\ SoftPending
  BY DEF TrapInv
<1>2. ASSUME NEW h \in Harts, TimerFires(h) \/ SoftwareTrap(h) \/ Clock(h) \/ AckSoftware(h) \/ ExternalTrap(h)
      PROVE  IrqsServed' /\ Claims' /\ SoftPending'
  <2>1. UNCHANGED plicVars
    BY <1>2 DEF TimerFires, SoftwareTrap, Clock, AckSoftware, ExternalTrap
  <2>2. IrqsServed'
    BY <1>1, <2>1 DEF IrqsServed, plicVars
  <2>3. irqOf[h] # NoIrq => trapAt'[h] = trapAt[h]
    BY <1>1, <1>2 DEF Claims, TimerFires, SoftwareTrap, Clock, AckSoftware, ExternalTrap, GoesTo
  <2>4. \A g \in Harts \ {h} : trapAt'[g] = trapAt[g]
    BY <1>1, <1>2 DEF TrapTypes, TimerFires, SoftwareTrap, Clock, AckSoftware, ExternalTrap, GoesTo
  <2>5. Claims'
    BY <1>1, <2>1, <2>3, <2>4 DEF Claims, plicVars
  <2>6. SoftPending'
    BY <1>1, <1>2 DEF SoftPending, TrapTypes, TimerFires, SoftwareTrap, Clock, AckSoftware,
                      ExternalTrap, GoesTo
  <2>7. QED
    BY <2>2, <2>5, <2>6
<1>3. ASSUME NEW h \in Harts, Claim(h)
      PROVE  IrqsServed' /\ Claims' /\ SoftPending'
  <2>1. trapAt[h] = "claim" /\ irqOf[h] = NoIrq
    BY <1>1, <1>3 DEF Claim, GoesTo, Claims
  <2>2. CASE UNCHANGED <<irqOf, raised, inService>> /\ raised = {} /\ GoesTo(h, "claim", "run")
    BY <1>1, <1>3, <2>1, <2>2 DEF Claim, GoesTo, IrqsServed, Claims, SoftPending, TrapTypes
  <2>3. CASE \E i \in raised :
               /\ GoesTo(h, "claim", "handle") /\ irqOf' = [irqOf EXCEPT ![h] = i]
               /\ raised' = raised \ {i} /\ inService' = inService \cup {i}
    <3>1. PICK i \in raised :
               /\ trapAt' = [trapAt EXCEPT ![h] = "handle"] /\ irqOf' = [irqOf EXCEPT ![h] = i]
               /\ raised' = raised \ {i} /\ inService' = inService \cup {i}
      BY <2>3 DEF GoesTo
    <3>2. line' = line /\ ssip' = ssip
      BY <1>3 DEF Claim
    <3>3. i # NoIrq /\ i \notin inService /\ i \in Irqs
      BY <1>1, TrapsAssumption DEF IrqsServed, TrapTypes
    <3>4. irqOf'[h] = i /\ \A g \in Harts \ {h} : irqOf'[g] = irqOf[g]
      BY <1>1, <3>1 DEF TrapTypes
    <3>5. \A g \in Harts : irqOf[g] # i
      BY <1>1, <3>3 DEF IrqsServed
    <3>6. inService' = {irqOf'[g] : g \in Harts} \ {NoIrq}
      BY <1>1, <2>1, <3>1, <3>3, <3>4 DEF IrqsServed
    <3>7. \A k \in line' : k \in raised' \/ \E g \in Harts : irqOf'[g] = k
      <4>1. ASSUME NEW k \in line PROVE k \in raised' \/ \E g \in Harts : irqOf'[g] = k
        <5>1. k # NoIrq
          BY <1>1, TrapsAssumption DEF TrapTypes
        <5>2. QED
          BY <1>1, <2>1, <3>1, <3>4, <5>1 DEF IrqsServed
      <4>2. QED
        BY <3>2, <4>1
    <3>8. raised' \cap inService' = {}
      BY <1>1, <3>1 DEF IrqsServed
    <3>9. \A g, f \in Harts : g # f /\ irqOf'[g] # NoIrq => irqOf'[g] # irqOf'[f]
      BY <1>1, <3>4, <3>5 DEF IrqsServed
    <3>10. IrqsServed'
      BY <3>6, <3>7, <3>8, <3>9 DEF IrqsServed
    <3>11. Claims' /\ SoftPending'
      BY <1>1, <3>1, <3>2, <3>4 DEF Claims, SoftPending, TrapTypes
    <3>12. QED
      BY <3>10, <3>11
  <2>4. QED
    BY <1>3, <2>2, <2>3 DEF Claim
<1>4. ASSUME NEW h \in Harts, Serve1(h)
      PROVE  IrqsServed' /\ Claims' /\ SoftPending'
  BY <1>1, <1>4 DEF Serve1, GoesTo, IrqsServed, Claims, SoftPending, TrapTypes
<1>5. ASSUME NEW h \in Harts, CompleteIrq(h)
      PROVE  IrqsServed' /\ Claims' /\ SoftPending'
  <2>1. /\ trapAt' = [trapAt EXCEPT ![h] = "run"] /\ irqOf' = [irqOf EXCEPT ![h] = NoIrq]
        /\ inService' = inService \ {irqOf[h]} /\ raised' = raised \cup (line \cap {irqOf[h]})
        /\ line' = line /\ ssip' = ssip
    BY <1>5 DEF CompleteIrq, GoesTo
  <2>2. irqOf'[h] = NoIrq /\ \A g \in Harts \ {h} : irqOf'[g] = irqOf[g]
    BY <1>1, <2>1 DEF TrapTypes
  <2>3. \A g, f \in Harts : g # f /\ irqOf'[g] # NoIrq => irqOf'[g] # irqOf'[f]
    BY <1>1, <2>2 DEF IrqsServed
  <2>4. inService' = {irqOf'[g] : g \in Harts} \ {NoIrq}
    <3>1. ASSUME NEW k PROVE k \in inService' <=> k \in {irqOf'[g] : g \in Harts} \ {NoIrq}
      BY <1>1, <2>1, <2>2 DEF IrqsServed
    <3>2. QED
      BY <3>1
  <2>5. \A k \in line' : k \in raised' \/ \E g \in Harts : irqOf'[g] = k
    BY <1>1, <2>1, <2>2 DEF IrqsServed
  <2>6. raised' \cap inService' = {}
    BY <1>1, <2>1 DEF IrqsServed
  <2>7. IrqsServed'
    BY <2>3, <2>4, <2>5, <2>6 DEF IrqsServed
  <2>8. Claims' /\ SoftPending'
    BY <1>1, <2>1, <2>2 DEF Claims, SoftPending, TrapTypes
  <2>9. QED
    BY <2>7, <2>8
<1>6. ASSUME NEW i \in Irqs, DeviceRaises(i)
      PROVE  IrqsServed' /\ Claims' /\ SoftPending'
  <2>1. /\ line' = line \cup {i} /\ raised' = IF i \in inService THEN raised ELSE raised \cup {i}
        /\ UNCHANGED <<ssip, trapAt, irqOf, inService>>
    BY <1>6 DEF DeviceRaises
  <2>2. \A k \in line' : k \in raised' \/ \E g \in Harts : irqOf'[g] = k
    BY <1>1, <2>1 DEF IrqsServed
  <2>3. QED
    BY <1>1, <2>1, <2>2 DEF IrqsServed, Claims, SoftPending
<1>7. QED
  BY <1>2, <1>3, <1>4, <1>5, <1>6 DEF HartStep

\* and the ticks, which only clockintr() of Hart0 counts.
LEMMA TypesAndTicks ==
  ASSUME TrapInv, \/ \E h \in Harts : HartStep(h)
                  \/ \E i \in Irqs : DeviceRaises(i)
  PROVE  TrapTypes' /\ TicksFired' /\ NapsOK'
<1>1. TrapTypes /\ SoftPending /\ TicksFired /\ NapsOK
  BY DEF TrapInv
<1>2. ASSUME NEW h \in Harts, TimerFires(h)
      PROVE  TrapTypes' /\ TicksFired' /\ NapsOK'
  <2>1. ssip' = [ssip EXCEPT ![h] = TRUE] /\ UNCHANGED <<trapAt, irqOf, line, raised, inService, ticks, sleeper>>
    BY <1>2 DEF TimerFires, plicVars
  <2>2. ASSUME NEW p \in Sleepers
        PROVE  /\ slept'[p] \in Counts /\ slept'[p].ticks = slept[p].ticks
               /\ slept'[p].fires = slept[p].fires + (IF h = Hart0 THEN 1 ELSE 0)
               /\ slept'[p].killed = slept[p].killed
    BY <1>1, <1>2 DEF TimerFires, TrapTypes, Counts
  <2>3. slept' \in [Sleepers -> Counts]
    BY <1>1, <1>2, <2>2 DEF TimerFires, TrapTypes
  <2>4. TrapTypes'
    BY <1>1, <2>1, <2>3 DEF TrapTypes
  <2>5. TicksFired'
    <3> SUFFICES ASSUME NEW p \in Sleepers
                 PROVE  /\ slept'[p].ticks <= slept'[p].fires + 1
                        /\ (ssip'[Hart0] /\ trapAt'[Hart0] # "softack" => slept'[p].ticks <= slept'[p].fires)
      BY DEF TicksFired
    <3>1. slept[p].ticks \in Nat /\ slept[p].fires \in Nat
      BY <1>1 DEF TrapTypes, Counts
    <3>2. CASE h = Hart0
      BY <1>1, <2>1, <2>2, <3>1, <3>2 DEF TicksFired
    <3>3. CASE h # Hart0
      <4>1. ssip'[Hart0] = ssip[Hart0]
        BY <1>1, <2>1, <3>3, TrapsAssumption DEF TrapTypes
      <4>2. QED
        BY <1>1, <2>1, <2>2, <3>1, <3>3, <4>1 DEF TicksFired
    <3>4. QED
      BY <3>2, <3>3
  <2>6. NapsOK'
    BY <1>1, <2>1, <2>2 DEF NapsOK, NapOK, Elapsed
  <2>7. QED
    BY <2>4, <2>5, <2>6
<1>3. ASSUME NEW h \in Harts, Clock(h), h = Hart0
      PROVE  TrapTypes' /\ TicksFired' /\ NapsOK'
  <2>1. /\ trapAt[h] = "soft" /\ trapAt' = [trapAt EXCEPT ![h] = "softack"]
        /\ TickslockFree /\ ticks' = (ticks + 1) % TickWrap
        /\ sleeper' = [p \in Sleepers |-> WokenUp(sleeper[p])]
        /\ slept' = [p \in Sleepers |-> [slept[p] EXCEPT !.ticks = @ + 1]]
        /\ UNCHANGED <<ssip, irqOf, line, raised, inService>>
    BY <1>3 DEF Clock, GoesTo, Wakes, plicVars
  <2>2. ticks \in 0..(TickWrap - 1) /\ TickWrap \in Nat \ {0}
    BY <1>1, TrapsAssumption DEF TrapTypes
  <2>3. ticks' = IF ticks = TickWrap - 1 THEN 0 ELSE ticks + 1
    <3>1. 1 \in 0..TickWrap
      BY <2>2
    <3>2. (ticks + 1) % TickWrap = IF ticks + 1 < TickWrap THEN ticks + 1 ELSE ticks + 1 - TickWrap
      BY <2>2, <3>1, ModSum
    <3>3. QED
      BY <2>1, <2>2, <3>2
  <2>4. ASSUME NEW p \in Sleepers
        PROVE  /\ slept'[p] \in Counts /\ slept'[p].ticks = slept[p].ticks + 1
               /\ slept'[p].fires = slept[p].fires
    BY <1>1, <2>1 DEF TrapTypes, Counts
  <2>5. ASSUME NEW p \in Sleepers
        PROVE  /\ sleeper'[p] \in Naps /\ sleeper'[p].n = sleeper[p].n
               /\ sleeper'[p].ticks0 = sleeper[p].ticks0 /\ sleeper'[p].killed = sleeper[p].killed
               /\ sleeper'[p].at = IF sleeper[p].at = "asleep" THEN "runnable" ELSE sleeper[p].at
    <3>1. sleeper[p] \in Naps /\ sleeper'[p] = WokenUp(sleeper[p])
      BY <1>1, <2>1 DEF TrapTypes
    <3>2. QED
      BY <3>1, WokenIs
  <2>6. TrapTypes'
    <3>1. slept' \in [Sleepers -> Counts] /\ sleeper' \in [Sleepers -> Naps]
      BY <2>1, <2>4, <2>5
    <3>2. ticks' \in 0..(TickWrap - 1)
      BY <2>2, <2>3
    <3>3. QED
      BY <1>1, <2>1, <3>1, <3>2 DEF TrapTypes
  <2>7. TicksFired'
    <3> SUFFICES ASSUME NEW p \in Sleepers
                 PROVE  /\ slept'[p].ticks <= slept'[p].fires + 1
                        /\ (ssip'[Hart0] /\ trapAt'[Hart0] # "softack" => slept'[p].ticks <= slept'[p].fires)
      BY DEF TicksFired
    <3>1. slept[p].ticks \in Nat /\ slept[p].fires \in Nat
      BY <1>1 DEF TrapTypes, Counts
    <3>2. ssip[Hart0] /\ trapAt[Hart0] = "soft"
      BY <1>1, <1>3, <2>1 DEF SoftPending
    <3>3. trapAt'[Hart0] = "softack"
      BY <1>1, <1>3, <2>1 DEF TrapTypes
    <3>4. slept[p].ticks <= slept[p].fires
      BY <1>1, <3>2 DEF TicksFired
    <3>5. QED
      BY <2>4, <3>1, <3>3, <3>4
  <2>8. NapsOK'
    <3>1. ASSUME NEW p \in Sleepers
          PROVE  LET t == sleeper'[p]  b == slept'[p].ticks IN
                   /\ t.at # "out" => t.n < TickWrap
                   /\ t.at # "out" => (ticks' - t.ticks0) % TickWrap = b % TickWrap
                   /\ (t.at = "zero" /\ t.n >= 0) => b >= t.n
                   /\ t.at \notin {"tested", "asleep"}
                   /\ t.at = "minus1" => t.killed
      <4>1. PICK s \in Naps : s = sleeper[p]
        BY <1>1 DEF TrapTypes
      <4>2. PICK t \in Naps : /\ t = sleeper'[p] /\ t.n = s.n /\ t.ticks0 = s.ticks0
                              /\ t.killed = s.killed
                              /\ t.at = IF s.at = "asleep" THEN "runnable" ELSE s.at
        BY <2>5, <4>1
      <4>3. PICK a \in Nat : a = slept[p].ticks
        BY <1>1 DEF TrapTypes, Counts
      <4>4. NapOK(s, slept[p])
        BY <1>1, <4>1 DEF NapsOK
      <4>5. s.at # "out" => (ticks' - t.ticks0) % TickWrap = (a + 1) % TickWrap
        <5>1. SUFFICES ASSUME s.at # "out" PROVE (ticks' - t.ticks0) % TickWrap = (a + 1) % TickWrap
          OBVIOUS
        <5>2. s.ticks0 \in 0..(TickWrap - 1) /\ ticks' \in 0..(TickWrap - 1)
          BY <2>2, <2>3 DEF Naps
        <5>3. a % TickWrap = IF ticks < s.ticks0 THEN ticks - s.ticks0 + TickWrap ELSE ticks - s.ticks0
          BY <1>1, <4>3, <4>4, <5>1, ElapsedIs DEF NapOK
        <5>4. (ticks' - s.ticks0) % TickWrap
                = IF ticks' < s.ticks0 THEN ticks' - s.ticks0 + TickWrap ELSE ticks' - s.ticks0
          BY <2>2, <5>2, ModDifference
        <5>5. (a + 1) % TickWrap = IF a % TickWrap = TickWrap - 1 THEN 0 ELSE (a % TickWrap) + 1
          BY <2>2, ModPlus1
        <5>6. QED
          BY <2>2, <2>3, <4>2, <5>2, <5>3, <5>4, <5>5
      <4>6. slept'[p].ticks = a + 1
        BY <2>4, <4>3
      <4>7. t.at = "zero" /\ t.n >= 0 => a + 1 >= t.n
        <5>1. t.at = "zero" /\ t.n >= 0 => a >= t.n
          BY <4>2, <4>3, <4>4 DEF NapOK
        <5>2. QED
          BY <5>1, <4>3 DEF Naps
      <4>8. /\ t.at \notin {"tested", "asleep"} /\ (t.at = "minus1" => t.killed)
            /\ (t.at = "out" <=> s.at = "out")
        BY <2>1, <4>1, <4>2, <4>4 DEF NapOK, TickslockFree
      <4>9. t.at # "out" => t.n < TickWrap
        BY <4>2, <4>4, <4>8 DEF NapOK
      <4>10. QED
        BY <4>2, <4>5, <4>6, <4>7, <4>8, <4>9
    <3>2. QED
      BY <3>1 DEF NapsOK, NapOK, Elapsed
  <2>9. QED
    BY <2>6, <2>7, <2>8
<1>4. ASSUME NEW h \in Harts, (Clock(h) /\ h # Hart0) \/ SoftwareTrap(h) \/ AckSoftware(h) \/ ExternalTrap(h)
      PROVE  TrapTypes' /\ TicksFired' /\ NapsOK'
  <2>1. UNCHANGED <<irqOf, line, raised, inService, ticks, sleeper, slept>>
    BY <1>4 DEF Clock, SoftwareTrap, AckSoftware, ExternalTrap, plicVars, timeVars
  <2>2. TrapTypes'
    BY <1>1, <1>4, <2>1 DEF TrapTypes, Clock, SoftwareTrap, AckSoftware, ExternalTrap, GoesTo
  <2>3. ssip'[Hart0] /\ trapAt'[Hart0] # "softack" => ssip[Hart0] /\ trapAt[Hart0] # "softack"
    BY <1>1, <1>4, TrapsAssumption DEF TrapTypes, Clock, SoftwareTrap, AckSoftware, ExternalTrap, GoesTo
  <2>4. TicksFired'
    BY <1>1, <2>1, <2>3 DEF TicksFired
  <2>5. NapsOK'
    BY <1>1, <2>1 DEF NapsOK, NapOK, Elapsed
  <2>6. QED
    BY <2>2, <2>4, <2>5
<1>5. ASSUME NEW h \in Harts, Claim(h) \/ Serve1(h) \/ CompleteIrq(h)
      PROVE  TrapTypes' /\ TicksFired' /\ NapsOK'
  <2>1. UNCHANGED <<ssip, ticks, sleeper, slept>>
    BY <1>5 DEF Claim, Serve1, CompleteIrq, timeVars
  <2>2. TrapTypes'
    BY <1>1, <1>5, <2>1 DEF TrapTypes, Claim, Serve1, CompleteIrq, GoesTo
  <2>3. trapAt'[Hart0] # "softack" => trapAt[Hart0] # "softack"
    BY <1>1, <1>5, TrapsAssumption DEF TrapTypes, Claim, Serve1, CompleteIrq, GoesTo
  <2>4. TicksFired'
    BY <1>1, <2>1, <2>3 DEF TicksFired
  <2>5. NapsOK'
    BY <1>1, <2>1 DEF NapsOK, NapOK, Elapsed
  <2>6. QED
    BY <2>2, <2>4, <2>5
<1>6. ASSUME NEW i \in Irqs, DeviceRaises(i)
      PROVE  TrapTypes' /\ TicksFired' /\ NapsOK'
  <2>1. UNCHANGED <<ssip, trapAt, irqOf, inService, ticks, sleeper, slept>>
    BY <1>6 DEF DeviceRaises, timeVars
  <2>2. TrapTypes'
    BY <1>1, <1>6, <2>1 DEF TrapTypes, DeviceRaises
  <2>3. TicksFired' /\ NapsOK'
    BY <1>1, <2>1 DEF TicksFired, NapsOK, NapOK, Elapsed
  <2>4. QED
    BY <2>2, <2>3
<1>7. QED
  BY <1>2, <1>3, <1>4, <1>5, <1>6 DEF HartStep

\* sleep(n) lasts n ticks, every tick is a timer interrupt, a kill is overlooked by
\* sys_sleep() no longer than to the next tick, and every device that wants to be
\* served is: for any harts, devices, sleepers and durations, and across the wrap of
\* ticks.
THEOREM TicksAlwaysSound == TrapsSpec => []TicksSound
<1>1. TrapsInit => TrapInv
  BY TrapInitInv
<1>2. TrapInv /\ [TrapsNext]_trapVars => TrapInv'
  <2> SUFFICES ASSUME TrapInv, [TrapsNext]_trapVars PROVE TrapInv'
    OBVIOUS
  <2>1. CASE (\E h \in Harts : HartStep(h)) \/ \E i \in Irqs : DeviceRaises(i)
    BY <2>1, IrqsKept, TypesAndTicks DEF TrapInv
  <2>2. ASSUME NEW p \in Sleepers, NapStep(p) PROVE TrapInv'
    <3>1. /\ sleeper' \in [Sleepers -> Naps] /\ slept' \in [Sleepers -> Counts]
          /\ \A q \in Sleepers : NapOK(sleeper'[q], slept'[q])
          /\ \A q \in Sleepers : LessSlept(slept[q], slept'[q])
          /\ UNCHANGED <<ssip, trapAt, irqOf, line, raised, inService, ticks>>
      BY <2>2, NapSteps DEF plicVars
    <3>2. TrapTypes'
      BY <3>1 DEF TrapInv, TrapTypes
    <3>3. IrqsServed' /\ Claims' /\ SoftPending'
      BY <3>1 DEF TrapInv, IrqsServed, Claims, SoftPending
    <3>4. TicksFired'
      BY <3>1 DEF TrapInv, TicksFired, LessSlept, Unslept
    <3>5. NapsOK'
      BY <3>1 DEF NapsOK, NapOK, Elapsed
    <3>6. QED
      BY <3>2, <3>3, <3>4, <3>5 DEF TrapInv
  <2>3. CASE UNCHANGED trapVars
    <3>1. UNCHANGED <<ssip, trapAt, irqOf, line, raised, inService, ticks, sleeper, slept>>
      BY <2>3 DEF trapVars
    <3>2. QED
      BY <3>1 DEF TrapInv, TrapTypes, IrqsServed, Claims, SoftPending, TicksFired, NapsOK, NapOK, Elapsed
  <2>4. QED
    BY <2>1, <2>2, <2>3 DEF TrapsNext, HartStep, NapStep
<1>3. QED
  BY <1>1, <1>2, TrapInvSound, PTL DEF TrapsSpec

-----------------------------------------------------------------------------
(* A stretch of a ring, as a sequence. *)

RingOf(S, V) == [0..(S - 1) -> V]

\* The cell of the k-th element of the stretch that starts at a.
Cell(S, a, k) == (a + k - 1) % S

\* b is n cells on from a.
Ahead(S, a, n, b) == b % S = (a + n) % S

Wrote(d, c, x, g) == g = [d EXCEPT ![c] = x]
Same(d, S, a, g, b, n) == \A k \in 1..n : g[Cell(S, b, k)] = d[Cell(S, a, k)]

LEMMA CellIn ==
  ASSUME NEW S \in Nat \ {0}, NEW a \in Nat, NEW k \in Nat
  PROVE  Cell(S, a, k) \in 0..(S - 1)
<1>1. PICK m \in Int : m = a + k - 1
  OBVIOUS
<1>2. QED
  BY <1>1, ModInt DEF Cell

LEMMA CellFirst ==
  ASSUME NEW S \in Nat \ {0}, NEW a \in Nat
  PROVE  Cell(S, a, 1) = a % S
<1>1. a + 1 - 1 = a
  OBVIOUS
<1>2. QED
  BY <1>1 DEF Cell

LEMMA CellsApart ==
  ASSUME NEW S \in Nat \ {0}, NEW a \in Nat, NEW j \in 1..S, NEW k \in 1..S, j # k
  PROVE  Cell(S, a, j) # Cell(S, a, k)
<1>1. ASSUME NEW x \in 1..S, NEW y \in 1..S, x < y PROVE Cell(S, a, x) # Cell(S, a, y)
  <2>1. PICK b \in Int : b = a + x - 1
    OBVIOUS
  <2>2. PICK m \in 1..(S - 1) : m = y - x
    BY <1>1
  <2>3. (b + m) % S # b % S
    BY ModApart
  <2>4. b + m = a + y - 1
    BY <2>1, <2>2
  <2>5. QED
    BY <2>1, <2>3, <2>4 DEF Cell
<1>2. j < k \/ k < j
  OBVIOUS
<1>3. QED
  BY <1>1, <1>2

LEMMA CellShift ==
  ASSUME NEW S \in Nat \ {0}, NEW a \in Nat, NEW b \in Nat, NEW n \in Nat, Ahead(S, a, n, b),
         NEW k \in Nat, NEW i \in Nat, i = n + k
  PROVE  Cell(S, b, k) = Cell(S, a, i)
<1>1. PICK c \in Int : c = a + n
  OBVIOUS
<1>2. PICK m \in Int : m = k - 1
  OBVIOUS
<1>3. c % S = b % S /\ b \in Int
  BY <1>1 DEF Ahead
<1>4. (c + m) % S = (b + m) % S
  BY <1>3, ModAdd
<1>5. c + m = a + i - 1 /\ b + m = b + k - 1
  BY <1>1, <1>2
<1>6. QED
  BY <1>4, <1>5 DEF Cell

LEMMA RingLen ==
  ASSUME NEW S \in Nat \ {0}, NEW V, NEW d \in RingOf(S, V), NEW a \in Nat, NEW n \in Nat
  PROVE  Ring(d, S, a, n) \in Seq(V) /\ Len(Ring(d, S, a, n)) = n
<1>1. ASSUME NEW k \in 1..n PROVE d[Cell(S, a, k)] \in V
  <2>0. k \in Nat
    OBVIOUS
  <2>1. Cell(S, a, k) \in 0..(S - 1)
    BY <2>0, CellIn
  <2>2. QED
    BY <2>1 DEF RingOf
<1>2. Ring(d, S, a, n) = [k \in 1..n |-> d[Cell(S, a, k)]]
  BY DEF Ring, Cell
<1>3. Ring(d, S, a, n) \in [1..n -> V]
  BY <1>1, <1>2
<1>4. Ring(d, S, a, n) \in Seq(V)
  BY <1>3, SeqDef
<1>5. Len(Ring(d, S, a, n)) = n
  BY <1>3, <1>4, LenProperties
<1>6. QED
  BY <1>4, <1>5

LEMMA RingElts ==
  ASSUME NEW S, NEW d, NEW a, NEW n
  PROVE  \A k \in 1..n : Ring(d, S, a, n)[k] = d[Cell(S, a, k)]
BY DEF Ring, Cell

Stretch(d, S, a, n, s) == /\ s = Ring(d, S, a, n) /\ Len(s) = n
                          /\ \A k \in 1..n : s[k] = d[Cell(S, a, k)]

LEMMA RingIs ==
  ASSUME NEW S \in Nat \ {0}, NEW V, NEW d \in RingOf(S, V), NEW a \in Nat, NEW n \in Nat
  PROVE  \E s \in Seq(V) : Stretch(d, S, a, n, s)
<1>1. Ring(d, S, a, n) \in Seq(V) /\ Len(Ring(d, S, a, n)) = n
  BY RingLen
<1>2. \A k \in 1..n : Ring(d, S, a, n)[k] = d[Cell(S, a, k)]
  BY RingElts
<1>3. Stretch(d, S, a, n, Ring(d, S, a, n))
  BY <1>1, <1>2 DEF Stretch
<1>4. QED
  BY <1>1, <1>3

\* Two stretches that hold the same, cell by cell.
LEMMA RingSame ==
  ASSUME NEW S \in Nat \ {0}, NEW V, NEW d \in RingOf(S, V), NEW g \in RingOf(S, V),
         NEW a \in Nat, NEW b \in Nat, NEW n \in Nat, Same(d, S, a, g, b, n)
  PROVE  Ring(g, S, b, n) = Ring(d, S, a, n)
<1>1a. PICK s \in Seq(V) : Stretch(d, S, a, n, s)
  BY RingIs
<1>1. s = Ring(d, S, a, n) /\ Len(s) = n /\ \A k \in 1..n : s[k] = d[Cell(S, a, k)]
  BY <1>1a DEF Stretch
<1>2a. PICK t \in Seq(V) : Stretch(g, S, b, n, t)
  BY RingIs
<1>2. t = Ring(g, S, b, n) /\ Len(t) = n /\ \A k \in 1..n : t[k] = g[Cell(S, b, k)]
  BY <1>2a DEF Stretch
<1>3. \A k \in 1..n : s[k] = t[k]
  BY <1>1, <1>2 DEF Same
<1>4. s = t
  BY <1>1, <1>2, <1>3, SeqEqual
<1>5. QED
  BY <1>1, <1>2, <1>4

\* A cell past the stretch is written.
LEMMA RingFrame ==
  ASSUME NEW S \in Nat \ {0}, NEW V, NEW d \in RingOf(S, V), NEW g \in RingOf(S, V),
         NEW a \in Nat, NEW n \in Nat, NEW m \in Nat, n < m, m <= S, NEW x,
         Wrote(d, Cell(S, a, m), x, g)
  PROVE  Ring(g, S, a, n) = Ring(d, S, a, n)
<1>1. ASSUME NEW k \in 1..n PROVE g[Cell(S, a, k)] = d[Cell(S, a, k)]
  <2>1. k \in 1..S /\ m \in 1..S /\ k # m /\ k \in Nat
    OBVIOUS
  <2>2. Cell(S, a, k) # Cell(S, a, m)
    BY <2>1, CellsApart
  <2>3. Cell(S, a, k) \in 0..(S - 1)
    BY <2>1, CellIn
  <2>4. QED
    BY <2>2, <2>3 DEF RingOf, Wrote
<1>2. Same(d, S, a, g, a, n)
  BY <1>1 DEF Same
<1>3. QED
  BY <1>2, RingSame

LEMMA RingAppend ==
  ASSUME NEW S \in Nat \ {0}, NEW V, NEW d \in RingOf(S, V), NEW g \in RingOf(S, V),
         NEW a \in Nat, NEW n \in Nat, NEW m \in Nat, m = n + 1, m <= S, NEW x \in V,
         Wrote(d, Cell(S, a, m), x, g)
  PROVE  Ring(g, S, a, m) = Append(Ring(d, S, a, n), x)
<1>1. n < m
  OBVIOUS
<1>2. Ring(g, S, a, n) = Ring(d, S, a, n)
  BY <1>1, RingFrame
<1>3a. PICK s \in Seq(V) : Stretch(g, S, a, n, s)
  BY RingIs
<1>3. s = Ring(g, S, a, n) /\ Len(s) = n /\ \A k \in 1..n : s[k] = g[Cell(S, a, k)]
  BY <1>3a DEF Stretch
<1>4a. PICK t \in Seq(V) : Stretch(g, S, a, m, t)
  BY RingIs
<1>4. t = Ring(g, S, a, m) /\ Len(t) = m /\ \A k \in 1..m : t[k] = g[Cell(S, a, k)]
  BY <1>4a DEF Stretch
<1>5. g[Cell(S, a, m)] = x
  <2>1. Cell(S, a, m) \in 0..(S - 1)
    BY CellIn
  <2>2. QED
    BY <2>1 DEF RingOf, Wrote
<1>6. /\ Append(s, x) \in Seq(V) /\ Len(Append(s, x)) = m /\ Append(s, x)[m] = x
      /\ \A k \in 1..n : Append(s, x)[k] = s[k]
  BY <1>3, AppendProperties
<1>7. ASSUME NEW k \in 1..m PROVE Append(s, x)[k] = t[k]
  <2>1. CASE k \in 1..n
    BY <1>3, <1>4, <1>6, <2>1
  <2>2. CASE k = m
    BY <1>4, <1>5, <1>6, <2>2
  <2>3. k \in 1..n \/ k = m
    OBVIOUS
  <2>4. QED
    BY <2>1, <2>2, <2>3
<1>8. Append(s, x) = t
  BY <1>4, <1>6, <1>7, SeqEqual
<1>9. QED
  BY <1>2, <1>3, <1>4, <1>8

LEMMA RingSplit ==
  ASSUME NEW S \in Nat \ {0}, NEW V, NEW d \in RingOf(S, V),
         NEW a \in Nat, NEW n \in Nat, NEW m \in Nat, NEW b \in Nat, Ahead(S, a, n, b),
         NEW p \in Nat, p = n + m
  PROVE  Ring(d, S, a, p) = Ring(d, S, a, n) \o Ring(d, S, b, m)
<1>1a. PICK s \in Seq(V) : Stretch(d, S, a, n, s)
  BY RingIs
<1>1. s = Ring(d, S, a, n) /\ Len(s) = n /\ \A k \in 1..n : s[k] = d[Cell(S, a, k)]
  BY <1>1a DEF Stretch
<1>2a. PICK t \in Seq(V) : Stretch(d, S, b, m, t)
  BY RingIs
<1>2. t = Ring(d, S, b, m) /\ Len(t) = m /\ \A k \in 1..m : t[k] = d[Cell(S, b, k)]
  BY <1>2a DEF Stretch
<1>4a. PICK u \in Seq(V) : Stretch(d, S, a, p, u)
  BY RingIs
<1>4. u = Ring(d, S, a, p) /\ Len(u) = p /\ \A k \in 1..p : u[k] = d[Cell(S, a, k)]
  BY <1>4a DEF Stretch
<1>5. /\ s \o t \in Seq(V) /\ Len(s \o t) = p
      /\ \A k \in 1..p : (s \o t)[k] = IF k <= n THEN s[k] ELSE t[k - n]
  <2>1. /\ s \o t \in Seq(V) /\ Len(s \o t) = Len(s) + Len(t)
        /\ \A k \in 1..(Len(s) + Len(t)) : (s \o t)[k] = IF k <= Len(s) THEN s[k] ELSE t[k - Len(s)]
    BY ConcatProperties
  <2>2. QED
    BY <1>1, <1>2, <2>1
<1>6. ASSUME NEW k \in 1..p PROVE (s \o t)[k] = u[k]
  <2>1. CASE k <= n
    <3>1. k \in 1..n
      BY <2>1
    <3>2. (s \o t)[k] = s[k]
      BY <1>5, <2>1
    <3>3. QED
      BY <1>1, <1>4, <3>1, <3>2
  <2>2. CASE k > n
    <3>1. PICK i \in 1..m : i = k - n
      BY <2>2
    <3>2. i \in Nat /\ k \in Nat /\ k = n + i
      BY <3>1
    <3>3. Cell(S, b, i) = Cell(S, a, k)
      BY <3>2, CellShift
    <3>4. (s \o t)[k] = t[i]
      BY <1>5, <2>2, <3>1
    <3>5. QED
      BY <1>2, <1>4, <3>3, <3>4
  <2>3. k <= n \/ k > n
    OBVIOUS
  <2>4. QED
    BY <2>1, <2>2, <2>3
<1>7. s \o t = u
  BY <1>4, <1>5, <1>6, SeqEqual
<1>8. QED
  BY <1>1, <1>2, <1>4, <1>7

LEMMA RingRest ==
  ASSUME NEW S \in Nat \ {0}, NEW V, NEW d \in RingOf(S, V), NEW g \in RingOf(S, V),
         NEW a \in Nat, NEW n \in Nat, NEW m \in Nat, n = m + 1, n <= S,
         NEW b \in Nat, Ahead(S, a, 1, b), NEW x, Wrote(d, Cell(S, a, 1), x, g)
  PROVE  /\ Ring(d, S, a, n) # <<>> /\ Head(Ring(d, S, a, n)) = d[Cell(S, a, 1)]
         /\ Ring(g, S, b, m) = Tail(Ring(d, S, a, n))
<1>1a. PICK s \in Seq(V) : Stretch(d, S, a, n, s)
  BY RingIs
<1>1. s = Ring(d, S, a, n) /\ Len(s) = n /\ \A k \in 1..n : s[k] = d[Cell(S, a, k)]
  BY <1>1a DEF Stretch
<1>2. s # <<>>
  BY <1>1, EmptySeq
<1>4. /\ Tail(s) \in Seq(V) /\ Len(Tail(s)) = m /\ \A k \in 1..m : Tail(s)[k] = s[k + 1]
      /\ Head(s) = s[1]
  <2>1. Tail(s) \in Seq(V) /\ Len(Tail(s)) = Len(s) - 1 /\ \A k \in 1..Len(Tail(s)) : Tail(s)[k] = s[k + 1]
    BY <1>2, HeadTailProperties
  <2>2. Head(s) = s[1]
    BY <1>2
  <2>3. QED
    BY <1>1, <2>1, <2>2
<1>6a. PICK t \in Seq(V) : Stretch(g, S, b, m, t)
  BY RingIs
<1>6. t = Ring(g, S, b, m) /\ Len(t) = m /\ \A k \in 1..m : t[k] = g[Cell(S, b, k)]
  BY <1>6a DEF Stretch
<1>7. ASSUME NEW k \in 1..m PROVE t[k] = Tail(s)[k]
  <2>1. PICK i \in 1..n : i = 1 + k
    OBVIOUS
  <2>2. k \in Nat /\ 1 \in Nat /\ 1 \in 1..S /\ i \in 1..S /\ 1 # i /\ i \in Nat
    BY <2>1
  <2>3. Cell(S, b, k) = Cell(S, a, i)
    BY <2>1, <2>2, CellShift
  <2>4. Cell(S, a, i) # Cell(S, a, 1)
    BY <2>2, CellsApart
  <2>5. Cell(S, a, i) \in 0..(S - 1)
    BY <2>2, CellIn
  <2>6. g[Cell(S, a, i)] = d[Cell(S, a, i)]
    BY <2>4, <2>5 DEF RingOf, Wrote
  <2>7. t[k] = d[Cell(S, a, i)]
    BY <1>6, <2>3, <2>6
  <2>8. k + 1 = i
    BY <2>1
  <2>9. Tail(s)[k] = s[i]
    BY <1>4, <2>8
  <2>10. QED
    BY <1>1, <2>7, <2>9
<1>8. t = Tail(s)
  BY <1>4, <1>6, <1>7, SeqEqual
<1>9. Head(s) = d[Cell(S, a, 1)]
  <2>1. 1 \in 1..n
    OBVIOUS
  <2>2. QED
    BY <1>1, <1>4, <2>1
<1>10. QED
  BY <1>1, <1>2, <1>6, <1>8, <1>9

LEMMA RingFront ==
  ASSUME NEW S \in Nat \ {0}, NEW V, NEW d \in RingOf(S, V), NEW g \in RingOf(S, V),
         NEW a \in Nat, NEW n \in Nat, NEW m \in Nat, n = m + 1, n <= S,
         NEW x, Wrote(d, Cell(S, a, n), x, g)
  PROVE  /\ Ring(d, S, a, n) # <<>> /\ Len(Ring(d, S, a, n)) = n
         /\ Ring(g, S, a, m) = SubSeq(Ring(d, S, a, n), 1, m)
<1>1. m < n
  OBVIOUS
<1>2. Ring(g, S, a, m) = Ring(d, S, a, m)
  BY <1>1, RingFrame
<1>3a. PICK s \in Seq(V) : Stretch(d, S, a, n, s)
  BY RingIs
<1>3. s = Ring(d, S, a, n) /\ Len(s) = n /\ \A k \in 1..n : s[k] = d[Cell(S, a, k)]
  BY <1>3a DEF Stretch
<1>4. s # <<>>
  BY <1>3, EmptySeq
<1>5a. PICK t \in Seq(V) : Stretch(d, S, a, m, t)
  BY RingIs
<1>5. t = Ring(d, S, a, m) /\ Len(t) = m /\ \A k \in 1..m : t[k] = d[Cell(S, a, k)]
  BY <1>5a DEF Stretch
<1>6. SubSeq(s, 1, m) \in Seq(V) /\ Len(SubSeq(s, 1, m)) = m /\ \A k \in 1..m : SubSeq(s, 1, m)[k] = s[k]
  <2>1. 1 \in Int /\ m \in Int /\ \A k \in 1..m : s[k] \in V
    <3>1. \A k \in 1..m : k \in 1..n
      OBVIOUS
    <3>2. s \in [1..n -> V]
      BY <1>3, LenProperties
    <3>3. QED
      BY <3>1, <3>2
  <2>2. SubSeq(s, 1, m) \in Seq(V) /\ Len(SubSeq(s, 1, m)) = (IF 1 <= m THEN m - 1 + 1 ELSE 0)
        /\ \A k \in 1..(m - 1 + 1) : SubSeq(s, 1, m)[k] = s[1 + k - 1]
    BY <2>1, SubSeqProperties
  <2>3. m - 1 + 1 = m /\ \A k \in 1..m : 1 + k - 1 = k
    OBVIOUS
  <2>4. QED
    BY <2>2, <2>3
<1>7. \A k \in 1..m : SubSeq(s, 1, m)[k] = t[k]
  <2>1. \A k \in 1..m : k \in 1..n
    OBVIOUS
  <2>2. QED
    BY <1>3, <1>5, <1>6, <2>1
<1>8. SubSeq(s, 1, m) = t
  BY <1>5, <1>6, <1>7, SeqEqual
<1>9. QED
  BY <1>2, <1>3, <1>4, <1>5, <1>8

-----------------------------------------------------------------------------
(* console.c and uart.c: the indices. *)

Idx == 0..(IndexWrap - 1)

LEMMA ConsSizes ==
  /\ INPUT_BUF \in Nat \ {0} /\ IndexWrap \in Nat \ {0} /\ UART_TX_BUF_SIZE \in Nat \ {0}
  /\ INPUT_BUF <= IndexWrap - 1 /\ UART_TX_BUF_SIZE > 1
  /\ \E q \in Int : IndexWrap = INPUT_BUF * q
<1>1. /\ INPUT_BUF \in Nat \ {0} /\ IndexWrap \in Nat \ {0} /\ UART_TX_BUF_SIZE \in Nat \ {0}
      /\ INPUT_BUF <= IndexWrap - 1 /\ UART_TX_BUF_SIZE > 1
  BY ConsoleAssumption
<1>2. IndexWrap \in Int /\ IndexWrap % INPUT_BUF = 0
  BY ConsoleAssumption
<1>3. IndexWrap = INPUT_BUF * (IndexWrap \div INPUT_BUF) + (IndexWrap % INPUT_BUF)
      /\ IndexWrap \div INPUT_BUF \in Int
  BY <1>1, <1>2, ModDiv
<1>4. PICK q \in Int : IndexWrap = INPUT_BUF * q + 0
  BY <1>2, <1>3
<1>5. IndexWrap = INPUT_BUF * q
  BY <1>1, <1>4
<1>6. QED
  BY <1>1, <1>5

LEMMA DistIs ==
  ASSUME NEW j \in Idx, NEW i \in Idx
  PROVE  /\ Dist(j, i) \in Idx
         /\ Dist(j, i) = IF j >= i THEN j - i ELSE j - i + IndexWrap
<1>1. PICK n \in Nat \ {0} : n = IndexWrap
  BY ConsSizes
<1>2. PICK a \in (-n)..(2 * n - 1) : a = j + n - i
  BY <1>1 DEF Idx
<1>3. a % n = IF a < 0 THEN a + n ELSE IF a < n THEN a ELSE a - n
  BY ModCases
<1>4. Dist(j, i) = a % n
  BY <1>1, <1>2 DEF Dist
<1>5. j \in 0..(n - 1) /\ i \in 0..(n - 1)
  BY <1>1 DEF Idx
<1>6. QED
  BY <1>1, <1>2, <1>3, <1>4, <1>5 DEF Idx

LEMMA UpIs ==
  ASSUME NEW i \in Idx
  PROVE  Up(i) \in Idx /\ Up(i) = IF i = IndexWrap - 1 THEN 0 ELSE i + 1
<1>1. PICK n \in Nat \ {0} : n = IndexWrap
  BY ConsSizes
<1>2. PICK a \in (-n)..(2 * n - 1) : a = i + 1
  BY <1>1 DEF Idx
<1>3. a % n = IF a < 0 THEN a + n ELSE IF a < n THEN a ELSE a - n
  BY ModCases
<1>4. Up(i) = a % n
  BY <1>1, <1>2 DEF Up
<1>5. i \in 0..(n - 1)
  BY <1>1 DEF Idx
<1>6. QED
  BY <1>1, <1>2, <1>3, <1>4, <1>5 DEF Idx

LEMMA DownIs ==
  ASSUME NEW i \in Idx
  PROVE  Down(i) \in Idx /\ Down(i) = IF i = 0 THEN IndexWrap - 1 ELSE i - 1
<1>1. PICK n \in Nat \ {0} : n = IndexWrap
  BY ConsSizes
<1>2. PICK a \in (-n)..(2 * n - 1) : a = i + n - 1
  BY <1>1 DEF Idx
<1>3. a % n = IF a < 0 THEN a + n ELSE IF a < n THEN a ELSE a - n
  BY ModCases
<1>4. Down(i) = a % n
  BY <1>1, <1>2 DEF Down
<1>5. i \in 0..(n - 1)
  BY <1>1 DEF Idx
<1>6. QED
  BY <1>1, <1>2, <1>3, <1>4, <1>5 DEF Idx

\* How the distance of two indices changes when one of them moves.
LEMMA DistMoves ==
  ASSUME NEW j \in Idx, NEW i \in Idx
  PROVE  /\ Dist(i, i) = 0 /\ (Dist(j, i) = 0 <=> j = i)
         /\ Dist(j, i) + 1 < IndexWrap => Dist(Up(j), i) = Dist(j, i) + 1
         /\ j # i => Dist(j, Up(i)) = Dist(j, i) - 1 /\ Dist(Down(j), i) = Dist(j, i) - 1
         /\ Down(Up(i)) = i
<1>1. PICK n \in Nat \ {0} : n = IndexWrap
  BY ConsSizes
<1>2. j \in 0..(n - 1) /\ i \in 0..(n - 1)
  BY <1>1 DEF Idx
<1>3. Up(j) \in Idx /\ Up(j) = (IF j = n - 1 THEN 0 ELSE j + 1)
  BY <1>1, UpIs
<1>4. Up(i) \in Idx /\ Up(i) = (IF i = n - 1 THEN 0 ELSE i + 1)
  BY <1>1, UpIs
<1>5. Down(j) \in Idx /\ Down(j) = (IF j = 0 THEN n - 1 ELSE j - 1)
  BY <1>1, DownIs
<1>6. Down(Up(i)) = i
  <2>1. Down(Up(i)) = (IF Up(i) = 0 THEN n - 1 ELSE Up(i) - 1)
    BY <1>1, <1>4, DownIs
  <2>2. QED
    BY <1>2, <1>4, <2>1
<1>7. Dist(i, i) = 0
  <2>1. Dist(i, i) = (IF i >= i THEN i - i ELSE i - i + n)
    BY <1>1, DistIs
  <2>2. QED
    BY <1>2, <2>1
<1>8. Dist(j, i) = (IF j >= i THEN j - i ELSE j - i + n)
  BY <1>1, DistIs
<1>9. Dist(Up(j), i) = (IF Up(j) >= i THEN Up(j) - i ELSE Up(j) - i + n)
  BY <1>1, <1>3, DistIs
<1>10. Dist(j, Up(i)) = (IF j >= Up(i) THEN j - Up(i) ELSE j - Up(i) + n)
  BY <1>1, <1>4, DistIs
<1>11. Dist(Down(j), i) = (IF Down(j) >= i THEN Down(j) - i ELSE Down(j) - i + n)
  BY <1>1, <1>5, DistIs
<1>12. Dist(j, i) + 1 < n => Dist(Up(j), i) = Dist(j, i) + 1
  BY <1>2, <1>3, <1>8, <1>9
<1>13. j # i => Dist(j, Up(i)) = Dist(j, i) - 1
  BY <1>2, <1>4, <1>8, <1>10
<1>14. j # i => Dist(Down(j), i) = Dist(j, i) - 1
  BY <1>2, <1>5, <1>8, <1>11
<1>15. Dist(j, i) = 0 <=> j = i
  BY <1>2, <1>8
<1>16. QED
  BY <1>1, <1>6, <1>7, <1>12, <1>13, <1>14, <1>15

\* The index that is n on is n cells on, also when the index wraps: the size of
\* the ring divides 2^32.
LEMMA AheadWrap ==
  ASSUME NEW i \in Int, NEW n \in Int, NEW j \in Int,
         j = i + n \/ j = i + n - IndexWrap
  PROVE  Ahead(INPUT_BUF, i, n, j)
<1>1. PICK q \in Int : IndexWrap = INPUT_BUF * q
  BY ConsSizes
<1>2. PICK m \in Nat \ {0} : m = INPUT_BUF
  BY ConsSizes
<1>3. PICK a \in Int : a = i + n
  OBVIOUS
<1>4. CASE j = a - IndexWrap
  <2>1. (j + m * q) % m = j % m
    BY ModMultiple
  <2>2. PICK p \in Int : p = m * q
    BY <1>2
  <2>3. p = IndexWrap
    BY <1>1, <1>2, <2>2
  <2>4. j + p = a
    BY <1>4, <2>3
  <2>5. QED
    BY <1>2, <1>3, <2>1, <2>2, <2>4 DEF Ahead
<1>5. CASE j = a
  BY <1>3, <1>5 DEF Ahead
<1>6. IndexWrap \in Int
  BY ConsSizes
<1>7. QED
  BY <1>3, <1>4, <1>5, <1>6

LEMMA DistAhead ==
  ASSUME NEW j \in Idx, NEW i \in Idx
  PROVE  Ahead(INPUT_BUF, i, Dist(j, i), j) /\ Ahead(INPUT_BUF, i, 1, Up(i))
<1>1. PICK n \in Nat \ {0} : n = IndexWrap
  BY ConsSizes
<1>2. j \in 0..(n - 1) /\ i \in 0..(n - 1)
  BY <1>1 DEF Idx
<1>3. PICK d \in Int : d = Dist(j, i) /\ d = (IF j >= i THEN j - i ELSE j - i + n)
  BY <1>1, <1>2, DistIs
<1>4. j = i + d \/ j = i + d - IndexWrap
  BY <1>1, <1>2, <1>3
<1>5. Ahead(INPUT_BUF, i, d, j)
  BY <1>2, <1>4, AheadWrap
<1>6. PICK p \in Int : p = Up(i) /\ p = (IF i = n - 1 THEN 0 ELSE i + 1)
  BY <1>1, <1>2, UpIs
<1>7. p = i + 1 \/ p = i + 1 - IndexWrap
  BY <1>1, <1>2, <1>6
<1>8. Ahead(INPUT_BUF, i, 1, p)
  BY <1>2, <1>7, AheadWrap
<1>9. QED
  BY <1>3, <1>5, <1>6, <1>8

-----------------------------------------------------------------------------
(* The input ring. *)

Lines == Ring(buf, INPUT_BUF, r, Dist(w, r))
Edit == Ring(buf, INPUT_BUF, w, Dist(e, w))
InputV == Typable \cup {"none"}

Indices == Dist(w, r) + Dist(e, w) = Dist(e, r) /\ Dist(e, r) <= INPUT_BUF
Typed == Lines \in Seq(Typable) /\ Edit \in Seq(Typable \ {"nl", "eof"})
Reading == \A u \in Users : /\ call[u] # "read" => got[u] = <<>>
                            /\ (got[u] # <<>> /\ left[u] > 0) => got[u][Len(got[u])] # "nl"
ConsInv == ConsTypeOK /\ Indices /\ Typed /\ Reading /\ (dozing # {} => r = w)

\* A reader that has seen an empty ring keeps cons.lock until it sleeps.
Nodding == \A u \in nodding : consLock = u /\ call[u] = "read" /\ r = w

LEMMA LinesPrimed == Lines' = Ring(buf', INPUT_BUF, r', Dist(w', r'))
BY DEF Lines, Ring, Dist

LEMMA EditPrimed == Edit' = Ring(buf', INPUT_BUF, w', Dist(e', w'))
BY DEF Edit, Ring, Dist

LEMMA InputTypes ==
  ASSUME ConsTypeOK
  PROVE  /\ buf \in RingOf(INPUT_BUF, InputV)
         /\ r \in Idx /\ w \in Idx /\ e \in Idx /\ r \in Nat /\ w \in Nat /\ e \in Nat
         /\ Dist(w, r) \in Nat /\ Dist(e, w) \in Nat /\ Dist(e, r) \in Nat
<1>1. r \in Idx /\ w \in Idx /\ e \in Idx
  BY DEF ConsTypeOK, Idx
<1>2. Dist(w, r) \in Idx /\ Dist(e, w) \in Idx /\ Dist(e, r) \in Idx
  BY <1>1, DistIs
<1>3. \A i \in Idx : i \in Nat
  BY DEF Idx
<1>4. QED
  BY <1>1, <1>2, <1>3 DEF ConsTypeOK, RingOf, InputV

LEMMA InputTypesNext ==
  ASSUME ConsTypeOK'
  PROVE  /\ buf' \in RingOf(INPUT_BUF, InputV)
         /\ r' \in Idx /\ w' \in Idx /\ e' \in Idx /\ r' \in Nat /\ w' \in Nat /\ e' \in Nat
         /\ Dist(w', r') \in Nat /\ Dist(e', w') \in Nat /\ Dist(e', r') \in Nat
<1>1. r' \in Idx /\ w' \in Idx /\ e' \in Idx
  BY DEF ConsTypeOK, Idx
<1>2. Dist(w', r') \in Idx /\ Dist(e', w') \in Idx /\ Dist(e', r') \in Idx
  BY <1>1, DistIs
<1>3. \A i \in Idx : i \in Nat
  BY DEF Idx
<1>4. QED
  BY <1>1, <1>2, <1>3 DEF ConsTypeOK, RingOf, InputV

LEMMA StretchLens ==
  ASSUME ConsInv
  PROVE  Len(Lines) = Dist(w, r) /\ Len(Edit) = Dist(e, w)
<1>1. INPUT_BUF \in Nat \ {0}
  BY ConsSizes
<1>2. /\ buf \in RingOf(INPUT_BUF, InputV) /\ r \in Nat /\ w \in Nat
      /\ Dist(w, r) \in Nat /\ Dist(e, w) \in Nat
  BY InputTypes DEF ConsInv
<1>3. QED
  BY <1>1, <1>2, RingLen DEF Lines, Edit

LEMMA TypedTypes ==
  ASSUME ConsInv, NEW c \in Typable, KeyTyped(c)
  PROVE  ConsTypeOK'
<1>1. Up(e) \in Idx
  BY InputTypes, UpIs DEF ConsInv
<1>2. buf' \in [0..(INPUT_BUF - 1) -> Typable \cup {"none"}]
  BY DEF ConsInv, ConsTypeOK, KeyTyped
<1>3. {r, w, e}' \subseteq 0..(IndexWrap - 1)
  BY <1>1 DEF ConsInv, ConsTypeOK, KeyTyped, Idx
<1>4. dozing' \subseteq Users
  BY DEF ConsInv, ConsTypeOK, KeyTyped
<1>5. QED
  BY <1>2, <1>3, <1>4 DEF ConsInv, ConsTypeOK, KeyTyped, KeyUnchanged, uart

LEMMA LineEndsWhen ==
  ASSUME ConsInv, NEW c, Dist(e, r) < INPUT_BUF
  PROVE  LineEnds(c) <=> c \in {"nl", "eof"} \/ Dist(e, r) + 1 = INPUT_BUF
<1>1. PICK n \in Nat \ {0} : n = IndexWrap
  BY ConsSizes
<1>2. r \in Idx /\ e \in Idx /\ r \in 0..(n - 1) /\ e \in 0..(n - 1)
  BY <1>1, InputTypes DEF ConsInv, Idx
<1>3. INPUT_BUF \in 1..(n - 1)
  BY <1>1, ConsSizes
<1>4. Up(e) = (IF e = n - 1 THEN 0 ELSE e + 1)
  BY <1>1, <1>2, UpIs
<1>5. Dist(e, r) = (IF e >= r THEN e - r ELSE e - r + n)
  BY <1>1, <1>2, DistIs
<1>6. (r + INPUT_BUF) % IndexWrap = IF r + INPUT_BUF < n THEN r + INPUT_BUF ELSE r + INPUT_BUF - n
  <2>1. PICK b \in 0..n : b = INPUT_BUF
    BY <1>3
  <2>2. (r + b) % n = IF r + b < n THEN r + b ELSE r + b - n
    BY <1>2, ModSum
  <2>3. QED
    BY <1>1, <2>1, <2>2
<1>7. Up(e) = (r + INPUT_BUF) % IndexWrap <=> Dist(e, r) + 1 = INPUT_BUF
  <2>1. PICK m \in Int : m = (r + INPUT_BUF) % IndexWrap
    BY <1>2, <1>3, <1>6
  <2>2. m = IF r + INPUT_BUF < n THEN r + INPUT_BUF ELSE r + INPUT_BUF - n
    BY <1>6, <2>1
  <2>3. Up(e) = m <=> Dist(e, r) + 1 = INPUT_BUF
    BY <1>2, <1>3, <1>4, <1>5, <2>2
  <2>4. QED
    BY <2>1, <2>3
<1>8. QED
  BY <1>7 DEF LineEnds

\* The cell that a key goes into is the next one of the line and of the ring.
LEMMA NextCell ==
  ASSUME NEW i \in Idx, NEW j \in Idx, NEW m \in Nat, m = Dist(j, i) + 1
  PROVE  Cell(INPUT_BUF, i, m) = j % INPUT_BUF
<1>1. INPUT_BUF \in Nat \ {0}
  BY ConsSizes
<1>2. Ahead(INPUT_BUF, i, Dist(j, i), j)
  BY DistAhead
<1>3. i \in Nat /\ j \in Nat /\ Dist(j, i) \in Nat
  BY DistIs DEF Idx
<1>4. Cell(INPUT_BUF, j, 1) = Cell(INPUT_BUF, i, m)
  BY <1>1, <1>2, <1>3, CellShift
<1>5. QED
  BY <1>1, <1>3, <1>4, CellFirst

LEMMA TypedStep ==
  ASSUME ConsInv, NEW c \in Typable, KeyTyped(c)
  PROVE  /\ Indices'
         /\ LineEnds(c) => Lines' = Lines \o Append(Edit, c) /\ Edit' = <<>>
         /\ ~LineEnds(c) => Lines' = Lines /\ Edit' = Append(Edit, c)
<1> DEFINE N == INPUT_BUF
           n == Dist(w, r)
           m == Dist(e, w)
           k == Dist(e, r)
<1>1. /\ N \in Nat \ {0} /\ N <= IndexWrap - 1
  BY ConsSizes
<1>2. /\ buf \in RingOf(N, InputV) /\ r \in Idx /\ w \in Idx /\ e \in Idx
      /\ r \in Nat /\ w \in Nat /\ e \in Nat /\ n \in Nat /\ m \in Nat /\ k \in Nat
  BY InputTypes DEF ConsInv
<1>3. ConsTypeOK'
  BY TypedTypes
<1>4. buf' \in RingOf(N, InputV) /\ e' \in Idx /\ e' \in Nat
  BY <1>3, InputTypesNext
<1>5. e' = Up(e) /\ r' = r /\ k < N /\ n + m = k
  BY DEF KeyTyped, ConsInv, Indices
<1>6. buf' = [buf EXCEPT ![e % N] = c] /\ c \in InputV
  BY DEF KeyTyped, InputV
<1>7. Dist(e', r) = k + 1 /\ Dist(e', w) = m + 1 /\ Dist(e', e') = 0
  <2>1. k + 1 < IndexWrap /\ m + 1 < IndexWrap
    <3>1. IndexWrap \in Int /\ N \in Int
      BY ConsSizes
    <3>2. QED
      BY <1>1, <1>2, <1>5, <3>1
  <2>2. Dist(Up(e), r) = k + 1 /\ Dist(Up(e), w) = m + 1
    BY <1>2, <2>1, DistMoves
  <2>3. Dist(e', e') = 0
    BY <1>4, DistMoves
  <2>4. QED
    BY <1>5, <2>2, <2>3
<1>8. PICK m1 \in Nat : m1 = m + 1
  BY <1>2
<1>9. PICK k1 \in Nat : k1 = k + 1
  BY <1>2
<1>10. Wrote(buf, Cell(N, w, m1), c, buf') /\ Wrote(buf, Cell(N, r, k1), c, buf')
  <2>1. Cell(N, w, m1) = e % N
    BY <1>2, <1>8, NextCell
  <2>2. Cell(N, r, k1) = e % N
    BY <1>2, <1>9, NextCell
  <2>3. QED
    BY <1>6, <2>1, <2>2 DEF Wrote
<1>11. k1 <= N /\ m1 <= N /\ n < k1 /\ n + m1 = k1
  BY <1>1, <1>2, <1>5, <1>8, <1>9
<1> HIDE DEF N, n, m, k
<1>12. Ring(buf', N, r, n) = Ring(buf, N, r, n)
  BY <1>1, <1>2, <1>4, <1>10, <1>11, RingFrame
<1>13. Ring(buf', N, w, m1) = Append(Ring(buf, N, w, m), c)
  <2>1. w \in Nat /\ m \in Nat /\ m1 = m + 1 /\ m1 <= N /\ c \in InputV
    BY <1>2, <1>6, <1>8, <1>11
  <2>2. Wrote(buf, Cell(N, w, m1), c, buf') /\ buf \in RingOf(N, InputV) /\ buf' \in RingOf(N, InputV)
    BY <1>2, <1>4, <1>10
  <2>3. QED
    BY <1>1, <2>1, <2>2, RingAppend
<1>14. Ring(buf', N, r, k1) = Ring(buf', N, r, n) \o Ring(buf', N, w, m1)
  <2>1. Ahead(N, r, n, w)
    BY <1>2, DistAhead DEF N, n
  <2>2. r \in Nat /\ w \in Nat /\ n \in Nat /\ k1 = n + m1
    BY <1>2, <1>11
  <2>3. QED
    BY <1>1, <1>4, <2>1, <2>2, RingSplit
<1>15. Lines = Ring(buf, N, r, n) /\ Edit = Ring(buf, N, w, m)
  BY DEF Lines, Edit, N, n, m
<1>16. CASE LineEnds(c)
  <2>1. w' = e'
    BY <1>16 DEF KeyTyped
  <2>2. Dist(w', r') = k1 /\ Dist(e', w') = 0
    BY <1>5, <1>7, <1>9, <2>1
  <2>3. Lines' = Ring(buf', N, r, k1)
    BY <1>5, <2>2, LinesPrimed DEF N
  <2>4. Edit' = Ring(buf', N, w', 0)
    BY <2>2, EditPrimed DEF N
  <2>5. Edit' = <<>>
    BY <2>4 DEF Ring
  <2>6. Dist(e', r') = k1
    BY <1>5, <1>7, <1>9
  <2>7. Indices'
    <3>1. Dist(w', r') + Dist(e', w') = Dist(e', r') /\ Dist(e', r') <= INPUT_BUF
      BY <1>11, <2>2, <2>6 DEF N
    <3>2. QED
      BY <3>1 DEF Indices, Dist
  <2>8. QED
    BY <1>12, <1>13, <1>14, <1>15, <1>16, <2>3, <2>5, <2>7
<1>17. CASE ~LineEnds(c)
  <2>1. w' = w
    BY <1>17 DEF KeyTyped
  <2>2. Dist(w', r') = n /\ Dist(e', w') = m1 /\ Dist(e', r') = k1
    BY <1>5, <1>7, <1>8, <1>9, <2>1 DEF n
  <2>3. Lines' = Ring(buf', N, r, n)
    BY <1>5, <2>2, LinesPrimed DEF N
  <2>4. Edit' = Ring(buf', N, w, m1)
    BY <2>1, <2>2, EditPrimed DEF N
  <2>5. Indices'
    <3>1. Dist(w', r') + Dist(e', w') = Dist(e', r') /\ Dist(e', r') <= INPUT_BUF
      BY <1>11, <2>2 DEF N
    <3>2. QED
      BY <3>1 DEF Indices, Dist
  <2>6. QED
    BY <1>12, <1>13, <1>15, <1>17, <2>3, <2>4, <2>5
<1>18. QED
  BY <1>16, <1>17

LEMMA EraseTypes ==
  ASSUME ConsInv, KeyErase \/ KeyKill
  PROVE  ConsTypeOK'
<1>1. Down(e) \in Idx
  BY InputTypes, DownIs DEF ConsInv
<1>2. ASSUME NEW k \in Int PROVE (w + k) % IndexWrap \in Idx
  <2>1. PICK a \in Int : a = w + k
    BY InputTypes DEF ConsInv
  <2>2. QED
    BY <2>1, ConsSizes, ModInt DEF Idx
<1>3. e' \in Idx
  <2>1. CASE KeyErase
    BY <1>1, <2>1 DEF KeyErase
  <2>2. CASE KeyKill
    <3>1. PICK k \in 0..(Dist(e, w) - 1) : e' = (w + k) % IndexWrap
      BY <2>2 DEF KeyKill
    <3>2. k \in Int
      BY <3>1
    <3>3. QED
      BY <1>2, <3>1, <3>2
  <2>3. QED
    BY <2>1, <2>2
<1>4. buf' \in [0..(INPUT_BUF - 1) -> Typable \cup {"none"}]
  BY DEF ConsInv, ConsTypeOK, KeyErase, KeyKill
<1>5. UNCHANGED <<r, w, dozing, nodding, consLock, call, left, got, killed, uart, panicked>>
  BY DEF KeyErase, KeyKill, KeyUnchanged
<1>6. QED
  BY <1>3, <1>4, <1>5 DEF ConsInv, ConsTypeOK, uart, Idx

LEMMA EraseStep ==
  ASSUME ConsInv, KeyErase
  PROVE  /\ Indices' /\ Lines' = Lines /\ Edit # <<>>
         /\ Edit' = SubSeq(Edit, 1, Len(Edit) - 1)
<1> DEFINE N == INPUT_BUF
           n == Dist(w, r)
           m == Dist(e, w)
           k == Dist(e, r)
<1>1. /\ N \in Nat \ {0}
  BY ConsSizes
<1>2. /\ buf \in RingOf(N, InputV) /\ r \in Idx /\ w \in Idx /\ e \in Idx
      /\ r \in Nat /\ w \in Nat /\ e \in Nat /\ n \in Nat /\ m \in Nat /\ k \in Nat
  BY InputTypes DEF ConsInv
<1>3. ConsTypeOK'
  BY EraseTypes
<1>4. buf' \in RingOf(N, InputV) /\ e' \in Idx /\ e' \in Nat
  BY <1>3, InputTypesNext
<1>5. e' = Down(e) /\ r' = r /\ w' = w /\ e # w /\ n + m = k /\ k <= N
  BY DEF KeyErase, ConsInv, Indices
<1>6. buf' = [buf EXCEPT ![e' % N] = "none"]
  BY DEF KeyErase
<1>7. m # 0 /\ Dist(e', w) = m - 1
  BY <1>2, <1>5, DistMoves
<1>8. e # r
  <2>1. k # 0
    BY <1>2, <1>5, <1>7
  <2>2. QED
    BY <1>2, <2>1, DistMoves
<1>9. Dist(e', r) = k - 1
  BY <1>2, <1>5, <1>8, DistMoves
<1> HIDE DEF N, n, m, k
<1>10. PICK m0 \in Nat : m0 = m - 1 /\ m = m0 + 1
  BY <1>2, <1>7
<1>11. Wrote(buf, Cell(N, w, m), "none", buf') /\ Wrote(buf, Cell(N, r, k), "none", buf')
  <2>1. m = Dist(e', w) + 1 /\ k = Dist(e', r) + 1
    BY <1>2, <1>7, <1>9
  <2>2. Cell(N, w, m) = e' % N /\ Cell(N, r, k) = e' % N
    BY <1>2, <1>4, <2>1, NextCell DEF N
  <2>3. QED
    BY <1>6, <2>2 DEF Wrote
<1>12. n < k /\ m <= N
  BY <1>1, <1>2, <1>5, <1>7
<1>13. Ring(buf', N, r, n) = Ring(buf, N, r, n)
  BY <1>1, <1>2, <1>4, <1>5, <1>11, <1>12, RingFrame
<1>14. /\ Ring(buf, N, w, m) # <<>> /\ Len(Ring(buf, N, w, m)) = m
       /\ Ring(buf', N, w, m0) = SubSeq(Ring(buf, N, w, m), 1, m0)
  BY <1>1, <1>2, <1>4, <1>10, <1>11, <1>12, RingFront
<1>15. Lines = Ring(buf, N, r, n) /\ Edit = Ring(buf, N, w, m)
  BY DEF Lines, Edit, N, n, m
<1>16. Dist(w', r') = n /\ Dist(e', w') = m0 /\ Dist(e', r') = k - 1
  BY <1>5, <1>7, <1>9, <1>10 DEF n
<1>17. Lines' = Ring(buf', N, r, n) /\ Edit' = Ring(buf', N, w, m0)
  BY <1>5, <1>16, LinesPrimed, EditPrimed DEF N
<1>18. Indices'
  <2>1. Dist(w', r') + Dist(e', w') = Dist(e', r') /\ Dist(e', r') <= INPUT_BUF
    BY <1>1, <1>2, <1>5, <1>10, <1>16 DEF N
  <2>2. QED
    BY <2>1 DEF Indices, Dist
<1>19. Len(Edit) - 1 = m0
  BY <1>10, <1>14, <1>15, <1>2
<1>20. QED
  BY <1>13, <1>14, <1>15, <1>17, <1>18, <1>19

\* ^U goes back to the start of the line: what is typed holds no newline.
LEMMA KillStep ==
  ASSUME ConsInv, KeyKill
  PROVE  Indices' /\ Lines' = Lines /\ Edit # <<>> /\ Edit' = <<>>
<1> DEFINE N == INPUT_BUF
           n == Dist(w, r)
           m == Dist(e, w)
<1>1. /\ N \in Nat \ {0}
  BY ConsSizes
<1>2. /\ buf \in RingOf(N, InputV) /\ r \in Idx /\ w \in Idx /\ e \in Idx
      /\ r \in Nat /\ w \in Nat /\ e \in Nat /\ n \in Nat /\ m \in Nat /\ Dist(e, r) \in Nat
  BY InputTypes DEF ConsInv
<1>3. ConsTypeOK'
  BY EraseTypes
<1>4. buf' \in RingOf(N, InputV)
  BY <1>3, InputTypesNext
<1>5. PICK k \in 0..(m - 1) :
        /\ e' = (w + k) % IndexWrap
        /\ k > 0 => buf[(w + k - 1) % N] = "nl"
        /\ buf' = [i \in DOMAIN buf |-> IF \E j \in k..(m - 1) : i = (w + j) % N
                                         THEN "none" ELSE buf[i]]
  BY DEF KeyKill
<1>6. r' = r /\ w' = w /\ e # w /\ n + m = Dist(e, r) /\ Dist(e, r) <= N
  BY DEF KeyKill, ConsInv, Indices
<1>7. m # 0
  BY <1>2, <1>6, DistMoves
<1>8. Edit \in Seq(Typable \ {"nl", "eof"}) /\ Len(Edit) = m
  BY StretchLens DEF ConsInv, Typed
<1>9. k = 0
  <2>1. ASSUME k > 0 PROVE FALSE
    <3>1. k \in 1..m
      BY <1>2, <2>1
    <3>2. Edit[k] = buf[(w + k - 1) % N]
      BY <3>1 DEF Edit, Ring
    <3>3. Edit[k] \in Typable \ {"nl", "eof"}
      BY <1>8, <3>1
    <3>4. QED
      BY <1>5, <2>1, <3>2, <3>3
  <2>2. QED
    BY <2>1
<1>10. e' = w
  <2>1. PICK i \in Int : i = w + k
    BY <1>2, <1>9
  <2>2. PICK W \in Nat \ {0} : W = IndexWrap
    BY ConsSizes
  <2>3. w \in 0..(W - 1)
    BY <1>2, <2>2 DEF Idx
  <2>4. w % W = w
    <3>1. w \in Nat /\ w < W
      BY <2>3
    <3>2. QED
      BY <3>1, ModLess
  <2>5. w + k = w
    BY <1>2, <1>9
  <2>6. QED
    BY <1>5, <2>2, <2>4, <2>5
<1> HIDE DEF N, n, m
<1>11. Dist(w', r') = n /\ Dist(e', w') = 0 /\ Dist(e', r') = n
  <2>1. Dist(w, w) = 0
    BY <1>2, DistMoves
  <2>2. QED
    BY <1>6, <1>10, <2>1 DEF n
<1>12. Indices'
  <2>1. Dist(w', r') + Dist(e', w') = Dist(e', r') /\ Dist(e', r') <= INPUT_BUF
    BY <1>1, <1>2, <1>6, <1>11 DEF N
  <2>2. QED
    BY <2>1 DEF Indices, Dist
<1>13. Lines' = Ring(buf', N, r, n) /\ Edit' = Ring(buf', N, w, 0)
  BY <1>6, <1>11, LinesPrimed, EditPrimed DEF N
<1>14. Edit' = <<>>
  BY <1>13 DEF Ring
<1>15. ASSUME NEW j \in 1..n PROVE buf'[Cell(N, r, j)] = buf[Cell(N, r, j)]
  <2>1. j \in Nat /\ j \in 1..N
    BY <1>1, <1>2, <1>6
  <2>2. Cell(N, r, j) \in 0..(N - 1)
    BY <1>1, <1>2, <2>1, CellIn
  <2>3. ASSUME NEW i \in k..(m - 1) PROVE Cell(N, r, j) # (w + i) % N
    <3>1. PICK x \in Nat : x = i + 1
      BY <1>2
    <3>2. PICK y \in Nat : y = n + x
      BY <1>2, <3>1
    <3>3. Ahead(N, r, n, w)
      BY <1>2, DistAhead DEF N, n
    <3>4. Cell(N, w, x) = Cell(N, r, y)
      <4>1. r \in Nat /\ w \in Nat /\ n \in Nat /\ y = n + x
        BY <1>2, <3>2
      <4>2. QED
        BY <1>1, <3>3, <4>1, CellShift
    <3>5. Cell(N, w, x) = (w + i) % N
      <4>1. w + x - 1 = w + i
        BY <1>2, <3>1
      <4>2. QED
        BY <4>1 DEF Cell
    <3>6. y \in 1..N /\ y # j
      BY <1>1, <1>2, <1>6, <1>7, <3>1, <3>2, <2>1
    <3>7. Cell(N, r, y) # Cell(N, r, j)
      BY <1>1, <1>2, <2>1, <3>6, CellsApart
    <3>8. QED
      BY <3>4, <3>5, <3>7
  <2>4. Cell(N, r, j) \in DOMAIN buf
    BY <1>2, <2>2 DEF RingOf
  <2>5. QED
    BY <1>5, <2>3, <2>4
<1>16. Same(buf, N, r, buf', r, n)
  BY <1>15 DEF Same
<1>17. Ring(buf', N, r, n) = Ring(buf, N, r, n)
  BY <1>1, <1>2, <1>4, <1>16, RingSame
<1>18. Lines = Ring(buf, N, r, n)
  BY DEF Lines, N, n
<1>19. Edit # <<>>
  BY <1>2, <1>7, <1>8, EmptySeq
<1>20. QED
  BY <1>12, <1>13, <1>14, <1>17, <1>18, <1>19

LEMMA TakeTypes ==
  ASSUME ConsInv, Take
  PROVE  /\ buf' \in [0..(INPUT_BUF - 1) -> Typable \cup {"none"}]
         /\ buf' \in RingOf(INPUT_BUF, InputV) /\ r' \in Idx /\ r' \in Nat
<1>1. buf' \in [0..(INPUT_BUF - 1) -> Typable \cup {"none"}]
  BY DEF Take, ConsInv, ConsTypeOK
<1>2. r' \in Idx
  BY InputTypes, UpIs DEF Take, ConsInv
<1>3. QED
  BY <1>1, <1>2 DEF RingOf, InputV, Idx

\* A byte is taken off the front of what readers may have.
LEMMA TakeStep ==
  ASSUME ConsInv, r # w, Take, w' = w, e' = e
  PROVE  /\ Indices' /\ Lines # <<>> /\ Head(Lines) = Next1
         /\ Lines' = Tail(Lines) /\ Edit' = Edit
<1> DEFINE N == INPUT_BUF
           n == Dist(w, r)
           m == Dist(e, w)
           k == Dist(e, r)
<1>1. /\ N \in Nat \ {0}
  BY ConsSizes
<1>2. /\ buf \in RingOf(N, InputV) /\ r \in Idx /\ w \in Idx /\ e \in Idx
      /\ r \in Nat /\ w \in Nat /\ e \in Nat /\ n \in Nat /\ m \in Nat /\ k \in Nat
  BY InputTypes DEF ConsInv
<1>3. buf' \in RingOf(N, InputV) /\ r' \in Nat
  BY TakeTypes
<1>4. r' = Up(r) /\ n + m = k /\ k <= N
  BY DEF Take, ConsInv, Indices
<1>5. Wrote(buf, Cell(N, r, 1), "none", buf') /\ Cell(N, r, 1) = r % N
  <2>1. Cell(N, r, 1) = r % N
    BY <1>1, <1>2, CellFirst
  <2>2. QED
    BY <2>1 DEF Take, Wrote
<1>6. n # 0 /\ Dist(w, r') = n - 1
  BY <1>2, <1>4, DistMoves
<1>7. e # r
  <2>1. k # 0
    BY <1>2, <1>4, <1>6
  <2>2. QED
    BY <1>2, <2>1, DistMoves
<1>8. Dist(e, r') = k - 1
  BY <1>2, <1>4, <1>7, DistMoves
<1>9. Ahead(N, r, 1, r') /\ Ahead(N, r, n, w)
  BY <1>2, <1>4, DistAhead
<1> HIDE DEF N, n, m, k
<1>10. PICK n0 \in Nat : n0 = n - 1 /\ n = n0 + 1
  BY <1>2, <1>6
<1>11. n <= N
  BY <1>1, <1>2, <1>4
<1>12. /\ Ring(buf, N, r, n) # <<>> /\ Head(Ring(buf, N, r, n)) = buf[Cell(N, r, 1)]
       /\ Ring(buf', N, r', n0) = Tail(Ring(buf, N, r, n))
  <2>1. r \in Nat /\ n \in Nat /\ n = n0 + 1
    BY <1>2, <1>10
  <2>2. buf \in RingOf(N, InputV)
    BY <1>2
  <2>3. Ahead(N, r, 1, r')
    BY <1>9
  <2>4. QED
    BY <1>1, <1>3, <1>5, <1>11, <2>1, <2>2, <2>3, RingRest
<1>13. ASSUME NEW j \in 1..m PROVE buf'[Cell(N, w, j)] = buf[Cell(N, w, j)]
  <2>1. j \in Nat
    OBVIOUS
  <2>2. PICK y \in Nat : y = n + j
    BY <1>2
  <2>3. Cell(N, w, j) = Cell(N, r, y)
    <3>1. r \in Nat /\ w \in Nat /\ n \in Nat
      BY <1>2
    <3>2. QED
      BY <1>1, <1>9, <2>1, <2>2, <3>1, CellShift
  <2>4. y \in 1..N /\ 1 \in 1..N /\ y # 1
    BY <1>1, <1>2, <1>4, <1>6, <2>2
  <2>5. Cell(N, r, y) # Cell(N, r, 1)
    BY <1>1, <1>2, <2>4, CellsApart
  <2>6. Cell(N, w, j) \in 0..(N - 1)
    BY <1>1, <1>2, <2>1, CellIn
  <2>7. QED
    BY <1>2, <1>5, <2>3, <2>5, <2>6 DEF Wrote, RingOf
<1>14. Same(buf, N, w, buf', w, m)
  BY <1>13 DEF Same
<1>15. Ring(buf', N, w, m) = Ring(buf, N, w, m)
  BY <1>1, <1>2, <1>3, <1>14, RingSame
<1>16. Lines = Ring(buf, N, r, n) /\ Edit = Ring(buf, N, w, m)
  BY DEF Lines, Edit, N, n, m
<1>17. Dist(w', r') = n0 /\ Dist(e', w') = m /\ Dist(e', r') = k - 1
  BY <1>6, <1>8, <1>10 DEF m
<1>18. Lines' = Ring(buf', N, r', n0) /\ Edit' = Ring(buf', N, w, m)
  BY <1>17, LinesPrimed, EditPrimed DEF N
<1>19. Indices'
  <2>1. Dist(w', r') + Dist(e', w') = Dist(e', r') /\ Dist(e', r') <= INPUT_BUF
    BY <1>1, <1>2, <1>4, <1>10, <1>17 DEF N
  <2>2. QED
    BY <2>1 DEF Indices, Dist
<1>20. Next1 = buf[Cell(N, r, 1)]
  BY <1>5 DEF Next1, N
<1>21. QED
  BY <1>12, <1>15, <1>16, <1>18, <1>19, <1>20

LEMMA InputStutters ==
  ASSUME UNCHANGED input
  PROVE  Lines' = Lines /\ Edit' = Edit /\ (Indices => Indices')
BY DEF input, Lines, Edit, Indices, Ring, Dist

-----------------------------------------------------------------------------
(* The output ring. *)

TxHeld == (txW + UART_TX_BUF_SIZE - txR) % UART_TX_BUF_SIZE
Out == Ring(tx, UART_TX_BUF_SIZE, txR, TxHeld)
OutV == Users \cup {NoUser}

LEMMA OutPrimed ==
  Out' = Ring(tx', UART_TX_BUF_SIZE, txR', (txW' + UART_TX_BUF_SIZE - txR') % UART_TX_BUF_SIZE)
BY DEF Out, TxHeld, Ring

LEMMA TxNextIs ==
  ASSUME NEW i \in 0..(UART_TX_BUF_SIZE - 1)
  PROVE  /\ TxNext(i) = IF i = UART_TX_BUF_SIZE - 1 THEN 0 ELSE i + 1
         /\ TxNext(i) \in 0..(UART_TX_BUF_SIZE - 1)
<1>1. PICK n \in Nat \ {0} : n = UART_TX_BUF_SIZE
  BY ConsSizes
<1>2. PICK a \in (-n)..(2 * n - 1) : a = i + 1
  BY <1>1
<1>3. a % n = IF a < 0 THEN a + n ELSE IF a < n THEN a ELSE a - n
  BY ModCases
<1>4. TxNext(i) = a % n
  BY <1>1, <1>2 DEF TxNext
<1>5. QED
  BY <1>1, <1>2, <1>3, <1>4

LEMMA TxDist ==
  ASSUME NEW i \in 0..(UART_TX_BUF_SIZE - 1), NEW j \in 0..(UART_TX_BUF_SIZE - 1)
  PROVE  (j + UART_TX_BUF_SIZE - i) % UART_TX_BUF_SIZE
           = IF j >= i THEN j - i ELSE j - i + UART_TX_BUF_SIZE
<1>1. PICK n \in Nat \ {0} : n = UART_TX_BUF_SIZE
  BY ConsSizes
<1>2. i \in 0..(n - 1) /\ j \in 0..(n - 1)
  BY <1>1
<1>3. PICK a \in (-n)..(2 * n - 1) : a = j + n - i
  BY <1>2
<1>4. a % n = IF a < 0 THEN a + n ELSE IF a < n THEN a ELSE a - n
  BY ModCases
<1>5. a % n = IF j >= i THEN j - i ELSE j - i + n
  BY <1>2, <1>3, <1>4
<1>6. QED
  BY <1>1, <1>3, <1>5

LEMMA TxFacts ==
  ASSUME ConsTypeOK
  PROVE  /\ tx \in RingOf(UART_TX_BUF_SIZE, OutV) /\ txR \in Nat /\ txW \in Nat
         /\ TxHeld = IF txW >= txR THEN txW - txR ELSE txW - txR + UART_TX_BUF_SIZE
         /\ TxHeld \in 0..(UART_TX_BUF_SIZE - 1) /\ TxHeld \in Nat
         /\ Ahead(UART_TX_BUF_SIZE, txR, TxHeld, txW)
         /\ Len(Out) = TxHeld
<1>1. PICK n \in Nat \ {0} : n = UART_TX_BUF_SIZE
  BY ConsSizes
<1>2. txR \in 0..(n - 1) /\ txW \in 0..(n - 1) /\ tx \in RingOf(UART_TX_BUF_SIZE, OutV)
  BY <1>1 DEF ConsTypeOK, RingOf, OutV
<1>3. TxHeld = IF txW >= txR THEN txW - txR ELSE txW - txR + n
  BY <1>1, <1>2, TxDist DEF TxHeld
<1>4. TxHeld \in 0..(n - 1) /\ TxHeld \in Nat
  BY <1>2, <1>3
<1>5. Ahead(n, txR, TxHeld, txW)
  <2>1. PICK d \in Int : d = TxHeld
    BY <1>4
  <2>2. PICK c \in Int : c = txR + d
    BY <1>2
  <2>3. PICK v \in Int : v = txW
    BY <1>2
  <2>4. (v + n * 1) % n = v % n
    <3>1. 1 \in Int
      OBVIOUS
    <3>2. QED
      BY <3>1, ModMultiple
  <2>5. c = v \/ c = v + n * 1
    BY <1>2, <1>3, <2>1, <2>2, <2>3
  <2>6. c % n = v % n
    BY <2>4, <2>5
  <2>7. QED
    BY <2>1, <2>2, <2>3, <2>6 DEF Ahead
<1>6. Len(Out) = TxHeld
  BY <1>1, <1>2, <1>4, RingLen DEF Out
<1>7. QED
  BY <1>1, <1>2, <1>3, <1>4, <1>5, <1>6

LEMMA PutStep ==
  ASSUME ConsTypeOK, NEW u \in Users, WriteByte(u)
  PROVE  /\ tx' \in [0..(UART_TX_BUF_SIZE - 1) -> Users \cup {NoUser}]
         /\ txW' \in 0..(UART_TX_BUF_SIZE - 1)
         /\ Len(Out) < UART_TX_BUF_SIZE - 1 /\ Out' = Append(Out, u)
<1>1. PICK n \in Nat \ {0} : n = UART_TX_BUF_SIZE
  BY ConsSizes
<1>2. txR \in 0..(n - 1) /\ txW \in 0..(n - 1) /\ txR \in Nat /\ txW \in Nat
  BY <1>1 DEF ConsTypeOK
<1>3. TxHeld = (IF txW >= txR THEN txW - txR ELSE txW - txR + n) /\ Len(Out) = TxHeld
      /\ TxHeld \in 0..(n - 1) /\ TxHeld \in Nat /\ Ahead(n, txR, TxHeld, txW)
      /\ tx \in RingOf(n, OutV)
  BY <1>1, TxFacts
<1>4. txW' = (IF txW = n - 1 THEN 0 ELSE txW + 1) /\ txW' \in 0..(n - 1)
  BY <1>1, <1>2, TxNextIs DEF WriteByte
<1>5. txW' # txR /\ txR' = txR /\ tx' = [tx EXCEPT ![txW] = u]
  BY DEF TxFull, WriteByte
<1>6. (txW' + n - txR') % n = IF txW' >= txR THEN txW' - txR ELSE txW' - txR + n
  BY <1>1, <1>2, <1>4, <1>5, TxDist
<1>7. PICK m \in Nat : m = TxHeld + 1
  BY <1>3
<1>8. (txW' + n - txR') % n = m /\ m <= n - 1
  BY <1>2, <1>3, <1>4, <1>5, <1>6, <1>7
<1>9. Cell(n, txR, m) = txW
  <2>1. Cell(n, txW, 1) = Cell(n, txR, m)
    <3>1. TxHeld \in Nat /\ m = TxHeld + 1 /\ 1 \in Nat
      BY <1>3, <1>7
    <3>2. QED
      BY <1>2, <1>3, <3>1, CellShift
  <2>2. Cell(n, txW, 1) = txW % n
    BY <1>2, CellFirst
  <2>3. txW % n = txW
    <3>1. txW < n
      BY <1>2
    <3>2. QED
      BY <1>2, <3>1, ModLess
  <2>4. QED
    BY <2>1, <2>2, <2>3
<1>10. Wrote(tx, Cell(n, txR, m), u, tx')
  BY <1>5, <1>9 DEF Wrote
<1>11. tx' \in RingOf(n, OutV) /\ u \in OutV
  BY <1>3, <1>5 DEF RingOf, OutV
<1>12. Ring(tx', n, txR, m) = Append(Ring(tx, n, txR, TxHeld), u)
  <2>1. m <= n
    BY <1>8
  <2>2. txR \in Nat /\ TxHeld \in Nat /\ tx \in RingOf(n, OutV)
    BY <1>2, <1>3
  <2>3. QED
    BY <1>7, <1>10, <1>11, <2>1, <2>2, RingAppend
<1>13. Out' = Ring(tx', n, txR, m)
  BY <1>1, <1>5, <1>8, OutPrimed
<1>14. Out = Ring(tx, n, txR, TxHeld)
  BY <1>1 DEF Out
<1>15. Len(Out) < n - 1
  BY <1>3, <1>7, <1>8
<1>16. QED
  BY <1>1, <1>4, <1>11, <1>12, <1>13, <1>14, <1>15 DEF RingOf, OutV

LEMMA SendStep ==
  ASSUME ConsTypeOK, UartStart
  PROVE  /\ tx' \in [0..(UART_TX_BUF_SIZE - 1) -> Users \cup {NoUser}]
         /\ txR' \in 0..(UART_TX_BUF_SIZE - 1)
         /\ Out # <<>> /\ Out' = Tail(Out)
<1>1. PICK n \in Nat \ {0} : n = UART_TX_BUF_SIZE
  BY ConsSizes
<1>2. txR \in 0..(n - 1) /\ txW \in 0..(n - 1) /\ txR \in Nat /\ txW \in Nat
  BY <1>1 DEF ConsTypeOK
<1>3. TxHeld = (IF txW >= txR THEN txW - txR ELSE txW - txR + n)
      /\ TxHeld \in 0..(n - 1) /\ TxHeld \in Nat /\ tx \in RingOf(n, OutV)
  BY <1>1, TxFacts
<1>4. /\ txW # txR /\ tx' = [tx EXCEPT ![txR] = NoUser] /\ txR' = TxNext(txR) /\ txW' = txW
  BY DEF UartStart
<1>5. txR' = (IF txR = n - 1 THEN 0 ELSE txR + 1) /\ txR' \in 0..(n - 1) /\ txR' \in Nat
  BY <1>1, <1>2, <1>4, TxNextIs
<1>6. (txW' + n - txR') % n = IF txW >= txR' THEN txW - txR' ELSE txW - txR' + n
  BY <1>1, <1>2, <1>4, <1>5, TxDist
<1>7. PICK m \in Nat : m = TxHeld - 1 /\ TxHeld = m + 1
  BY <1>2, <1>3, <1>4
<1>8. (txW' + n - txR') % n = m
  BY <1>2, <1>3, <1>4, <1>5, <1>6, <1>7
<1>9. txR % n = txR /\ Cell(n, txR, 1) = txR % n
  <2>1. txR < n
    BY <1>2
  <2>2. QED
    BY <1>2, <2>1, ModLess, CellFirst
<1>10. Wrote(tx, Cell(n, txR, 1), NoUser, tx')
  BY <1>4, <1>9 DEF Wrote
<1>11. tx' \in RingOf(n, OutV)
  BY <1>3, <1>4 DEF RingOf, OutV
<1>12. Ahead(n, txR, 1, txR')
  <2>1. PICK c \in Int : c = txR + 1
    BY <1>2
  <2>2. (0 + n * 1) % n = 0 % n
    BY ModMultiple
  <2>3. c = txR' \/ (c = n /\ txR' = 0)
    BY <1>2, <1>5, <2>1
  <2>4. 0 + n * 1 = n
    OBVIOUS
  <2>5. c % n = txR' % n
    BY <2>2, <2>3, <2>4
  <2>6. QED
    BY <2>1, <2>5 DEF Ahead
<1>13. /\ Ring(tx, n, txR, TxHeld) # <<>>
       /\ Ring(tx', n, txR', m) = Tail(Ring(tx, n, txR, TxHeld))
  <2>1. TxHeld <= n
    BY <1>3
  <2>2. txR \in Nat /\ txR' \in Nat /\ TxHeld \in Nat /\ tx \in RingOf(n, OutV) /\ TxHeld = m + 1
    BY <1>2, <1>3, <1>5, <1>7
  <2>3. QED
    BY <1>10, <1>11, <1>12, <2>1, <2>2, RingRest
<1>14. Out' = Ring(tx', n, txR', m)
  BY <1>1, <1>8, OutPrimed
<1>15. Out = Ring(tx, n, txR, TxHeld)
  BY <1>1 DEF Out
<1>16. QED
  BY <1>1, <1>5, <1>11, <1>13, <1>14, <1>15 DEF RingOf, OutV

LEMMA OutStutters ==
  ASSUME UNCHANGED uart
  PROVE  Out' = Out
BY DEF uart, Out, TxHeld, Ring

-----------------------------------------------------------------------------
(* The steps of the line discipline, in the words of the console. *)

LEMMA TypeMaps ==
  ASSUME NEW c \in Typable, Len(Lines) + Len(Edit) < INPUT_BUF,
         IF c \in {"nl", "eof"} \/ Len(Lines) + Len(Edit) + 1 = INPUT_BUF
         THEN Lines' = Lines \o Append(Edit, c) /\ Edit' = <<>>
         ELSE Edit' = Append(Edit, c) /\ Lines' = Lines,
         got' = got, Out' = Out
  PROVE  LD!Type(c)
BY DEF LD!Type, LD!Held, Lines, Edit, Out, TxHeld

LEMMA EraseMaps ==
  ASSUME Edit # <<>>, Edit' \in {SubSeq(Edit, 1, Len(Edit) - 1), <<>>},
         Lines' = Lines, got' = got, Out' = Out
  PROVE  LD!Erase
BY DEF LD!Erase, Lines, Edit, Out, TxHeld

LEMMA GiveMaps ==
  ASSUME NEW u \in Users, Lines # <<>>,
         got[u] # <<>> => got[u][Len(got[u])] # "nl" /\ Head(Lines) # "eof",
         got' = [got EXCEPT ![u] = IF Head(Lines) = "eof" THEN got[u] ELSE Append(got[u], Head(Lines))],
         Lines' = Tail(Lines), Edit' = Edit, Out' = Out
  PROVE  LD!Give(u)
BY DEF LD!Give, Lines, Edit, Out, TxHeld

LEMMA LoseMaps ==
  ASSUME NEW u \in Users, Lines # <<>>, Head(Lines) # "eof",
         got' = [got EXCEPT ![u] = <<>>], Lines' = Tail(Lines), Edit' = Edit, Out' = Out
  PROVE  LD!Lose(u)
BY DEF LD!Lose, Lines, Edit, Out, TxHeld

LEMMA ReturnMaps ==
  ASSUME NEW u \in Users, got' = [got EXCEPT ![u] = <<>>],
         Lines' = Lines, Edit' = Edit, Out' = Out
  PROVE  LD!Return(u)
BY DEF LD!Return, Lines, Edit, Out, TxHeld

LEMMA PutMaps ==
  ASSUME NEW u \in Users, Len(Out) < UART_TX_BUF_SIZE - 1, Out' = Append(Out, u),
         Lines' = Lines, Edit' = Edit, got' = got
  PROVE  LD!Put(u)
BY DEF LD!Put, Lines, Edit, Out, TxHeld

LEMMA SendMaps ==
  ASSUME Out # <<>>, Out' = Tail(Out), Lines' = Lines, Edit' = Edit, got' = got
  PROVE  LD!Send
BY DEF LD!Send, Lines, Edit, Out, TxHeld

LEMMA RestMaps ==
  ASSUME Lines' = Lines, Edit' = Edit, got' = got, Out' = Out
  PROVE  UNCHANGED LD!ldVars
BY DEF LD!ldVars, Lines, Edit, Out, TxHeld

-----------------------------------------------------------------------------
(* Each step keeps the invariant, and is one of the line discipline. *)

LEMMA KeyTypedStep ==
  ASSUME ConsInv, NEW c \in Typable, KeyTyped(c)
  PROVE  ConsInv' /\ LD!Type(c)
<1>1. ConsTypeOK'
  BY TypedTypes
<1>2. /\ Indices'
      /\ LineEnds(c) => Lines' = Lines \o Append(Edit, c) /\ Edit' = <<>>
      /\ ~LineEnds(c) => Lines' = Lines /\ Edit' = Append(Edit, c)
  BY TypedStep
<1>3. Dist(e, r) < INPUT_BUF
  BY DEF KeyTyped
<1>4. LineEnds(c) <=> c \in {"nl", "eof"} \/ Dist(e, r) + 1 = INPUT_BUF
  BY <1>3, LineEndsWhen
<1>5. Len(Lines) + Len(Edit) = Dist(e, r)
  BY StretchLens DEF ConsInv, Indices
<1>6. Lines \in Seq(Typable) /\ Edit \in Seq(Typable \ {"nl", "eof"}) /\ Edit \in Seq(Typable)
  <2>1. Edit \in Seq(Typable \ {"nl", "eof"})
    BY DEF ConsInv, Typed
  <2>2. Edit \in Seq(Typable)
    BY <2>1
  <2>3. QED
    BY <2>1, <2>2 DEF ConsInv, Typed
<1>7. Typed'
  <2>1. CASE LineEnds(c)
    <3>1. Append(Edit, c) \in Seq(Typable)
      BY <1>6, AppendProperties
    <3>2. Lines \o Append(Edit, c) \in Seq(Typable)
      BY <1>6, <3>1, ConcatProperties
    <3>3. Lines' \in Seq(Typable) /\ Edit' \in Seq(Typable \ {"nl", "eof"})
      BY <1>2, <2>1, <3>2, EmptySeq
    <3>4. QED
      BY <3>3 DEF Typed, Typable
  <2>2. CASE ~LineEnds(c)
    <3>1. c \in Typable \ {"nl", "eof"}
      BY <1>4, <2>2
    <3>2. Append(Edit, c) \in Seq(Typable \ {"nl", "eof"})
      BY <1>6, <3>1, AppendProperties
    <3>3. Lines' \in Seq(Typable) /\ Edit' \in Seq(Typable \ {"nl", "eof"})
      BY <1>2, <1>6, <2>2, <3>2
    <3>4. QED
      BY <3>3 DEF Typed, Typable
  <2>3. QED
    BY <2>1, <2>2
<1>8. UNCHANGED <<call, got, left, uart>> /\ r' = r
  BY DEF KeyTyped, KeyUnchanged
<1>9. Reading'
  BY <1>8 DEF ConsInv, Reading
<1>10. (dozing # {} => r = w)'
  BY <1>8 DEF ConsInv, KeyTyped
<1>11. Out' = Out
  BY <1>8, OutStutters
<1>12. LD!Type(c)
  <2>1. IF c \in {"nl", "eof"} \/ Len(Lines) + Len(Edit) + 1 = INPUT_BUF
         THEN Lines' = Lines \o Append(Edit, c) /\ Edit' = <<>>
         ELSE Edit' = Append(Edit, c) /\ Lines' = Lines
    BY <1>2, <1>4, <1>5
  <2>2. Len(Lines) + Len(Edit) < INPUT_BUF
    BY <1>3, <1>5
  <2>3. QED
    BY <1>8, <1>11, <2>1, <2>2, TypeMaps
<1>13. QED
  BY <1>1, <1>2, <1>7, <1>9, <1>10, <1>12 DEF ConsInv

LEMMA KeyErasesStep ==
  ASSUME ConsInv, KeyErase \/ KeyKill
  PROVE  ConsInv' /\ LD!Erase
<1>1. ConsTypeOK'
  BY EraseTypes
<1>2. UNCHANGED <<call, got, left, uart>> /\ r' = r /\ w' = w /\ dozing' = dozing
  BY DEF KeyErase, KeyKill, KeyUnchanged
<1>3. Reading' /\ (dozing # {} => r = w)'
  BY <1>2 DEF ConsInv, Reading
<1>4. Out' = Out
  BY <1>2, OutStutters
<1>5. Edit \in Seq(Typable \ {"nl", "eof"})
  BY DEF ConsInv, Typed
<1>6. CASE KeyErase
  <2>1. Indices' /\ Lines' = Lines /\ Edit # <<>> /\ Edit' = SubSeq(Edit, 1, Len(Edit) - 1)
    BY <1>6, EraseStep
  <2>3. Edit' \in Seq(Typable \ {"nl", "eof"})
    <3>1. PICK m \in Nat : m = Len(Edit) - 1 /\ m < Len(Edit)
      BY <1>5, <2>1, EmptySeq
    <3>2. \A i \in 1..m : Edit[i] \in Typable \ {"nl", "eof"}
      BY <1>5, <3>1
    <3>3. SubSeq(Edit, 1, m) \in Seq(Typable \ {"nl", "eof"})
      BY <3>1, <3>2, SubSeqProperties
    <3>4. QED
      BY <2>1, <3>1, <3>3
  <2>4. Typed'
    BY <2>1, <2>3 DEF ConsInv, Typed, Typable
  <2>5. LD!Erase
    BY <1>2, <1>4, <2>1, EraseMaps
  <2>6. QED
    BY <1>1, <1>3, <2>1, <2>4, <2>5 DEF ConsInv
<1>7. CASE KeyKill
  <2>1. Indices' /\ Lines' = Lines /\ Edit # <<>> /\ Edit' = <<>>
    BY <1>7, KillStep
  <2>2. Edit' \in Seq(Typable \ {"nl", "eof"})
    BY <2>1, EmptySeq
  <2>3. Typed'
    BY <2>1, <2>2 DEF ConsInv, Typed, Typable
  <2>4. LD!Erase
    BY <1>2, <1>4, <2>1, EraseMaps
  <2>5. QED
    BY <1>1, <1>3, <2>1, <2>3, <2>4 DEF ConsInv
<1>8. QED
  BY <1>6, <1>7

\* What the invariant says of one reader.
LEMMA ReadingAt ==
  ASSUME ConsInv, NEW u \in Users
  PROVE  /\ call[u] # "read" => got[u] = <<>>
         /\ (got[u] # <<>> /\ left[u] > 0) => got[u][Len(got[u])] # "nl"
<1>1. Reading
  BY DEF ConsInv
<1>2. QED
  BY <1>1 DEF Reading

LEMMA CallStep ==
  ASSUME ConsInv, NEW u \in Users, Call(u)
  PROVE  ConsInv' /\ UNCHANGED LD!ldVars
<1>1. PICK c \in {"read", "write"}, n \in 0..MaxCount :
        call' = [call EXCEPT ![u] = c] /\ left' = [left EXCEPT ![u] = n]
  BY DEF Call
<1>2. /\ call[u] = "none" /\ consLock' = u
      /\ UNCHANGED <<input, dozing, nodding, got, killed, uart, panicked>>
  BY DEF Call
<1>3. ConsTypeOK'
  BY <1>1, <1>2 DEF ConsInv, ConsTypeOK, input, uart
<1>4. Lines' = Lines /\ Edit' = Edit /\ Indices' /\ Out' = Out
  BY <1>2, InputStutters, OutStutters DEF ConsInv
<1>5. Typed'
  BY <1>4 DEF ConsInv, Typed, Typable
<1>6. Reading'
  <2>1. ASSUME NEW v \in Users
        PROVE  /\ call'[v] # "read" => got'[v] = <<>>
               /\ (got'[v] # <<>> /\ left'[v] > 0) => got'[v][Len(got'[v])] # "nl"
    <3>1. got'[v] = got[v] /\ got[u] = <<>>
      BY <1>2, ReadingAt
    <3>2. CASE v = u
      BY <3>1, <3>2
    <3>3. CASE v # u
      <4>1. call'[v] = call[v] /\ left'[v] = left[v]
        BY <1>1, <3>3 DEF ConsInv, ConsTypeOK
      <4>2. QED
        BY <3>1, <4>1, ReadingAt
    <3>4. QED
      BY <3>2, <3>3
  <2>2. QED
    BY <2>1 DEF Reading
<1>7. (dozing # {} => r = w)'
  BY <1>2 DEF ConsInv, input
<1>8. UNCHANGED LD!ldVars
  BY <1>2, <1>4, RestMaps
<1>9. QED
  BY <1>3, <1>4, <1>5, <1>6, <1>7, <1>8 DEF ConsInv

\* What a return leaves behind.
LEMMA ReturnsKeep ==
  ASSUME ConsInv, NEW u \in Users, Returns(u)
  PROVE  /\ Reading' /\ Out' = Out
         /\ consLock' \in Users \cup {NoUser} /\ call' \in [Users -> {"none", "read", "write"}]
         /\ left' \in [Users -> 0..MaxCount] /\ got' \in [Users -> Seq(Typable)]
         /\ got' = [got EXCEPT ![u] = <<>>] /\ UNCHANGED <<dozing, nodding, killed, tx, txR, txW, panicked>>
<1>1. /\ call' = [call EXCEPT ![u] = "none"] /\ left' = [left EXCEPT ![u] = 0]
      /\ got' = [got EXCEPT ![u] = <<>>] /\ consLock' = NoUser
      /\ UNCHANGED <<dozing, nodding, killed, uart, panicked>>
  BY DEF Returns
<1>2. Out' = Out /\ UNCHANGED <<tx, txR, txW>>
  BY <1>1, OutStutters DEF uart
<1>3. <<>> \in Seq(Typable)
  BY EmptySeq
<1>4. MaxCount \in Nat \ {0}
  BY ConsoleAssumption
<1>5. /\ call' \in [Users -> {"none", "read", "write"}]
      /\ left' \in [Users -> 0..MaxCount] /\ got' \in [Users -> Seq(Typable)]
  BY <1>1, <1>3, <1>4 DEF ConsInv, ConsTypeOK
<1>6. Reading'
  <2>1. ASSUME NEW v \in Users
        PROVE  /\ call'[v] # "read" => got'[v] = <<>>
               /\ (got'[v] # <<>> /\ left'[v] > 0) => got'[v][Len(got'[v])] # "nl"
    <3>1. CASE v = u
      <4>1. got'[v] = <<>>
        BY <1>1, <3>1 DEF ConsInv, ConsTypeOK
      <4>2. QED
        BY <4>1
    <3>2. CASE v # u
      <4>1. call'[v] = call[v] /\ left'[v] = left[v] /\ got'[v] = got[v]
        BY <1>1, <3>2 DEF ConsInv, ConsTypeOK
      <4>2. QED
        BY <4>1, ReadingAt
    <3>3. QED
      BY <3>1, <3>2
  <2>2. QED
    BY <2>1 DEF Reading
<1>7. QED
  BY <1>1, <1>2, <1>5, <1>6

LEMMA ReturnStep ==
  ASSUME ConsInv, NEW u \in Users, Returns(u), UNCHANGED input
  PROVE  ConsInv' /\ LD!Return(u)
<1>1. /\ Reading' /\ Out' = Out
      /\ consLock' \in Users \cup {NoUser} /\ call' \in [Users -> {"none", "read", "write"}]
      /\ left' \in [Users -> 0..MaxCount] /\ got' \in [Users -> Seq(Typable)]
      /\ got' = [got EXCEPT ![u] = <<>>] /\ UNCHANGED <<dozing, nodding, killed, tx, txR, txW, panicked>>
  BY ReturnsKeep
<1>2. Lines' = Lines /\ Edit' = Edit /\ Indices'
  BY InputStutters DEF ConsInv
<1>3. ConsTypeOK'
  BY <1>1 DEF ConsInv, ConsTypeOK, input
<1>4. Typed' /\ (dozing # {} => r = w)'
  BY <1>1, <1>2 DEF ConsInv, Typed, Typable, input
<1>5. LD!Return(u)
  BY <1>1, <1>2, ReturnMaps
<1>6. QED
  BY <1>1, <1>2, <1>3, <1>4, <1>5 DEF ConsInv

\* What taking a byte leaves behind.
LEMMA TakeKeeps ==
  ASSUME ConsInv, r # w, Take, w' = w, e' = e
  PROVE  /\ Indices' /\ Typed' /\ Lines # <<>> /\ Head(Lines) = Next1 /\ Next1 \in Typable
         /\ Lines' = Tail(Lines) /\ Edit' = Edit /\ dozing = {}
         /\ buf' \in [0..(INPUT_BUF - 1) -> Typable \cup {"none"}]
         /\ {r', w', e'} \subseteq 0..(IndexWrap - 1)
<1>1. /\ Indices' /\ Lines # <<>> /\ Head(Lines) = Next1
      /\ Lines' = Tail(Lines) /\ Edit' = Edit
  BY TakeStep
<1>2. Lines \in Seq(Typable)
  BY DEF ConsInv, Typed
<1>3. Next1 \in Typable /\ Tail(Lines) \in Seq(Typable)
  <2>1. Head(Lines) \in Typable /\ Tail(Lines) \in Seq(Typable)
    BY <1>1, <1>2, HeadTailProperties
  <2>2. QED
    BY <1>1, <2>1
<1>4. Typed'
  BY <1>1, <1>3 DEF ConsInv, Typed, Typable
<1>5. dozing = {}
  BY DEF ConsInv
<1>6. /\ buf' \in [0..(INPUT_BUF - 1) -> Typable \cup {"none"}] /\ r' \in Idx
  BY TakeTypes
<1>7. QED
  BY <1>1, <1>3, <1>4, <1>5, <1>6 DEF ConsInv, ConsTypeOK, Idx

LEMMA ReadByteStep ==
  ASSUME ConsInv, NEW u \in Users, ReadByte(u)
  PROVE  ConsInv' /\ LD!Give(u)
<1>1. /\ call[u] = "read" /\ left[u] > 0 /\ r # w /\ Next1 # "eof" /\ Take
      /\ got' = [got EXCEPT ![u] = Append(got[u], Next1)]
      /\ left' = [left EXCEPT ![u] = IF Next1 = "nl" THEN 0 ELSE left[u] - 1]
      /\ UNCHANGED <<w, e, consLock, call, dozing, nodding, killed, uart, panicked>>
  BY DEF ReadByte, Reads
<1>2. /\ Indices' /\ Typed' /\ Lines # <<>> /\ Head(Lines) = Next1 /\ Next1 \in Typable
      /\ Lines' = Tail(Lines) /\ Edit' = Edit /\ dozing = {}
      /\ buf' \in [0..(INPUT_BUF - 1) -> Typable \cup {"none"}]
      /\ {r', w', e'} \subseteq 0..(IndexWrap - 1)
  BY <1>1, TakeKeeps
<1>3. got[u] \in Seq(Typable) /\ left[u] \in 0..MaxCount
  BY DEF ConsInv, ConsTypeOK
<1>4. /\ Append(got[u], Next1) \in Seq(Typable)
      /\ Append(got[u], Next1)[Len(Append(got[u], Next1))] = Next1
  BY <1>2, <1>3, AppendProperties
<1>5. got' \in [Users -> Seq(Typable)]
  BY <1>1, <1>4 DEF ConsInv, ConsTypeOK
<1>6. left' \in [Users -> 0..MaxCount]
  <2>1. MaxCount \in Nat \ {0}
    BY ConsoleAssumption
  <2>2. (IF Next1 = "nl" THEN 0 ELSE left[u] - 1) \in 0..MaxCount
    BY <1>1, <1>3, <2>1
  <2>3. QED
    BY <1>1, <2>2 DEF ConsInv, ConsTypeOK
<1>7. ConsTypeOK'
  BY <1>1, <1>2, <1>5, <1>6 DEF ConsInv, ConsTypeOK, uart
<1>8. Reading'
  <2>1. ASSUME NEW v \in Users
        PROVE  /\ call'[v] # "read" => got'[v] = <<>>
               /\ (got'[v] # <<>> /\ left'[v] > 0) => got'[v][Len(got'[v])] # "nl"
    <3>1. CASE v = u
      <4>1. got'[v] = Append(got[u], Next1) /\ call'[v] = "read"
        BY <1>1, <3>1 DEF ConsInv, ConsTypeOK
      <4>2. left'[v] > 0 => Next1 # "nl"
        BY <1>1, <3>1 DEF ConsInv, ConsTypeOK
      <4>3. QED
        BY <1>4, <4>1, <4>2
    <3>2. CASE v # u
      <4>1. call'[v] = call[v] /\ left'[v] = left[v] /\ got'[v] = got[v]
        BY <1>1, <3>2 DEF ConsInv, ConsTypeOK
      <4>2. QED
        BY <4>1, ReadingAt
    <3>3. QED
      BY <3>1, <3>2
  <2>2. QED
    BY <2>1 DEF Reading
<1>9. (dozing # {} => r = w)'
  BY <1>1, <1>2
<1>10. LD!Give(u)
  <2>1. got[u] # <<>> => got[u][Len(got[u])] # "nl" /\ Head(Lines) # "eof"
    BY <1>1, <1>2, ReadingAt
  <2>2. got' = [got EXCEPT ![u] = IF Head(Lines) = "eof" THEN got[u] ELSE Append(got[u], Head(Lines))]
    BY <1>1, <1>2
  <2>3. Out' = Out
    BY <1>1, OutStutters
  <2>4. QED
    BY <1>2, <2>1, <2>2, <2>3, GiveMaps
<1>11. QED
  BY <1>2, <1>7, <1>8, <1>9, <1>10 DEF ConsInv

\* A byte is taken and the call returns without it.
LEMMA TakeReturnStep ==
  ASSUME ConsInv, NEW u \in Users, r # w, Take, w' = w, e' = e, Returns(u)
  PROVE  ConsInv'
<1>1. /\ Reading' /\ Out' = Out
      /\ consLock' \in Users \cup {NoUser} /\ call' \in [Users -> {"none", "read", "write"}]
      /\ left' \in [Users -> 0..MaxCount] /\ got' \in [Users -> Seq(Typable)]
      /\ got' = [got EXCEPT ![u] = <<>>] /\ UNCHANGED <<dozing, nodding, killed, tx, txR, txW, panicked>>
  BY ReturnsKeep
<1>2. /\ Indices' /\ Typed' /\ dozing = {}
      /\ buf' \in [0..(INPUT_BUF - 1) -> Typable \cup {"none"}]
      /\ {r', w', e'} \subseteq 0..(IndexWrap - 1)
  BY TakeKeeps
<1>3. ConsTypeOK'
  BY <1>1, <1>2 DEF ConsInv, ConsTypeOK
<1>4. QED
  BY <1>1, <1>2, <1>3 DEF ConsInv

LEMMA ReadBadStep ==
  ASSUME ConsInv, NEW u \in Users, ReadBadAddress(u)
  PROVE  ConsInv' /\ LD!Lose(u)
<1>1. /\ r # w /\ Next1 # "eof" /\ Take /\ w' = w /\ e' = e /\ Returns(u)
  BY DEF ReadBadAddress
<1>2. ConsInv'
  BY <1>1, TakeReturnStep
<1>3. /\ Lines # <<>> /\ Head(Lines) = Next1 /\ Lines' = Tail(Lines) /\ Edit' = Edit
  BY <1>1, TakeKeeps
<1>4. Out' = Out /\ got' = [got EXCEPT ![u] = <<>>]
  BY <1>1, ReturnsKeep
<1>5. QED
  BY <1>1, <1>2, <1>3, <1>4, LoseMaps

LEMMA ReadEofStep ==
  ASSUME ConsInv, NEW u \in Users, ReadEof(u)
  PROVE  ConsInv' /\ (LD!Give(u) \/ LD!Return(u))
<1>1. /\ r # w /\ Next1 = "eof" /\ w' = w /\ e' = e /\ Returns(u)
      /\ IF got[u] = <<>> THEN Take ELSE r' = Down(Up(r)) /\ UNCHANGED buf
  BY DEF ReadEof
<1>2. CASE got[u] = <<>>
  <2>1. Take
    BY <1>1, <1>2
  <2>2. ConsInv'
    BY <1>1, <2>1, TakeReturnStep
  <2>3. /\ Lines # <<>> /\ Head(Lines) = Next1 /\ Lines' = Tail(Lines) /\ Edit' = Edit
    BY <1>1, <2>1, TakeKeeps
  <2>4. Out' = Out /\ got' = [got EXCEPT ![u] = <<>>]
    BY <1>1, ReturnsKeep
  <2>5. got' = [got EXCEPT ![u] = IF Head(Lines) = "eof" THEN got[u] ELSE Append(got[u], Head(Lines))]
    BY <1>1, <1>2, <2>3, <2>4
  <2>6. LD!Give(u)
    BY <1>2, <2>3, <2>4, <2>5, GiveMaps
  <2>7. QED
    BY <2>2, <2>6
<1>3. CASE got[u] # <<>>
  <2>1. r' = r
    BY <1>1, <1>3, InputTypes, DistMoves DEF ConsInv
  <2>2. UNCHANGED input
    BY <1>1, <1>3, <2>1 DEF input
  <2>3. QED
    BY <1>1, <2>2, ReturnStep
<1>4. QED
  BY <1>2, <1>3

\* Steps that only move a reader between sleep and the lock, and kill().
LEMMA WaitStep ==
  ASSUME ConsInv, Nodding, NEW u \in Users,
         \/ ReadWaits(u) \/ ReadSleeps(u) \/ ReadWoken(u) \/ KillUser(u) \/ Exits(u)
         \/ WritePanics(u)
  PROVE  ConsInv' /\ UNCHANGED LD!ldVars
<1>1. UNCHANGED <<input, call, left, got, uart>>
  BY DEF ReadWaits, ReadSleeps, ReadWoken, KillUser, Exits, WritePanics
<1>2. /\ dozing' \subseteq Users /\ nodding' \subseteq Users /\ killed' \subseteq Users
      /\ consLock' \in Users \cup {NoUser} /\ panicked' \in BOOLEAN
  BY DEF ReadWaits, ReadSleeps, ReadWoken, KillUser, Exits, WritePanics, ConsInv, ConsTypeOK
<1>3. dozing' \subseteq dozing \/ r = w
  <2>1. CASE ReadSleeps(u)
    BY <2>1 DEF ReadSleeps, Nodding
  <2>2. CASE ~ReadSleeps(u)
    BY <2>2 DEF ReadWaits, ReadWoken, KillUser, Exits, WritePanics
  <2>3. QED
    BY <2>1, <2>2
<1>4. ConsTypeOK'
  BY <1>1, <1>2 DEF ConsInv, ConsTypeOK, input, uart
<1>5. Lines' = Lines /\ Edit' = Edit /\ Indices' /\ Out' = Out
  BY <1>1, InputStutters, OutStutters DEF ConsInv
<1>6. Typed' /\ Reading'
  BY <1>1, <1>5 DEF ConsInv, Typed, Typable, Reading
<1>7. (dozing # {} => r = w)'
  BY <1>1, <1>3 DEF ConsInv, input
<1>8. UNCHANGED LD!ldVars
  BY <1>1, <1>5, RestMaps
<1>9. QED
  BY <1>4, <1>5, <1>6, <1>7, <1>8 DEF ConsInv

\* While a reader is between its test and its sleep, no step moves r or w.
LEMMA NoddingStep ==
  ASSUME ConsTypeOK, Nodding, [ConsNext]_consVars
  PROVE  Nodding'
<1>1. NoUser \notin Users
  BY ConsoleAssumption
<1>2. consLock = NoUser => nodding = {}
  BY <1>1 DEF Nodding, ConsTypeOK
<1>3. ASSUME NEW u \in Users, consLock = u, u \notin nodding PROVE nodding = {}
  BY <1>3 DEF Nodding
<1>4. ASSUME NEW u \in Users, consLock = u, call[u] = "write" PROVE nodding = {}
  BY <1>4 DEF Nodding
<1>5. CASE UNCHANGED consVars
  BY <1>5 DEF consVars, input, Nodding
<1>6. CASE UartStart
  BY <1>6 DEF UartStart, input, Nodding
<1>7. ASSUME NEW c, KeyTyped(c) PROVE Nodding'
  BY <1>2, <1>7 DEF KeyTyped, KeyUnchanged, Nodding
<1>8. CASE KeyErase \/ KeyKill
  BY <1>2, <1>8 DEF KeyErase, KeyKill, KeyUnchanged, Nodding
<1>9. ASSUME NEW u \in Users, Call(u) \/ ReadWoken(u) PROVE Nodding'
  BY <1>2, <1>9 DEF Call, ReadWoken, Nodding
<1>10. ASSUME NEW u \in Users, Reads(u),
              ReadByte(u) \/ ReadDone(u) \/ ReadEof(u) \/ ReadBadAddress(u) \/ ReadKilled(u)
       PROVE  Nodding'
  <2>1. nodding = {}
    BY <1>3, <1>10 DEF Reads
  <2>2. nodding' = nodding
    BY <1>10, Zenon DEF ReadByte, ReadDone, ReadEof, ReadBadAddress, ReadKilled, Returns
  <2>3. QED
    BY <2>1, <2>2 DEF Nodding
<1>11. ASSUME NEW u \in Users, ReadWaits(u) PROVE Nodding'
  <2>1. consLock = u /\ call[u] = "read" /\ r = w /\ nodding = {}
    BY <1>3, <1>11 DEF ReadWaits, Reads
  <2>2. nodding' = {u} /\ UNCHANGED <<input, consLock, call>>
    BY <1>11, <2>1 DEF ReadWaits
  <2>3. QED
    BY <2>1, <2>2 DEF input, Nodding
<1>12. ASSUME NEW u \in Users, ReadSleeps(u) PROVE Nodding'
  <2>1. \A v \in nodding : v = u
    BY <1>12 DEF ReadSleeps, Nodding
  <2>2. nodding' = {}
    BY <1>12, <2>1 DEF ReadSleeps
  <2>3. QED
    BY <2>2 DEF Nodding
<1>13. ASSUME NEW u \in Users, KillUser(u) \/ Exits(u) PROVE Nodding'
  BY <1>13 DEF KillUser, Exits, input, Nodding
<1>14. ASSUME NEW u \in Users,
              WriteByte(u) \/ CopyinFails(u) \/ WritePanics(u) \/ WriteDone(u)
       PROVE  Nodding'
  <2>1. nodding = {}
    BY <1>4, <1>14 DEF WriteByte, CopyinFails, WritePanics, WriteDone
  <2>2. nodding' = nodding
    BY <1>14 DEF WriteByte, CopyinFails, WritePanics, WriteDone, Returns
  <2>3. QED
    BY <2>1, <2>2 DEF Nodding
<1>15. ASSUME NEW u \in Users,
              ReadByte(u) \/ ReadDone(u) \/ ReadEof(u) \/ ReadBadAddress(u) \/ ReadKilled(u)
       PROVE  Reads(u)
  BY <1>15 DEF ReadByte, ReadDone, ReadEof, ReadBadAddress, ReadKilled
<1>16. QED
  BY <1>5, <1>6, <1>7, <1>8, <1>9, <1>10, <1>11, <1>12, <1>13, <1>14, <1>15 DEF ConsNext

LEMMA WriteByteStep ==
  ASSUME ConsInv, NEW u \in Users, WriteByte(u)
  PROVE  ConsInv' /\ LD!Put(u)
<1>1. /\ call[u] = "write" /\ left[u] > 0 /\ left' = [left EXCEPT ![u] = left[u] - 1]
      /\ UNCHANGED <<input, consLock, call, dozing, nodding, got, killed, txR, panicked>>
  BY DEF WriteByte
<1>2. /\ tx' \in [0..(UART_TX_BUF_SIZE - 1) -> Users \cup {NoUser}]
      /\ txW' \in 0..(UART_TX_BUF_SIZE - 1)
      /\ Len(Out) < UART_TX_BUF_SIZE - 1 /\ Out' = Append(Out, u)
  BY PutStep DEF ConsInv
<1>3. left' \in [Users -> 0..MaxCount]
  <2>1. MaxCount \in Nat \ {0}
    BY ConsoleAssumption
  <2>2. left[u] - 1 \in 0..MaxCount
    BY <1>1, <2>1 DEF ConsInv, ConsTypeOK
  <2>3. QED
    BY <1>1, <2>2 DEF ConsInv, ConsTypeOK
<1>4. ConsTypeOK'
  BY <1>1, <1>2, <1>3 DEF ConsInv, ConsTypeOK, input
<1>5. Lines' = Lines /\ Edit' = Edit /\ Indices'
  BY <1>1, InputStutters DEF ConsInv
<1>6. Typed' /\ (dozing # {} => r = w)'
  BY <1>1, <1>5 DEF ConsInv, Typed, Typable, input
<1>7. Reading'
  <2>1. ASSUME NEW v \in Users
        PROVE  /\ call'[v] # "read" => got'[v] = <<>>
               /\ (got'[v] # <<>> /\ left'[v] > 0) => got'[v][Len(got'[v])] # "nl"
    <3>1. call'[v] = call[v] /\ got'[v] = got[v]
      BY <1>1
    <3>2. CASE v = u
      <4>1. got'[v] = <<>>
        BY <1>1, <3>1, <3>2, ReadingAt
      <4>2. QED
        BY <4>1
    <3>3. CASE v # u
      <4>1. left'[v] = left[v]
        BY <1>1, <3>3 DEF ConsInv, ConsTypeOK
      <4>2. QED
        BY <3>1, <4>1, ReadingAt
    <3>4. QED
      BY <3>2, <3>3
  <2>2. QED
    BY <2>1 DEF Reading
<1>8. LD!Put(u)
  BY <1>1, <1>2, <1>5, PutMaps
<1>9. QED
  BY <1>4, <1>5, <1>6, <1>7, <1>8 DEF ConsInv

LEMMA UartStartStep ==
  ASSUME ConsInv, UartStart
  PROVE  ConsInv' /\ LD!Send
<1>1. UNCHANGED <<input, consLock, call, dozing, nodding, left, got, killed, txW, panicked>>
  BY DEF UartStart
<1>2. /\ tx' \in [0..(UART_TX_BUF_SIZE - 1) -> Users \cup {NoUser}]
      /\ txR' \in 0..(UART_TX_BUF_SIZE - 1) /\ Out # <<>> /\ Out' = Tail(Out)
  BY SendStep DEF ConsInv
<1>3. ConsTypeOK'
  BY <1>1, <1>2 DEF ConsInv, ConsTypeOK, input
<1>4. Lines' = Lines /\ Edit' = Edit /\ Indices'
  BY <1>1, InputStutters DEF ConsInv
<1>5. Typed' /\ Reading' /\ (dozing # {} => r = w)'
  BY <1>1, <1>4 DEF ConsInv, Typed, Typable, Reading, input
<1>6. LD!Send
  BY <1>1, <1>2, <1>4, SendMaps
<1>7. QED
  BY <1>3, <1>4, <1>5, <1>6 DEF ConsInv

LEMMA ConsInitial ==
  ASSUME ConsInit
  PROVE  ConsInv /\ LD!LDInit
<1>1. /\ INPUT_BUF \in Nat \ {0} /\ IndexWrap \in Nat \ {0} /\ UART_TX_BUF_SIZE \in Nat \ {0}
      /\ MaxCount \in Nat
  BY ConsoleAssumption
<1>2. <<>> \in Seq(Typable) /\ <<>> \in Seq(Typable \ {"nl", "eof"})
  BY EmptySeq
<1>3. ConsTypeOK
  <2>1. buf \in [0..(INPUT_BUF - 1) -> Typable \cup {"none"}]
    BY DEF ConsInit
  <2>2. {r, w, e} \subseteq 0..(IndexWrap - 1) /\ {txR, txW} \subseteq 0..(UART_TX_BUF_SIZE - 1)
    BY <1>1 DEF ConsInit
  <2>3. /\ consLock \in Users \cup {NoUser} /\ call \in [Users -> {"none", "read", "write"}]
        /\ dozing \subseteq Users /\ nodding \subseteq Users /\ killed \subseteq Users
        /\ panicked \in BOOLEAN
    BY DEF ConsInit
  <2>4. left \in [Users -> 0..MaxCount]
    BY <1>1 DEF ConsInit
  <2>5. got \in [Users -> Seq(Typable)]
    BY <1>2 DEF ConsInit
  <2>6. tx \in [0..(UART_TX_BUF_SIZE - 1) -> Users \cup {NoUser}]
    BY DEF ConsInit
  <2>7. QED
    BY <2>1, <2>2, <2>3, <2>4, <2>5, <2>6 DEF ConsTypeOK
<1>4. r = 0 /\ w = 0 /\ e = 0 /\ Dist(0, 0) = 0
  <2>1. 0 \in Idx
    BY <1>1 DEF Idx
  <2>2. QED
    BY <2>1, DistMoves DEF ConsInit
<1>5. Lines = <<>> /\ Edit = <<>>
  BY <1>4 DEF Lines, Edit, Ring
<1>6. Indices /\ Typed
  BY <1>1, <1>2, <1>4, <1>5 DEF Indices, Typed
<1>7. Out = <<>>
  <2>1. TxHeld = 0
    <3>1. txR = 0 /\ txW = 0
      BY DEF ConsInit
    <3>2. TxHeld = IF txW >= txR THEN txW - txR ELSE txW - txR + UART_TX_BUF_SIZE
      BY <1>3, TxFacts
    <3>3. QED
      BY <3>1, <3>2
  <2>2. QED
    BY <2>1 DEF Out, Ring
<1>8. Reading /\ (dozing # {} => r = w)
  BY DEF ConsInit, Reading
<1>9. got = [u \in Users |-> <<>>]
  BY DEF ConsInit
<1>10. LD!LDInit
  BY <1>5, <1>7, <1>9 DEF LD!LDInit, Lines, Edit, Out, TxHeld
<1>11. QED
  BY <1>3, <1>6, <1>8, <1>10 DEF ConsInv

LEMMA ConsSteps ==
  ASSUME ConsInv, Nodding, [ConsNext]_consVars
  PROVE  ConsInv' /\ [LD!LDNext]_(LD!ldVars)
<1>1. CASE UNCHANGED consVars
  <2>1. UNCHANGED <<input, consLock, call, dozing, nodding, left, got, killed, uart, panicked>>
    BY <1>1 DEF consVars
  <2>2. Lines' = Lines /\ Edit' = Edit /\ Indices' /\ Out' = Out
    BY <2>1, InputStutters, OutStutters DEF ConsInv
  <2>3. ConsTypeOK' /\ Typed' /\ Reading' /\ (dozing # {} => r = w)'
    BY <2>1, <2>2 DEF ConsInv, ConsTypeOK, Typed, Typable, Reading, input, uart
  <2>4. UNCHANGED LD!ldVars
    BY <2>1, <2>2, RestMaps
  <2>5. QED
    BY <2>2, <2>3, <2>4 DEF ConsInv
<1>2. ASSUME NEW c \in Letters \cup {"nl", "eof"}, KeyTyped(c)
      PROVE  ConsInv' /\ LD!LDNext
  <2>1. ConsInv' /\ LD!Type(c)
    BY <1>2, KeyTypedStep DEF Typable
  <2>2. QED
    BY <2>1 DEF LD!LDNext
<1>3. ASSUME KeyErase \/ KeyKill PROVE ConsInv' /\ LD!LDNext
  BY <1>3, KeyErasesStep DEF LD!LDNext
<1>4. ASSUME UartStart PROVE ConsInv' /\ LD!LDNext
  BY <1>4, UartStartStep DEF LD!LDNext
<1>5. ASSUME NEW u \in Users, ReadByte(u) PROVE ConsInv' /\ LD!LDNext
  BY <1>5, ReadByteStep DEF LD!LDNext
<1>6. ASSUME NEW u \in Users, ReadEof(u) PROVE ConsInv' /\ LD!LDNext
  BY <1>6, ReadEofStep DEF LD!LDNext
<1>7. ASSUME NEW u \in Users, ReadBadAddress(u) PROVE ConsInv' /\ LD!LDNext
  BY <1>7, ReadBadStep DEF LD!LDNext
<1>8. ASSUME NEW u \in Users, ReadDone(u) \/ ReadKilled(u) \/ WriteDone(u) \/ CopyinFails(u)
      PROVE  ConsInv' /\ LD!LDNext
  <2>1. Returns(u) /\ UNCHANGED input
    BY <1>8 DEF ReadDone, ReadKilled, WriteDone, CopyinFails
  <2>2. QED
    BY <2>1, ReturnStep DEF LD!LDNext
<1>9. ASSUME NEW u \in Users, WriteByte(u) PROVE ConsInv' /\ LD!LDNext
  BY <1>9, WriteByteStep DEF LD!LDNext
<1>10. ASSUME NEW u \in Users, Call(u) PROVE ConsInv' /\ UNCHANGED LD!ldVars
  BY <1>10, CallStep
<1>11. ASSUME NEW u \in Users,
              \/ ReadWaits(u) \/ ReadSleeps(u) \/ ReadWoken(u) \/ KillUser(u) \/ Exits(u)
              \/ WritePanics(u)
       PROVE  ConsInv' /\ UNCHANGED LD!ldVars
  BY <1>11, WaitStep
<1>12. QED
  BY <1>1, <1>2, <1>3, <1>4, <1>5, <1>6, <1>7, <1>8, <1>9, <1>10, <1>11 DEF ConsNext

LEMMA ConsInvariance == ConsSpec => [](ConsInv /\ Nodding)
<1>1. ConsInit => ConsInv /\ Nodding
  BY ConsInitial DEF ConsInit, Nodding
<1>2. ConsInv /\ Nodding /\ [ConsNext]_consVars => (ConsInv /\ Nodding)'
  BY ConsSteps, NoddingStep DEF ConsInv
<1>3. QED
  BY <1>1, <1>2, PTL DEF ConsSpec

\* A reader of the console sleeps only while there is no line, and no end of file,
\* for it (console.c: consoleread() and consoleintr()), whatever the size of the
\* ring and however often its indices have wrapped.
THEOREM ConsoleAlwaysServes == ConsSpec => []ConsoleServes
<1>1. ConsInv => ConsoleServes
  BY DEF ConsInv, ConsoleServes
<1>2. QED
  BY <1>1, ConsInvariance, PTL

\* The console is a line discipline (console.c and uart.c): what is typed can be
\* edited until its line ends; each byte is given once, in the order of typing, to
\* a read that gets no more than a line, and an end of file is saved for a read
\* that has nothing; what is written is sent in the order of the writes.
THEOREM ConsoleRefinesLines == ConsSpec => ConsoleImplementsLines
<1>1. ConsInit => LD!LDInit
  BY ConsInitial
<1>2. ConsInv /\ Nodding /\ [ConsNext]_consVars => [LD!LDNext]_(LD!ldVars)
  BY ConsSteps
<1>3. QED
  BY <1>1, <1>2, ConsInvariance, PTL DEF ConsSpec, ConsoleImplementsLines, LD!LDSpec

-----------------------------------------------------------------------------
(* Numbers of pages, and the places that point to them. *)

LEMMA MemSizes ==
  /\ Procs \subseteq Nat /\ IsFiniteSet(Procs) /\ 1 \in Procs
  /\ PGSIZE \in Nat /\ PGSIZE >= 1 /\ FANOUT \in Nat /\ FANOUT >= 1
  /\ SizeWrap \in Nat /\ NPAGES \in Nat /\ NPAGES >= 9 /\ UserTop \in Nat
  /\ MaxArgs \in Nat /\ MaxPipes \in Nat /\ UserTop + 3 * PGSIZE < SizeWrap
  /\ PageUp(UserTop) + 2 < TRAPFRAME
BY FS_CardinalityType, MemoryAssumption

\* A loop over addresses that are multiples of the page size counts pages.
LEMMA PageUpIs ==
  ASSUME NEW n \in Nat
  PROVE  /\ PageUp(n) \in Nat /\ PageUp(n) <= n
         /\ \A a \in Int : a * PGSIZE >= n <=> a >= PageUp(n)
         /\ PageUp(n) * PGSIZE < n + PGSIZE
<1> DEFINE u == PageUp(n)
<1>1. PGSIZE \in Nat \ {0}
  BY MemSizes
<1>2. PICK q \in Int, c \in 0..(PGSIZE - 1) : n + PGSIZE - 1 = PGSIZE * q + c /\ q = u
  <2> n + PGSIZE - 1 \in Int
    BY <1>1
  <2> QED
    BY <1>1, ModDiv DEF PageUp
<1>3. q >= 0
  <2> SUFFICES ASSUME q <= -1 PROVE FALSE
    OBVIOUS
  <2>1. PGSIZE * q <= PGSIZE * (-1)
    BY <1>1
  <2>2. QED
    BY <2>1, <1>1, <1>2
<1>4. ASSUME NEW a \in Int PROVE a * PGSIZE >= n <=> a >= q
  <2>1. CASE a >= q
    <3>1. PGSIZE * a >= PGSIZE * q
      BY <2>1, <1>1
    <3>2. QED
      BY <3>1, <2>1, <1>1, <1>2
  <2>2. CASE a <= q - 1
    <3>1. PGSIZE * a <= PGSIZE * (q - 1) /\ PGSIZE * (q - 1) = PGSIZE * q - PGSIZE
      BY <2>2, <1>1
    <3>2. QED
      BY <3>1, <2>2, <1>1, <1>2
  <2>3. QED
    BY <2>1, <2>2
<1>5. n * PGSIZE >= n
  BY <1>1
<1>6. QED
  BY <1>1, <1>2, <1>3, <1>4, <1>5

LEMMA PageUpLess ==
  ASSUME NEW m \in Nat, NEW n \in Nat, m <= n
  PROVE  PageUp(m) <= PageUp(n)
BY PageUpIs, MemSizes

\* Pages more than a whole number of pages.
LEMMA PageUpMultiple ==
  ASSUME NEW k \in Nat, NEW j \in Nat
  PROVE  PageUp(k * PGSIZE + j * PGSIZE) = k + j /\ k * PGSIZE \in Nat /\ j * PGSIZE \in Nat
<1>1. PICK n \in Nat : n = (k + j) * PGSIZE /\ n = k * PGSIZE + j * PGSIZE
  BY MemSizes
<1>2. \A a \in Int : a * PGSIZE >= n <=> a >= PageUp(n)
  BY PageUpIs
<1>3. PageUp(n) \in Nat
  BY PageUpIs
<1>4. k + j >= PageUp(n)
  BY <1>1, <1>2, MemSizes
<1>5. PageUp(n) >= k + j
  <2> SUFFICES ASSUME PageUp(n) <= k + j - 1 PROVE FALSE
    BY <1>3
  <2>1. PageUp(n) * PGSIZE <= (k + j - 1) * PGSIZE
    BY <1>3, MemSizes
  <2>2. (k + j - 1) * PGSIZE = (k + j) * PGSIZE - PGSIZE
    BY MemSizes
  <2>3. PageUp(n) * PGSIZE >= n
    BY <1>2, <1>3
  <2>4. QED
    BY <2>1, <2>2, <2>3, <1>1, <1>3, MemSizes
<1>6. QED
  BY <1>1, <1>3, <1>4, <1>5, MemSizes

LEMMA DivIn ==
  ASSUME NEW k \in Nat, k >= 1, NEW va \in VIRTUALS
  PROVE  va \div k \in VIRTUALS
<1>1. va \in Nat /\ FANOUT * FANOUT * FANOUT \in Int
  BY MemSizes DEF VIRTUALS
<1>2. PICK q \in Int, c \in 0..(k - 1) : va = k * q + c /\ q = va \div k
  <2> k \in Nat \ {0} /\ va \in Int
    BY <1>1
  <2> QED
    BY ModDiv
<1>3. q >= 0
  <2> SUFFICES ASSUME q <= -1 PROVE FALSE
    OBVIOUS
  <2>1. k * q <= k * (-1)
    OBVIOUS
  <2>2. QED
    BY <2>1, <1>1, <1>2
<1>4. k * q >= q
  BY <1>3
<1>5. QED
  BY <1>1, <1>2, <1>3, <1>4 DEF VIRTUALS

\* The places of one process count apart from the others'.
LEMMA PlacesAt ==
  ASSUME NEW f, NEW g, NEW q \in Procs,
         \A p \in Procs : IsFiniteSet(f[p]) /\ IsFiniteSet(g[p]),
         \A p \in Procs \ {q} : g[p] = f[p]
  PROVE  /\ Places(f) \in Nat /\ Places(g) \in Nat
         /\ Cardinality(f[q]) \in Nat /\ Cardinality(g[q]) \in Nat
         /\ Places(g) = Places(f) - Cardinality(f[q]) + Cardinality(g[q])
<1> DEFINE R == UNION {{p} \X f[p] : p \in Procs \ {q}}
<1>1. IsFiniteSet(Procs \ {q})
  BY MemSizes, FS_Difference
<1>2. IsFiniteSet(R)
  <2> DEFINE S == {{p} \X f[p] : p \in Procs \ {q}}
             h == [p \in Procs \ {q} |-> {p} \X f[p]]
  <2>1. h \in Surjection(Procs \ {q}, S)
    BY DEF Surjection
  <2>2. IsFiniteSet(S)
    BY <2>1, <1>1, FS_Surjection
  <2>3. ASSUME NEW T \in S PROVE IsFiniteSet(T)
    <3>1. PICK p \in Procs : T = {p} \X f[p]
      OBVIOUS
    <3>2. IsFiniteSet({p}) /\ IsFiniteSet(f[p])
      BY FS_Singleton
    <3>3. QED
      BY <3>1, <3>2, FS_Product
  <2> HIDE DEF S
  <2>4. IsFiniteSet(UNION S)
    BY <2>2, <2>3, FS_UNION
  <2>5. QED
    BY <2>4 DEF S
<1>3. ASSUME NEW y, \A p \in Procs : IsFiniteSet(y[p]), \A p \in Procs \ {q} : y[p] = f[p]
      PROVE  Places(y) = Cardinality(R) + Cardinality(y[q])
             /\ Cardinality(R) \in Nat /\ Cardinality(y[q]) \in Nat
  <2>1. UNION {{p} \X y[p] : p \in Procs} = R \cup ({q} \X y[q])
    <3>1. {{p} \X y[p] : p \in Procs} = {{p} \X f[p] : p \in Procs \ {q}} \cup {{q} \X y[q]}
      BY <1>3
    <3>2. QED
      BY <3>1
  <2>2. R \cap ({q} \X y[q]) = {}
    OBVIOUS
  <2>3. IsFiniteSet(y[q])
    BY <1>3
  <2>4. IsFiniteSet({q}) /\ Cardinality({q}) = 1
    BY FS_Singleton
  <2>5. Cardinality(y[q]) \in Nat /\ Cardinality(R) \in Nat
    BY <2>3, <1>2, FS_CardinalityType
  <2>6. IsFiniteSet({q} \X y[q]) /\ Cardinality({q} \X y[q]) = Cardinality({q}) * Cardinality(y[q])
    BY <2>3, <2>4, FS_Product
  <2>7. Cardinality({q} \X y[q]) = Cardinality(y[q])
    BY <2>4, <2>5, <2>6
  <2> HIDE DEF R
  <2>8. Cardinality(R \cup ({q} \X y[q]))
          = Cardinality(R) + Cardinality({q} \X y[q]) - Cardinality(R \cap ({q} \X y[q]))
    BY <1>2, <2>6, FS_Union
  <2>9. Cardinality(R \cap ({q} \X y[q])) = 0
    BY <2>2, FS_EmptySet
  <2>10. Places(y) = Cardinality(R \cup ({q} \X y[q]))
    BY <2>1 DEF Places
  <2>11. QED
    BY <2>5, <2>7, <2>8, <2>9, <2>10
<1> HIDE DEF R
<1>4. Places(f) = Cardinality(R) + Cardinality(f[q])
      /\ Cardinality(R) \in Nat /\ Cardinality(f[q]) \in Nat
  BY <1>3
<1>5. Places(g) = Cardinality(R) + Cardinality(g[q]) /\ Cardinality(g[q]) \in Nat
  BY <1>3
<1>6. QED
  BY <1>4, <1>5

Bit(b) == IF b THEN 1 ELSE 0

\* The same for a yes or no of each process.
LEMMA CountAt ==
  ASSUME NEW f, NEW g, NEW q \in Procs, f[q] \in BOOLEAN, g[q] \in BOOLEAN,
         \A p \in Procs \ {q} : g[p] = f[p]
  PROVE  /\ Cardinality({p \in Procs : f[p]}) \in Nat
         /\ Cardinality({p \in Procs : g[p]}) \in Nat
         /\ Cardinality({p \in Procs : g[p]})
              = Cardinality({p \in Procs : f[p]}) - Bit(f[q]) + Bit(g[q])
<1> DEFINE R == {p \in Procs \ {q} : f[p]}
<1>1. IsFiniteSet(R) /\ q \notin R
  BY MemSizes, FS_Subset
<1>2. Cardinality(R) \in Nat
  BY <1>1, FS_CardinalityType
<1>3. ASSUME NEW y, y[q] \in BOOLEAN, \A p \in Procs \ {q} : y[p] = f[p]
      PROVE  Cardinality({p \in Procs : y[p]}) = Cardinality(R) + Bit(y[q])
  <2>1. {p \in Procs : y[p]} = IF y[q] THEN R \cup {q} ELSE R
    BY <1>3
  <2>2. Cardinality(R \cup {q}) = Cardinality(R) + 1
    BY <1>1, FS_AddElement
  <2> HIDE DEF R
  <2>3. CASE y[q]
    BY <1>2, <2>1, <2>2, <2>3 DEF Bit
  <2>4. CASE ~y[q]
    <3>1. {p \in Procs : y[p]} = R
      BY <2>1, <2>4
    <3>2. Bit(y[q]) = 0
      BY <2>4 DEF Bit
    <3>3. Cardinality({p \in Procs : y[p]}) = Cardinality(R)
      BY <3>1, Zenon
    <3>4. QED
      BY <1>2, <3>2, <3>3
  <2>5. QED
    BY <2>3, <2>4
<1> HIDE DEF R
<1>4. Cardinality({p \in Procs : f[p]}) = Cardinality(R) + Bit(f[q])
  BY <1>3
<1>5. Cardinality({p \in Procs : g[p]}) = Cardinality(R) + Bit(g[q])
  BY <1>3
<1>6. QED
  BY <1>2, <1>4, <1>5 DEF Bit

-----------------------------------------------------------------------------
(* Page tables. *)

UserPages(t) == t.leaves \ {TRAMPOLINE, TRAPFRAME}

\* The pages of one table.
PagesOf(t) == Bit(t.root) + Cardinality(t.dirs) + Cardinality(UserPages(t))

\* A table with the user's first n pages.
MostPages == PageUp(UserTop) + 2
Space(t, n) == /\ t.root /\ n <= MostPages
               /\ t.leaves = 0..(n - 1) \cup {TRAMPOLINE, TRAPFRAME}
               /\ t.guard \subseteq 0..(n - 1)

LEMMA HighPages ==
  /\ TRAMPOLINE \in VIRTUALS /\ TRAPFRAME \in VIRTUALS /\ TRAMPOLINE \in Int
  /\ TRAPFRAME = TRAMPOLINE - 1 /\ MostPages \in Nat /\ MostPages < TRAPFRAME
  /\ \A k \in Nat : k < MostPages => k \in VIRTUALS \ {TRAMPOLINE, TRAPFRAME}
<1>1. FANOUT * FANOUT * FANOUT \in Int
  BY MemSizes
<1>2. MostPages \in Nat /\ MostPages < TRAPFRAME
  BY MemSizes, PageUpIs, SMTT(30) DEF MostPages
<1>3. QED
  BY <1>1, <1>2 DEF TRAMPOLINE, TRAPFRAME, VIRTUALS

LEMMA FiniteVirtuals == IsFiniteSet(VIRTUALS)
<1>1. FANOUT * FANOUT * FANOUT - 1 \in Int
  BY MemSizes
<1>2. QED
  BY <1>1, FS_Interval DEF VIRTUALS

LEMMA FiniteDirs == IsFiniteSet(Dirs)
<1> DEFINE f == [x \in {0, 1} \X VIRTUALS |-> [level |-> x[1], index |-> x[2]]]
<1>1. {0, 1} = {0} \cup {1}
  OBVIOUS
<1>2. IsFiniteSet({0, 1})
  <2>1. IsFiniteSet({0} \cup {1})
    BY FS_Singleton, FS_AddElement
  <2>2. QED
    BY <2>1, <1>1
<1>3. IsFiniteSet({0, 1} \X VIRTUALS)
  BY <1>2, FiniteVirtuals, FS_Product
<1>4. f \in Surjection({0, 1} \X VIRTUALS, Dirs)
  <2>1. f \in [{0, 1} \X VIRTUALS -> Dirs]
    BY DEF Dirs
  <2>2. ASSUME NEW d \in Dirs PROVE \E x \in {0, 1} \X VIRTUALS : f[x] = d
    <3>1. <<d.level, d.index>> \in {0, 1} \X VIRTUALS
      BY DEF Dirs
    <3>2. f[<<d.level, d.index>>] = d
      BY <3>1 DEF Dirs
    <3>3. QED
      BY <3>1, <3>2
  <2> HIDE DEF f
  <2>3. QED
    BY <2>1, <2>2 DEF Surjection
<1> HIDE DEF f
<1>5. QED
  BY <1>3, <1>4, FS_Surjection

LEMMA TableFinite ==
  ASSUME NEW t \in Tables
  PROVE  /\ IsFiniteSet(t.dirs) /\ IsFiniteSet(UserPages(t))
         /\ Cardinality(t.dirs) \in Nat /\ Cardinality(UserPages(t)) \in Nat
         /\ t.root \in BOOLEAN /\ Bit(t.root) \in {0, 1} /\ PagesOf(t) \in Nat
<1>1. t.dirs \subseteq Dirs /\ UserPages(t) \subseteq VIRTUALS /\ t.root \in BOOLEAN
  BY DEF Tables, UserPages
<1>2. IsFiniteSet(t.dirs) /\ IsFiniteSet(UserPages(t))
  BY <1>1, FiniteDirs, FiniteVirtuals, FS_Subset
<1>3. Cardinality(t.dirs) \in Nat /\ Cardinality(UserPages(t)) \in Nat
  BY <1>2, FS_CardinalityType
<1>4. Bit(t.root) \in {0, 1}
  BY DEF Bit
<1>5. QED
  BY <1>1, <1>2, <1>3, <1>4 DEF PagesOf

LEMMA EmptyTable == NoTable \in Tables /\ PagesOf(NoTable) = 0 /\ NoTable.guard = {}
<1>1. UserPages(NoTable) = {} /\ NoTable.dirs = {} /\ NoTable.root = FALSE /\ NoTable.guard = {}
  BY DEF UserPages, NoTable
<1>2. QED
  BY <1>1, FS_EmptySet DEF PagesOf, Bit, NoTable, Tables

LEMMA DirsIn ==
  ASSUME NEW va \in VIRTUALS
  PROVE  DirsOf(va) \subseteq Dirs
<1>1. FANOUT * FANOUT \in Nat /\ FANOUT * FANOUT >= 1
  BY MemSizes
<1>2. va \div (FANOUT * FANOUT) \in VIRTUALS
  BY <1>1, DivIn
<1>3. va \div FANOUT \in VIRTUALS
  BY MemSizes, DivIn
<1>4. QED
  BY <1>2, <1>3 DEF DirsOf, Dirs

\* walk() takes no more pages than there are, and adds those it takes to the table.
LEMMA MappedIs ==
  ASSUME NEW t \in Tables, NEW va \in VIRTUALS, NEW n \in Nat
  PROVE  LET m == Mapped(t, va, n) IN
         /\ m.table \in Tables /\ m.ok \in BOOLEAN /\ m.took \in 0..n
         /\ m.table.root = t.root /\ m.table.guard = t.guard
         /\ m.table.leaves = IF m.ok THEN t.leaves \cup {va} ELSE t.leaves
         /\ Cardinality(m.table.dirs) = Cardinality(t.dirs) + m.took
         /\ m.remap <=> m.ok /\ va \in t.leaves
<1> DEFINE missing == DirsOf(va) \ t.dirs
           ok == Cardinality(missing) <= n
           add == IF ok THEN missing ELSE {d \in missing : d.level >= 2 - n}
           m == Mapped(t, va, n)
<1>1. m = [table |-> [t EXCEPT !.dirs = @ \cup add,
                               !.leaves = IF ok THEN @ \cup {va} ELSE @],
           took |-> Cardinality(add), ok |-> ok, remap |-> ok /\ va \in t.leaves]
  BY DEF Mapped
<1>2. add \subseteq Dirs /\ add \cap t.dirs = {} /\ add \subseteq DirsOf(va)
  BY DirsIn
<1>3. IsFiniteSet(add) /\ IsFiniteSet(missing)
  BY <1>2, DirsIn, FiniteDirs, FS_Subset
<1>4. Cardinality(add) \in Nat /\ Cardinality(missing) \in Nat
  BY <1>3, FS_CardinalityType
<1>5. Cardinality(add) <= n
  <2>1. CASE ok
    BY <2>1
  <2>2. CASE ~ok
    <3> DEFINE u == [level |-> 1, index |-> va \div (FANOUT * FANOUT)]
               v == [level |-> 0, index |-> va \div FANOUT]
    <3>1. missing \subseteq {u, v}
      BY DEF DirsOf
    <3>2. Cardinality(missing) <= 2
      <4>1. IsFiniteSet({u}) /\ Cardinality({u}) = 1
        BY FS_Singleton
      <4>2. {u} \cup {v} = {u, v}
        OBVIOUS
      <4> HIDE DEF u, v
      <4>3. IsFiniteSet({u} \cup {v}) /\ Cardinality({u} \cup {v}) <= 2
        BY <4>1, FS_AddElement
      <4>4. missing \in SUBSET ({u} \cup {v})
        BY <3>1, <4>2
      <4> HIDE DEF missing
      <4>5. QED
        BY <1>4, <4>3, <4>4, FS_Subset, FS_CardinalityType
    <3>3. n \in {0, 1}
      BY <2>2, <3>2, <1>4
    <3>4. CASE n = 0
      <4>1. add = {}
        BY <2>2, <3>1, <3>4
      <4>2. QED
        BY <4>1, <3>4, FS_EmptySet
    <3>5. CASE n = 1
      <4>1. add \in SUBSET {u}
        BY <2>2, <3>1, <3>5
      <4>2. IsFiniteSet({u}) /\ Cardinality({u}) = 1
        BY FS_Singleton
      <4> HIDE DEF u, add
      <4>3. QED
        BY <4>1, <4>2, <3>5, FS_Subset
    <3>6. QED
      BY <3>3, <3>4, <3>5
  <2>3. QED
    BY <2>1, <2>2
<1>6. IsFiniteSet(t.dirs) /\ Cardinality(t.dirs) \in Nat
  BY TableFinite
<1>7. Cardinality(t.dirs \cup add) = Cardinality(t.dirs) + Cardinality(add)
  <2> HIDE DEF add
  <2>1. Cardinality(t.dirs \cup add)
          = Cardinality(t.dirs) + Cardinality(add) - Cardinality(t.dirs \cap add)
    BY <1>3, <1>6, FS_Union
  <2>2. Cardinality(t.dirs \cap add) = 0
    <3>1. t.dirs \cap add = {}
      BY <1>2
    <3>2. QED
      BY <3>1, FS_EmptySet
  <2>3. QED
    BY <2>1, <2>2, <1>4, <1>6
<1> HIDE DEF ok, add, m
<1>8. m.table = [root |-> t.root, dirs |-> t.dirs \cup add,
                 leaves |-> IF ok THEN t.leaves \cup {va} ELSE t.leaves, guard |-> t.guard]
  BY <1>1 DEF Tables
<1>9. ok \in BOOLEAN /\ m.ok = ok /\ m.took = Cardinality(add) /\ m.remap = (ok /\ va \in t.leaves)
  BY <1>1 DEF ok
<1>10. m.table \in Tables
  BY <1>8, <1>2 DEF Tables
<1>11. /\ m.table.root = t.root /\ m.table.guard = t.guard
       /\ m.table.leaves = IF m.ok THEN t.leaves \cup {va} ELSE t.leaves
       /\ Cardinality(m.table.dirs) = Cardinality(t.dirs) + m.took
  BY <1>7, <1>8, <1>9
<1>12. m.took \in 0..n
  BY <1>4, <1>5, <1>9
<1>13. m.remap <=> m.ok /\ va \in t.leaves
  BY <1>9
<1>14. QED
  BY <1>9, <1>10, <1>11, <1>12, <1>13 DEF m

\* A new page at the end of a space, or none.
LEMMA NewPageIs ==
  ASSUME NEW t \in Tables, NEW k \in Nat, k < MostPages, Space(t, k), NEW n \in Nat
  PROVE  LET new == NewPage(t, k, n) IN
         /\ new.table \in Tables /\ new.ok \in BOOLEAN /\ new.took \in 0..n
         /\ ~new.remap
         /\ PagesOf(new.table) = PagesOf(t) + new.took
         /\ new.ok => Space(new.table, k + 1)
         /\ ~new.ok => Space(new.table, k)
<1>1. k \in VIRTUALS \ {TRAMPOLINE, TRAPFRAME} /\ k \notin t.leaves
  BY HighPages DEF Space
<1>2. CASE n = 0
  BY <1>2, TableFinite DEF NewPage
<1>3. CASE n > 0
  <2> DEFINE m == Mapped(t, k, n - 1)
             new == NewPage(t, k, n)
  <2>0. n - 1 \in Nat
    BY <1>3
  <2>1. /\ m.table \in Tables /\ m.ok \in BOOLEAN /\ m.took \in 0..(n - 1)
        /\ m.table.root = t.root /\ m.table.guard = t.guard
        /\ m.table.leaves = IF m.ok THEN t.leaves \cup {k} ELSE t.leaves
        /\ Cardinality(m.table.dirs) = Cardinality(t.dirs) + m.took
        /\ m.remap <=> m.ok /\ k \in t.leaves
    BY <2>0, <1>1, MappedIs
  <2>2. /\ new.table = m.table /\ new.ok = m.ok /\ new.remap = m.remap
        /\ new.took = IF m.ok THEN m.took + 1 ELSE m.took
    <3>1. new = [m EXCEPT !.took = IF m.ok THEN @ + 1 ELSE @]
      BY <1>3 DEF NewPage
    <3>2. m = [table |-> m.table, took |-> m.took, ok |-> m.ok, remap |-> m.remap]
      BY DEF Mapped
    <3> HIDE DEF m, new
    <3>3. new = [table |-> m.table, took |-> IF m.ok THEN m.took + 1 ELSE m.took,
                 ok |-> m.ok, remap |-> m.remap]
      BY <3>1, <3>2
    <3>4. QED
      BY <3>3
  <2>3. IsFiniteSet(UserPages(t)) /\ Cardinality(UserPages(t)) \in Nat
        /\ Cardinality(t.dirs) \in Nat /\ Bit(t.root) \in {0, 1}
    BY TableFinite
  <2> HIDE DEF m, new
  <2>4. CASE m.ok
    <3>1. UserPages(m.table) = UserPages(t) \cup {k} /\ k \notin UserPages(t)
      BY <2>1, <2>4, <1>1 DEF UserPages
    <3>2. Cardinality(UserPages(m.table)) = Cardinality(UserPages(t)) + 1
      BY <3>1, <2>3, FS_AddElement
    <3>3. PagesOf(m.table) = PagesOf(t) + m.took + 1
      BY <3>2, <2>1, <2>3 DEF PagesOf
    <3>4. Space(m.table, k + 1)
      <4>1. 0..((k + 1) - 1) = 0..(k - 1) \cup {k}
        OBVIOUS
      <4>2. m.table.leaves = 0..((k + 1) - 1) \cup {TRAMPOLINE, TRAPFRAME}
        BY <4>1, <2>1, <2>4 DEF Space
      <4>3. m.table.guard \subseteq 0..((k + 1) - 1)
        BY <4>1, <2>1 DEF Space
      <4>4. k + 1 <= MostPages
        BY HighPages
      <4>5. QED
        BY <4>2, <4>3, <4>4, <2>1 DEF Space
    <3>5. new.took \in 0..n /\ new.ok /\ new.took = m.took + 1
      BY <2>0, <2>1, <2>2, <2>4
    <3>6. ~new.remap
      BY <2>1, <2>2, <1>1
    <3>7. PagesOf(new.table) = PagesOf(t) + new.took
      BY <3>3, <3>5, <2>1, <2>2, TableFinite
    <3>8. QED
      BY <3>4, <3>5, <3>6, <3>7, <2>1, <2>2 DEF new
  <2>5. CASE ~m.ok
    <3>1. UserPages(m.table) = UserPages(t)
      BY <2>1, <2>5 DEF UserPages
    <3>2. PagesOf(m.table) = PagesOf(t) + m.took
      BY <3>1, <2>1, <2>3 DEF PagesOf
    <3>3. Space(m.table, k)
      BY <2>1, <2>5 DEF Space
    <3>4. new.took \in 0..n /\ ~new.ok /\ new.took = m.took
      BY <2>0, <2>1, <2>2, <2>5
    <3>5. ~new.remap
      BY <2>1, <2>2, <2>5
    <3>6. QED
      BY <3>2, <3>3, <3>4, <3>5, <2>1, <2>2 DEF new
  <2>6. QED
    BY <2>1, <2>4, <2>5
<1>4. QED
  BY <1>2, <1>3

\* The pages from j on go.
LEMMA UnmappedIs ==
  ASSUME NEW t \in Tables, NEW k \in Nat, Space(t, k), NEW j \in 0..k
  PROVE  /\ Unmapped(t, j..(k - 1)) \in Tables /\ Space(Unmapped(t, j..(k - 1)), j)
         /\ PagesOf(Unmapped(t, j..(k - 1))) = PagesOf(t) - (k - j)
         /\ ~UnmapPanics(t, j..(k - 1)) /\ Cardinality(j..(k - 1)) = k - j
<1> DEFINE S == j..(k - 1)
           u == Unmapped(t, S)
<1>1. k <= MostPages /\ 0..(k - 1) \cap {TRAMPOLINE, TRAPFRAME} = {}
  BY HighPages DEF Space
<1>2. u = [root |-> t.root, dirs |-> t.dirs, leaves |-> t.leaves \ S, guard |-> t.guard \ S]
  <2>1. t = [root |-> t.root, dirs |-> t.dirs, leaves |-> t.leaves, guard |-> t.guard]
    BY DEF Tables
  <2>2. u = [t EXCEPT !.leaves = @ \ S, !.guard = @ \ S]
    BY DEF Unmapped
  <2> HIDE DEF S, u
  <2>3. QED
    BY <2>1, <2>2
<1>3. u \in Tables
  BY <1>2 DEF Tables
<1>4. Space(u, j)
  <2>1. t.leaves \ S = 0..(j - 1) \cup {TRAMPOLINE, TRAPFRAME}
    BY <1>1 DEF Space
  <2>2. t.guard \ S \subseteq 0..(j - 1)
    BY DEF Space
  <2>3. j <= MostPages
    BY <1>1, HighPages
  <2> HIDE DEF u, S
  <2>4. QED
    BY <2>1, <2>2, <2>3, <1>2 DEF Space
<1>5. IsFiniteSet(S) /\ Cardinality(S) = k - j
  <2>1. j \in Int /\ k - 1 \in Int
    OBVIOUS
  <2>2. IsFiniteSet(S) /\ Cardinality(S) = IF j > k - 1 THEN 0 ELSE (k - 1) - j + 1
    BY <2>1, FS_Interval
  <2>3. QED
    BY <2>1, <2>2
<1>6. S \subseteq UserPages(t) /\ UserPages(u) = UserPages(t) \ S
  BY <1>1, <1>2, SMTT(30) DEF Space, UserPages
<1>7. IsFiniteSet(UserPages(t)) /\ Cardinality(UserPages(t)) \in Nat
      /\ Cardinality(t.dirs) \in Nat /\ Bit(t.root) \in {0, 1}
  BY TableFinite
<1>8. Cardinality(UserPages(u)) = Cardinality(UserPages(t)) - (k - j)
  <2> HIDE DEF S, u
  <2>1. UserPages(t) \cap S = S
    BY <1>6
  <2>2. QED
    <3>1. Cardinality(UserPages(t) \ S)
            = Cardinality(UserPages(t)) - Cardinality(UserPages(t) \cap S)
      BY <1>7, FS_Difference
    <3>2. QED
      BY <3>1, <2>1, <1>5, <1>6
<1>9. S \subseteq t.leaves
  BY <1>6 DEF UserPages
<1> HIDE DEF S
<1>10. PagesOf(u) = PagesOf(t) - (k - j)
  <2>1. u.dirs = t.dirs /\ u.root = t.root
    BY <1>2
  <2> HIDE DEF u
  <2>2. QED
    BY <2>1, <1>7, <1>8 DEF PagesOf
<1>11. ~UnmapPanics(t, S)
  BY <1>9 DEF UnmapPanics
<1>12. QED
  BY <1>3, <1>4, <1>5, <1>10, <1>11 DEF S

LEMMA PagesIs ==
  ASSUME NEW n \in Nat
  PROVE  Pages(n) = 0..(PageUp(n) - 1)
BY DEF Pages

\* A whole space is freed to its last page.
LEMMA FreedIs ==
  ASSUME NEW t \in Tables, NEW n \in Nat, Space(t, PageUp(n))
  PROVE  ~FreePanics(t, n) /\ FreedPages(t, n) = PagesOf(t)
<1>1. PageUp(n) \in Nat
  BY PageUpIs
<1>2. ~FreePanics(t, n)
  BY PagesIs DEF FreePanics, Space
<1>3. UserPages(t) = 0..(PageUp(n) - 1)
  BY <1>1, HighPages DEF Space, UserPages
<1>4. Cardinality(0..(PageUp(n) - 1)) = PageUp(n)
  BY <1>1, FS_Interval
<1>5. Bit(t.root) = 1
  BY DEF Bit, Space
<1>6. QED
  BY <1>1, <1>2, <1>3, <1>4, <1>5, TableFinite DEF PagesOf, FreedPages

\* A new page table has the trampoline and the trapframe, and no user pages.
LEMMA ProcPagetableIs ==
  ASSUME NEW n \in Nat
  PROVE  LET made == ProcPagetable(n) IN
         made.ok => /\ made.table \in Tables /\ Space(made.table, 0)
                    /\ made.took \in 0..n /\ PagesOf(made.table) = made.took
<1> DEFINE tramp == Mapped(Root, TRAMPOLINE, n - 1)
           frame == Mapped(tramp.table, TRAPFRAME, n - 1 - tramp.took)
           made == ProcPagetable(n)
<1> SUFFICES ASSUME made.ok
             PROVE  /\ made.table \in Tables /\ Space(made.table, 0)
                    /\ made.took \in 0..n /\ PagesOf(made.table) = made.took
  OBVIOUS
<1>1. n > 0 /\ tramp.ok /\ frame.ok /\ made.table = frame.table
      /\ made.took = 1 + tramp.took + frame.took
  BY DEF ProcPagetable
<1>2. Root \in Tables /\ Root.root = TRUE /\ Root.dirs = {} /\ Root.leaves = {} /\ Root.guard = {}
  BY DEF Root, NoTable, Tables
<1>3. n - 1 \in Nat
  BY <1>1
<1>4. /\ tramp.table \in Tables /\ tramp.took \in 0..(n - 1)
      /\ tramp.table.root = Root.root /\ tramp.table.guard = Root.guard
      /\ tramp.table.leaves = IF tramp.ok THEN Root.leaves \cup {TRAMPOLINE} ELSE Root.leaves
      /\ Cardinality(tramp.table.dirs) = Cardinality(Root.dirs) + tramp.took
  BY <1>2, <1>3, HighPages, MappedIs, ZenonT(40)
<1> HIDE DEF tramp
<1>5. n - 1 - tramp.took \in Nat
  BY <1>3, <1>4
<1>6. /\ frame.table \in Tables /\ frame.took \in 0..(n - 1 - tramp.took)
      /\ frame.table.root = tramp.table.root /\ frame.table.guard = tramp.table.guard
      /\ frame.table.leaves = IF frame.ok THEN tramp.table.leaves \cup {TRAPFRAME}
                                          ELSE tramp.table.leaves
      /\ Cardinality(frame.table.dirs) = Cardinality(tramp.table.dirs) + frame.took
  <2>1. TRAPFRAME \in VIRTUALS /\ tramp.table \in Tables
    BY <1>4, HighPages
  <2>2. QED
    BY <2>1, <1>5, MappedIs, ZenonT(40)
<1> HIDE DEF frame, made
<1>7. /\ frame.table.root = TRUE /\ frame.table.guard = {}
      /\ frame.table.leaves = {TRAMPOLINE, TRAPFRAME}
      /\ Cardinality(frame.table.dirs) = tramp.took + frame.took
  <2>1. Cardinality(Root.dirs) = 0
    BY <1>2, FS_EmptySet
  <2>2. Cardinality(frame.table.dirs) = tramp.took + frame.took
    BY <2>1, <1>4, <1>6
  <2>3. QED
    BY <2>2, <1>1, <1>2, <1>4, <1>6
<1>8. Space(frame.table, 0)
  BY <1>7, HighPages DEF Space
<1>9. PagesOf(frame.table) = 1 + tramp.took + frame.took
  <2>1. UserPages(frame.table) = {}
    BY <1>7 DEF UserPages
  <2>2. Cardinality(UserPages(frame.table)) = 0
    BY <2>1, FS_EmptySet
  <2>3. QED
    BY <2>2, <1>4, <1>6, <1>7 DEF PagesOf, Bit
<1>10. 1 + tramp.took + frame.took \in 0..n
  BY <1>3, <1>4, <1>6
<1>11. QED
  BY <1>1, <1>6, <1>8, <1>9, <1>10

-----------------------------------------------------------------------------
(* The invariant: what each slot has, where it is in its call. *)

\* What a slot has outside of exec().
Kept(state, frame, t, size, o, a, g) ==
  /\ frame <=> state # "unused"
  /\ o # "none" => state = "live"
  /\ o = "none" => a = 0
  /\ state = "unused" => t = NoTable
  /\ state \in {"unused", "made"} => size = 0
  /\ state \in {"live", "zombie"} => PageUp(size) <= MostPages
  /\ state \in {"live", "zombie"} /\ o # "grow" => Space(t, PageUp(size))
  /\ o = "grow" => /\ Space(t, a) /\ g <= UserTop
                   /\ PageUp(size) <= a /\ a <= PageUp(g)

\* What its exec() has built.
Built(t, size, o, a, g) ==
  /\ o \in {"none", "grow", "fork", "args"} => t = NoTable /\ size = 0
  /\ o = "load" => Space(t, PageUp(size)) /\ size <= UserTop
  /\ o = "seg" => /\ Space(t, a) /\ size <= UserTop /\ g <= UserTop
                  /\ PageUp(size) <= a /\ (a <= PageUp(size) \/ a <= PageUp(g))
  /\ o = "stack" => /\ Space(t, a) /\ PageUp(size) <= PageUp(UserTop)
                    /\ PageUp(size) <= a /\ a <= PageUp(g)
                    /\ PageUp(g) = PageUp(size) + 2

\* What its fork() has copied to slot np.
Copied(o, a, size, state, t, n) ==
  o = "fork" => state = "made" /\ Space(t, a) /\ a <= PageUp(size) /\ n = 0

KeptBy(p) == Kept(pstate[p], trapframe[p], pt[p], sz[p], op[p], at[p], goal[p])
BuiltBy(p) == Built(newpt[p], newsz[p], op[p], at[p], goal[p])
CopiedBy(p) == Copied(op[p], at[p], sz[p], pstate[kid[p]], pt[kid[p]], sz[kid[p]])
KidsApart == \A p, q \in Procs : op[p] = "fork" /\ op[q] = "fork" /\ kid[p] = kid[q] => p = q

SlotTypes ==
  /\ pstate \in [Procs -> {"unused", "made", "live", "zombie"}]
  /\ trapframe \in [Procs -> BOOLEAN]
  /\ pt \in [Procs -> Tables] /\ newpt \in [Procs -> Tables]
  /\ \A p \in Procs : pt[p].guard \subseteq pt[p].leaves /\ newpt[p].guard \subseteq newpt[p].leaves
  /\ sz \in [Procs -> 0..(SizeWrap - 1)] /\ newsz \in [Procs -> 0..(SizeWrap - 1)]
  /\ at \in [Procs -> 0..(SizeWrap - 1)] /\ goal \in [Procs -> 0..(SizeWrap - 1)]
  /\ seg \in [Procs -> 0..(SizeWrap - 1)]
  /\ op \in [Procs -> {"none", "grow", "fork", "args", "load", "seg", "stack"}]
  /\ kid \in [Procs -> Procs]
  /\ args \in [Procs -> 0..MaxArgs]

MemInv ==
  /\ SlotTypes /\ nfree \in Nat /\ pipes \in 0..MaxPipes
  /\ PagesConserved /\ memPanic = FALSE
  /\ \A p \in Procs : KeptBy(p)
  /\ \A p \in Procs : BuiltBy(p)
  /\ \A p \in Procs : CopiedBy(p)
  /\ KidsApart

\* The pages of one process.
Weight(p) == PagesOf(pt[p]) + PagesOf(newpt[p]) + args[p] + Bit(trapframe[p])

LEMMA HeldAt ==
  ASSUME NEW f \in [Procs -> Tables], NEW g \in [Procs -> Tables], NEW q \in Procs,
         \A p \in Procs \ {q} : g[p] = f[p]
  PROVE  /\ Held(f) \in Nat /\ Held(g) \in Nat
         /\ Held(g) = Held(f) - PagesOf(f[q]) + PagesOf(g[q])
<1> DEFINE R(h) == [p \in Procs |-> h[p].root]
           D(h) == [p \in Procs |-> h[p].dirs]
           U(h) == [p \in Procs |-> h[p].leaves \ {TRAMPOLINE, TRAPFRAME}]
<1>1. ASSUME NEW h \in [Procs -> Tables], NEW p \in Procs
      PROVE  /\ IsFiniteSet(D(h)[p]) /\ IsFiniteSet(U(h)[p]) /\ R(h)[p] \in BOOLEAN
             /\ D(h)[p] = h[p].dirs /\ U(h)[p] = UserPages(h[p]) /\ R(h)[p] = h[p].root
  <2>1. h[p] \in Tables
    OBVIOUS
  <2>2. QED
    BY <2>1, TableFinite DEF UserPages
<1>2. ASSUME NEW h \in [Procs -> Tables]
      PROVE  Held(h) = Cardinality({p \in Procs : R(h)[p]}) + Places(D(h)) + Places(U(h))
  <2>1. {p \in Procs : R(h)[p]} = {p \in Procs : h[p].root}
    OBVIOUS
  <2>2. QED
    BY <2>1 DEF Held
<1>3. \A p \in Procs \ {q} : R(g)[p] = R(f)[p] /\ D(g)[p] = D(f)[p] /\ U(g)[p] = U(f)[p]
  OBVIOUS
<1> HIDE DEF R, D, U
<1>4. /\ Places(D(f)) \in Nat /\ Places(D(g)) \in Nat
      /\ Cardinality(D(f)[q]) \in Nat /\ Cardinality(D(g)[q]) \in Nat
      /\ Places(D(g)) = Places(D(f)) - Cardinality(D(f)[q]) + Cardinality(D(g)[q])
  <2>1. \A p \in Procs : IsFiniteSet(D(f)[p]) /\ IsFiniteSet(D(g)[p])
    BY <1>1
  <2>2. \A p \in Procs \ {q} : D(g)[p] = D(f)[p]
    BY <1>3
  <2>3. QED
    BY <2>1, <2>2, PlacesAt
<1>5. /\ Places(U(f)) \in Nat /\ Places(U(g)) \in Nat
      /\ Cardinality(U(f)[q]) \in Nat /\ Cardinality(U(g)[q]) \in Nat
      /\ Places(U(g)) = Places(U(f)) - Cardinality(U(f)[q]) + Cardinality(U(g)[q])
  <2>1. \A p \in Procs : IsFiniteSet(U(f)[p]) /\ IsFiniteSet(U(g)[p])
    BY <1>1
  <2>2. \A p \in Procs \ {q} : U(g)[p] = U(f)[p]
    BY <1>3
  <2>3. QED
    BY <2>1, <2>2, PlacesAt
<1>6. /\ Cardinality({p \in Procs : R(f)[p]}) \in Nat
      /\ Cardinality({p \in Procs : R(g)[p]}) \in Nat
      /\ Cardinality({p \in Procs : R(g)[p]})
           = Cardinality({p \in Procs : R(f)[p]}) - Bit(R(f)[q]) + Bit(R(g)[q])
  <2>1. R(f)[q] \in BOOLEAN /\ R(g)[q] \in BOOLEAN
    BY <1>1
  <2>2. \A p \in Procs \ {q} : R(g)[p] = R(f)[p]
    BY <1>3
  <2>3. QED
    BY <2>1, <2>2, CountAt
<1>7. PagesOf(f[q]) = Bit(R(f)[q]) + Cardinality(D(f)[q]) + Cardinality(U(f)[q])
  BY <1>1 DEF PagesOf
<1>8. PagesOf(g[q]) = Bit(R(g)[q]) + Cardinality(D(g)[q]) + Cardinality(U(g)[q])
  BY <1>1 DEF PagesOf
<1>9. Bit(R(f)[q]) \in Int /\ Bit(R(g)[q]) \in Int
  BY DEF Bit
<1>10. QED
  BY <1>2, <1>4, <1>5, <1>6, <1>7, <1>8, <1>9

\* Only process q's pages move.
PagesMove(q) ==
  /\ \A i \in Procs \ {q} : /\ pt'[i] = pt[i] /\ newpt'[i] = newpt[i]
                            /\ args'[i] = args[i] /\ trapframe'[i] = trapframe[i]
  /\ nfree' + pipes' + Weight(q)' = nfree + pipes + Weight(q)

LEMMA ConservedMoves ==
  ASSUME SlotTypes, SlotTypes', nfree \in Nat, nfree' \in Nat, pipes \in Nat, pipes' \in Nat,
         PagesConserved, NEW q \in Procs, PagesMove(q)
  PROVE  PagesConserved'
<1> DEFINE A(f) == [p \in Procs |-> 1..f[p]]
<1>1. /\ Held(pt) \in Nat /\ Held(pt') \in Nat
      /\ Held(pt') = Held(pt) - PagesOf(pt[q]) + PagesOf(pt'[q])
  BY HeldAt DEF SlotTypes, PagesMove
<1>2. /\ Held(newpt) \in Nat /\ Held(newpt') \in Nat
      /\ Held(newpt') = Held(newpt) - PagesOf(newpt[q]) + PagesOf(newpt'[q])
  BY HeldAt DEF SlotTypes, PagesMove
<1>3. /\ Cardinality({p \in Procs : trapframe[p]}) \in Nat
      /\ Cardinality({p \in Procs : trapframe'[p]}) \in Nat
      /\ Cardinality({p \in Procs : trapframe'[p]})
           = Cardinality({p \in Procs : trapframe[p]}) - Bit(trapframe[q]) + Bit(trapframe'[q])
  <2>1. trapframe[q] \in BOOLEAN /\ trapframe'[q] \in BOOLEAN
    BY DEF SlotTypes
  <2>2. \A p \in Procs \ {q} : trapframe'[p] = trapframe[p]
    BY DEF PagesMove
  <2>3. QED
    BY <2>1, <2>2, CountAt
<1>4. args[q] \in Nat /\ args'[q] \in Nat
  BY MemSizes DEF SlotTypes
<1>5. /\ Places(A(args)) \in Nat /\ Places(A(args')) \in Nat
      /\ Places(A(args')) = Places(A(args)) - args[q] + args'[q]
  <2>1. ASSUME NEW f \in [Procs -> 0..MaxArgs], NEW p \in Procs
        PROVE  IsFiniteSet(A(f)[p]) /\ Cardinality(A(f)[p]) = f[p]
    <3>1. PICK m \in Nat : m = f[p] /\ A(f)[p] = 1..m
      BY MemSizes
    <3>2. IsFiniteSet(1..m) /\ Cardinality(1..m) = IF 1 > m THEN 0 ELSE m - 1 + 1
      <4> m \in Int /\ 1 \in Int
        OBVIOUS
      <4> QED
        BY FS_Interval
    <3>3. QED
      BY <3>1, <3>2
  <2>2. \A p \in Procs \ {q} : A(args')[p] = A(args)[p]
    BY DEF PagesMove
  <2>3. args \in [Procs -> 0..MaxArgs] /\ args' \in [Procs -> 0..MaxArgs]
    BY DEF SlotTypes
  <2> HIDE DEF A
  <2>4. Places(A(args')) = Places(A(args)) - Cardinality(A(args)[q]) + Cardinality(A(args')[q])
        /\ Places(A(args)) \in Nat /\ Places(A(args')) \in Nat
    BY <2>1, <2>2, <2>3, PlacesAt, ZenonT(40)
  <2>5. QED
    BY <2>1, <2>3, <2>4
<1>6. nfree + pipes + Held(pt) + Held(newpt) + Places(A(args))
        + Cardinality({p \in Procs : trapframe[p]}) = NPAGES
  BY DEF PagesConserved
<1>7. SUFFICES nfree' + pipes' + Held(pt') + Held(newpt') + Places(A(args'))
                 + Cardinality({p \in Procs : trapframe'[p]}) = NPAGES
  BY DEF PagesConserved, Held, Places
<1> HIDE DEF A
<1>8. nfree' + pipes' + (PagesOf(pt'[q]) + PagesOf(newpt'[q]) + args'[q] + Bit(trapframe'[q]))
        = nfree + pipes + (PagesOf(pt[q]) + PagesOf(newpt[q]) + args[q] + Bit(trapframe[q]))
  BY DEF PagesMove, Weight, PagesOf, Bit, UserPages
<1>9. /\ PagesOf(pt[q]) \in Nat /\ PagesOf(newpt[q]) \in Nat
      /\ PagesOf(pt'[q]) \in Nat /\ PagesOf(newpt'[q]) \in Nat
  BY TableFinite DEF SlotTypes
<1>10. Bit(trapframe[q]) \in Int /\ Bit(trapframe'[q]) \in Int
  BY DEF Bit
<1> DEFINE h0 == Held(pt)
           h1 == Held(pt')
           m0 == Held(newpt)
           m1 == Held(newpt')
           t0 == Cardinality({p \in Procs : trapframe[p]})
           t1 == Cardinality({p \in Procs : trapframe'[p]})
           a0 == Places(A(args))
           a1 == Places(A(args'))
           ph0 == PagesOf(pt[q])
           ph1 == PagesOf(pt'[q])
           pm0 == PagesOf(newpt[q])
           pm1 == PagesOf(newpt'[q])
           b0 == Bit(trapframe[q])
           b1 == Bit(trapframe'[q])
           k0 == args[q]
           k1 == args'[q]
<1>11. /\ {h0, h1, m0, m1, t0, t1, a0, a1} \subseteq Int
       /\ {ph0, ph1, pm0, pm1, b0, b1, k0, k1} \subseteq Int
       /\ {nfree, nfree', pipes, pipes'} \subseteq Int
  BY <1>1, <1>2, <1>3, <1>4, <1>5, <1>9, <1>10
<1>12. h1 = h0 - ph0 + ph1 /\ m1 = m0 - pm0 + pm1 /\ t1 = t0 - b0 + b1 /\ a1 = a0 - k0 + k1
  BY <1>1, <1>2, <1>3, <1>5, Zenon
<1>13. nfree + pipes + h0 + m0 + a0 + t0 = NPAGES
  BY <1>6, Zenon
<1>14. nfree' + pipes' + (ph1 + pm1 + k1 + b1) = nfree + pipes + (ph0 + pm0 + k0 + b0)
  BY <1>8, Zenon
<1>15. SUFFICES nfree' + pipes' + h1 + m1 + a1 + t1 = NPAGES
  BY <1>7, Zenon
<1> HIDE DEF h0, h1, m0, m1, t0, t1, a0, a1, ph0, ph1, pm0, pm1, b0, b1, k0, k1
<1>16. QED
  BY <1>11, <1>12, <1>13, <1>14, <1>15

-----------------------------------------------------------------------------
(* A step of process p that moves pages of slot q: p's own, or that of its child. *)

Elsewhere(p, q) ==
  \A i \in Procs \ {p, q} :
    /\ pstate'[i] = pstate[i] /\ sz'[i] = sz[i] /\ newsz'[i] = newsz[i] /\ op'[i] = op[i]
    /\ at'[i] = at[i] /\ goal'[i] = goal[i] /\ kid'[i] = kid[i]

\* Slot q is p's own, or p's child, or nobody's.
MayMove(p, q) == /\ pstate[p] # "made"
                 /\ q = p \/ pstate[q] # "made" \/ (op[p] = "fork" /\ kid[p] = q)
                 /\ q # p => op[q] = "none" /\ op'[q] = "none"
                 /\ op'[p] = "fork" => kid'[p] = q

LEMMA StepInv ==
  ASSUME MemInv, SlotTypes', nfree' \in Nat, pipes' \in 0..MaxPipes, memPanic' = FALSE,
         NEW p \in Procs, NEW q \in Procs, PagesMove(q), Elsewhere(p, q), MayMove(p, q),
         KeptBy(p)', KeptBy(q)', BuiltBy(p)', BuiltBy(q)', CopiedBy(p)'
  PROVE  MemInv'
<1>1. PagesConserved'
  <2>1. pipes \in Nat /\ pipes' \in Nat
    BY MemSizes DEF MemInv
  <2>2. QED
    BY <2>1, ConservedMoves DEF MemInv
<1>2. \A i \in Procs \ {p, q} :
         /\ pstate'[i] = pstate[i] /\ sz'[i] = sz[i] /\ newsz'[i] = newsz[i] /\ op'[i] = op[i]
         /\ at'[i] = at[i] /\ goal'[i] = goal[i] /\ kid'[i] = kid[i]
         /\ pt'[i] = pt[i] /\ newpt'[i] = newpt[i] /\ trapframe'[i] = trapframe[i]
  BY DEF Elsewhere, PagesMove
<1>3. ASSUME NEW i \in Procs PROVE KeptBy(i)'
  <2>1. CASE i \in {p, q}
    BY <2>1
  <2>2. CASE i \notin {p, q}
    BY <2>2, <1>2 DEF MemInv, KeptBy
  <2>3. QED
    BY <2>1, <2>2
<1>4. ASSUME NEW i \in Procs PROVE BuiltBy(i)'
  <2>1. CASE i \in {p, q}
    BY <2>1
  <2>2. CASE i \notin {p, q}
    BY <2>2, <1>2 DEF MemInv, BuiltBy
  <2>3. QED
    BY <2>1, <2>2
<1>5. ASSUME NEW i \in Procs \ {p, q}, op[i] = "fork"
      PROVE  kid[i] \in Procs \ {p, q}
  <2>1. kid[i] \in Procs /\ pstate[kid[i]] = "made"
    BY <1>5 DEF MemInv, CopiedBy, Copied, SlotTypes
  <2>2. op[p] = "fork" => kid[p] # kid[i]
    BY <1>5 DEF MemInv, KidsApart
  <2>3. QED
    BY <2>1, <2>2 DEF MayMove
<1>6. ASSUME NEW i \in Procs PROVE CopiedBy(i)'
  <2>1. CASE i = p
    BY <2>1
  <2>2. CASE i = q /\ i # p
    BY <2>2 DEF MayMove, CopiedBy, Copied
  <2>3. CASE i \notin {p, q} /\ op[i] # "fork"
    BY <2>3, <1>2 DEF CopiedBy, Copied
  <2>4. CASE i \notin {p, q} /\ op[i] = "fork"
    <3>1. kid[i] \in Procs \ {p, q}
      BY <2>4, <1>5
    <3>2. CopiedBy(i)
      BY DEF MemInv
    <3>3. /\ op'[i] = op[i] /\ at'[i] = at[i] /\ sz'[i] = sz[i] /\ kid'[i] = kid[i]
          /\ pstate'[kid[i]] = pstate[kid[i]] /\ pt'[kid[i]] = pt[kid[i]]
          /\ sz'[kid[i]] = sz[kid[i]]
      BY <2>4, <3>1, <1>2
    <3>4. QED
      BY <3>2, <3>3 DEF CopiedBy
  <2>5. QED
    BY <2>1, <2>2, <2>3, <2>4
<1>7. KidsApart'
  <2> SUFFICES ASSUME NEW i \in Procs, NEW s \in Procs, op'[i] = "fork", op'[s] = "fork",
                      kid'[i] = kid'[s], i # s
               PROVE  FALSE
    BY DEF KidsApart
  <2>1. (q # p => i # q /\ s # q)
    BY DEF MayMove
  <2>2. ASSUME NEW x \in Procs, op'[x] = "fork", x # p PROVE x \notin {p, q} /\ op[x] = "fork"
    BY <2>2, <1>2 DEF MayMove
  <2>3. CASE i # p /\ s # p
    BY <2>2, <2>3, <1>2 DEF MemInv, KidsApart
  <2>4. CASE i = p /\ s # p
    <3>1. kid'[p] = q /\ kid'[s] = kid[s] /\ kid[s] \in Procs \ {p, q}
      BY <2>2, <2>4, <1>2, <1>5 DEF MayMove
    <3>2. QED
      BY <3>1, <2>4
  <2>5. CASE s = p /\ i # p
    <3>1. kid'[p] = q /\ kid'[i] = kid[i] /\ kid[i] \in Procs \ {p, q}
      BY <2>2, <2>5, <1>2, <1>5 DEF MayMove
    <3>2. QED
      BY <3>1, <2>5
  <2>6. QED
    BY <2>3, <2>4, <2>5
<1>8. QED
  BY <1>1, <1>3, <1>4, <1>6, <1>7 DEF MemInv

\* What MemInv says of one slot, with its types.
SlotIn(p) ==
  /\ pstate[p] \in {"unused", "made", "live", "zombie"} /\ trapframe[p] \in BOOLEAN
  /\ pt[p] \in Tables /\ newpt[p] \in Tables
  /\ sz[p] \in Nat /\ newsz[p] \in Nat /\ at[p] \in Nat /\ goal[p] \in Nat
  /\ sz[p] < SizeWrap /\ newsz[p] < SizeWrap /\ at[p] < SizeWrap /\ goal[p] < SizeWrap
  /\ op[p] \in {"none", "grow", "fork", "args", "load", "seg", "stack"}
  /\ kid[p] \in Procs /\ args[p] \in 0..MaxArgs /\ args[p] \in Nat
  /\ PageUp(sz[p]) \in Nat /\ PageUp(newsz[p]) \in Nat /\ PageUp(goal[p]) \in Nat
  /\ PagesOf(pt[p]) \in Nat /\ PagesOf(newpt[p]) \in Nat /\ Bit(trapframe[p]) \in {0, 1}

LEMMA SlotIs ==
  ASSUME MemInv, NEW p \in Procs
  PROVE  SlotIn(p) /\ KeptBy(p) /\ BuiltBy(p) /\ CopiedBy(p)
<1>1. SlotTypes
  BY DEF MemInv
<1>2. /\ pstate[p] \in {"unused", "made", "live", "zombie"} /\ trapframe[p] \in BOOLEAN
      /\ pt[p] \in Tables /\ newpt[p] \in Tables
      /\ op[p] \in {"none", "grow", "fork", "args", "load", "seg", "stack"}
      /\ kid[p] \in Procs
  BY <1>1 DEF SlotTypes
<1>3. /\ sz[p] \in Nat /\ newsz[p] \in Nat /\ at[p] \in Nat /\ goal[p] \in Nat
      /\ sz[p] < SizeWrap /\ newsz[p] < SizeWrap /\ at[p] < SizeWrap /\ goal[p] < SizeWrap
      /\ args[p] \in 0..MaxArgs /\ args[p] \in Nat
  BY <1>1, MemSizes DEF SlotTypes
<1>4. PageUp(sz[p]) \in Nat /\ PageUp(newsz[p]) \in Nat /\ PageUp(goal[p]) \in Nat
  BY <1>3, PageUpIs
<1>5. PagesOf(pt[p]) \in Nat /\ PagesOf(newpt[p]) \in Nat /\ Bit(trapframe[p]) \in {0, 1}
  BY <1>2, TableFinite DEF Bit
<1>6. QED
  BY <1>2, <1>3, <1>4, <1>5 DEF MemInv, SlotIn

LEMMA MostIs ==
  /\ PageUp(UserTop) \in Nat /\ MostPages = PageUp(UserTop) + 2 /\ MostPages \in Nat
  /\ MostPages < SizeWrap
<1>1. UserTop \in Nat /\ PGSIZE \in Nat /\ PGSIZE >= 1 /\ UserTop + 3 * PGSIZE < SizeWrap
      /\ SizeWrap \in Nat
  BY MemSizes
<1>2. PageUp(UserTop) \in Nat /\ PageUp(UserTop) <= UserTop
  BY <1>1, PageUpIs
<1>3. QED
  BY <1>1, <1>2 DEF MostPages

\* The tests of the loops over a process's addresses.
LEMMA LoopEnds ==
  ASSUME NEW n \in Nat, NEW a \in Nat
  PROVE  /\ a * PGSIZE < n <=> a < PageUp(n)
         /\ a * PGSIZE >= n <=> a >= PageUp(n)
<1>1. a * PGSIZE \in Nat
  <2>1. PGSIZE \in Nat
    BY MemSizes
  <2>2. QED
    BY <2>1
<1>2. PageUp(n) \in Nat /\ (a * PGSIZE >= n <=> a >= PageUp(n))
  BY PageUpIs
<1>3. QED
  BY <1>1, <1>2

LEMMA PagesStill ==
  ASSUME NEW q \in Procs, UNCHANGED <<nfree, pipes, pt, newpt, args, trapframe>>
  PROVE  PagesMove(q)
BY DEF PagesMove, Weight, PagesOf, UserPages, Bit

-----------------------------------------------------------------------------
(* sbrk() *)

LEMMA SbrkUpInv ==
  ASSUME MemInv, NEW p \in Procs, NEW n \in 1..UserTop, SbrkUp(p, n)
  PROVE  MemInv'
<1>1. SlotIn(p) /\ KeptBy(p) /\ BuiltBy(p)
  BY SlotIs
<1>2. PICK new \in Nat : new = sz[p] + n /\ new <= UserTop
  BY <1>1, MemSizes DEF SlotIn, SbrkUp
<1>3. PageUp(sz[p]) \in Nat /\ PageUp(sz[p]) < SizeWrap /\ PageUp(sz[p]) <= PageUp(new)
  <2>1. sz[p] \in Nat /\ sz[p] < SizeWrap /\ sz[p] <= new /\ SizeWrap \in Nat
    BY <1>1, <1>2, MemSizes DEF SlotIn
  <2>2. PageUp(sz[p]) \in Nat /\ PageUp(sz[p]) <= sz[p] /\ PageUp(sz[p]) <= PageUp(new)
    BY <2>1, PageUpIs, PageUpLess
  <2>3. QED
    BY <2>1, <2>2
<1>4. new < SizeWrap
  BY <1>2, MemSizes
<1>5. /\ op' = [op EXCEPT ![p] = "grow"] /\ at' = [at EXCEPT ![p] = PageUp(sz[p])]
      /\ goal' = [goal EXCEPT ![p] = new] /\ op[p] = "none" /\ pstate[p] = "live"
      /\ UNCHANGED <<nfree, pstate, trapframe, pt, sz, newpt, newsz, seg, kid, args, pipes, memPanic>>
  BY <1>2 DEF SbrkUp, Goes, At, Goal, Idle
<1>6. SlotTypes'
  BY <1>3, <1>4, <1>5, MemSizes DEF MemInv, SlotTypes
<1>7. /\ op'[p] = "grow" /\ at'[p] = PageUp(sz[p]) /\ goal'[p] = new
  BY <1>5 DEF MemInv, SlotTypes
<1>8. KeptBy(p)'
  BY <1>1, <1>2, <1>3, <1>5, <1>7 DEF KeptBy, Kept
<1>9. BuiltBy(p)'
  BY <1>1, <1>5, <1>7 DEF BuiltBy, Built
<1>10. CopiedBy(p)' /\ Elsewhere(p, p) /\ MayMove(p, p)
  BY <1>5, <1>7 DEF CopiedBy, Copied, Elsewhere, MayMove
<1>11. PagesMove(p)
  BY <1>5, PagesStill
<1>12. nfree' \in Nat /\ pipes' \in 0..MaxPipes /\ memPanic' = FALSE
  BY <1>5 DEF MemInv
<1>13. QED
  BY <1>6, <1>8, <1>9, <1>10, <1>11, <1>12, StepInv

LEMMA GrowPageInv ==
  ASSUME MemInv, NEW p \in Procs, GrowPage(p)
  PROVE  MemInv'
<1> DEFINE new == NewPage(pt[p], at[p], nfree)
           mine == PageUp(sz[p])..(at[p] - 1)
<1>1. SlotIn(p) /\ KeptBy(p) /\ BuiltBy(p)
  BY SlotIs
<1>2. /\ op[p] = "grow" /\ pstate[p] = "live" /\ Space(pt[p], at[p]) /\ goal[p] <= UserTop
      /\ PageUp(sz[p]) <= at[p] /\ pt[p] \in Tables /\ at[p] \in Nat /\ PageUp(sz[p]) \in Nat
      /\ PageUp(sz[p]) <= MostPages
  BY <1>1 DEF GrowPage, KeptBy, Kept, SlotIn
<1>3. at[p] < PageUp(goal[p]) /\ PageUp(goal[p]) <= PageUp(UserTop)
  <2>1. goal[p] \in Nat /\ at[p] \in Nat /\ goal[p] <= UserTop /\ UserTop \in Nat
    BY <1>1, <1>2, MemSizes DEF SlotIn
  <2>2. at[p] * PGSIZE < goal[p]
    BY DEF GrowPage
  <2>3. QED
    BY <2>1, <2>2, LoopEnds, PageUpLess
<1>4. at[p] < MostPages
  BY <1>1, <1>2, <1>3, MostIs DEF SlotIn
<1>5. nfree \in Nat
  BY DEF MemInv
<1>6. /\ new.table \in Tables /\ new.ok \in BOOLEAN /\ new.took \in 0..nfree /\ ~new.remap
      /\ PagesOf(new.table) = PagesOf(pt[p]) + new.took
      /\ new.ok => Space(new.table, at[p] + 1)
      /\ ~new.ok => Space(new.table, at[p])
  BY <1>2, <1>4, <1>5, NewPageIs
<1> HIDE DEF new
<1>7. CASE new.ok
  <2>1. /\ pt' = [pt EXCEPT ![p] = new.table] /\ nfree' = nfree - new.took
        /\ at' = [at EXCEPT ![p] = at[p] + 1] /\ memPanic' = FALSE
        /\ UNCHANGED <<op, goal, pstate, trapframe, sz, newpt, newsz, seg, kid, args, pipes>>
    BY <1>6, <1>7 DEF GrowPage, new, Panics, Allocated, At
  <2>2. /\ pt'[p] = new.table /\ at'[p] = at[p] + 1 /\ at[p] + 1 < SizeWrap
    <3>1. at[p] + 1 < SizeWrap
      BY <1>2, <1>4, MostIs, MemSizes
    <3>2. QED
      BY <3>1, <2>1 DEF MemInv, SlotTypes
  <2>3. new.table.guard \subseteq new.table.leaves
    BY <1>6, <1>7, <1>2 DEF Space
  <2>4. SlotTypes'
    BY <2>1, <2>2, <2>3, <1>2, <1>6, MemSizes DEF MemInv, SlotTypes
  <2>5. KeptBy(p)'
    BY <1>1, <1>2, <1>3, <1>6, <1>7, <2>1, <2>2, SlotIs DEF KeptBy, Kept, SlotIn
  <2>6. BuiltBy(p)'
    BY <1>1, <1>2, <2>1 DEF BuiltBy, Built
  <2>7. CopiedBy(p)' /\ Elsewhere(p, p) /\ MayMove(p, p)
    BY <1>2, <2>1 DEF CopiedBy, Copied, Elsewhere, MayMove
  <2>8. PagesMove(p)
    <3>1. nfree' + pipes' + Weight(p)' = nfree + pipes + Weight(p)
      <4>1. Weight(p)' = PagesOf(new.table) + PagesOf(newpt[p]) + args[p] + Bit(trapframe[p])
        BY <2>1, <2>2 DEF Weight, PagesOf, UserPages, Bit
      <4>2. pipes \in Int /\ pipes' = pipes /\ nfree' = nfree - new.took
        BY <2>1 DEF MemInv
      <4>3. QED
        BY <4>1, <4>2, <1>1, <1>5, <1>6 DEF Weight, SlotIn
    <3>2. QED
      BY <3>1, <2>1 DEF PagesMove
  <2>9. nfree' \in Nat /\ pipes' \in 0..MaxPipes
    BY <1>5, <1>6, <2>1 DEF MemInv
  <2>10. QED
    BY <2>1, <2>4, <2>5, <2>6, <2>7, <2>8, <2>9, StepInv
<1>8. CASE ~new.ok
  <2> DEFINE less == Unmapped(new.table, mine)
  <2>1. /\ less \in Tables /\ Space(less, PageUp(sz[p]))
        /\ PagesOf(less) = PagesOf(new.table) - (at[p] - PageUp(sz[p]))
        /\ ~UnmapPanics(new.table, mine) /\ Cardinality(mine) = at[p] - PageUp(sz[p])
    <3>1. PageUp(sz[p]) \in 0..at[p]
      BY <1>2
    <3>2. QED
      BY <3>1, <1>2, <1>6, <1>8, UnmappedIs
  <2>2. /\ pt' = [pt EXCEPT ![p] = less] /\ nfree' = nfree - (new.took - Cardinality(mine))
        /\ at' = [at EXCEPT ![p] = 0] /\ goal' = [goal EXCEPT ![p] = 0]
        /\ op' = [op EXCEPT ![p] = "none"] /\ memPanic' = FALSE
        /\ UNCHANGED <<pstate, trapframe, sz, newpt, newsz, seg, kid, args, pipes>>
    BY <1>6, <1>8, <2>1 DEF GrowPage, new, Panics, Allocated, At, Goal, Goes
  <2> HIDE DEF less, mine
  <2>3. pt'[p] = less /\ at'[p] = 0 /\ goal'[p] = 0 /\ op'[p] = "none"
    BY <2>2 DEF MemInv, SlotTypes
  <2>4. less.guard \subseteq less.leaves
    BY <2>1, <1>2 DEF Space
  <2>5. SlotTypes'
    BY <2>1, <2>2, <2>4, MemSizes DEF MemInv, SlotTypes
  <2>6. KeptBy(p)'
    BY <1>1, <1>2, <2>1, <2>2, <2>3 DEF KeptBy, Kept
  <2>7. BuiltBy(p)'
    BY <1>1, <1>2, <2>2, <2>3 DEF BuiltBy, Built
  <2>8. CopiedBy(p)' /\ Elsewhere(p, p) /\ MayMove(p, p)
    BY <1>2, <2>2, <2>3 DEF CopiedBy, Copied, Elsewhere, MayMove
  <2>9. PagesMove(p)
    <3>1. nfree' + pipes' + Weight(p)' = nfree + pipes + Weight(p)
      <4>1. Weight(p)' = PagesOf(less) + PagesOf(newpt[p]) + args[p] + Bit(trapframe[p])
        BY <2>2, <2>3 DEF Weight, PagesOf, UserPages, Bit
      <4>2. pipes \in Int /\ pipes' = pipes /\ nfree' = nfree - (new.took - Cardinality(mine))
        BY <2>2 DEF MemInv
      <4>3. QED
        BY <4>1, <4>2, <1>1, <1>2, <1>5, <1>6, <2>1 DEF Weight, SlotIn
    <3>2. QED
      BY <3>1, <2>2 DEF PagesMove
  <2>10. nfree' \in Nat /\ pipes' \in 0..MaxPipes
    BY <1>2, <1>5, <1>6, <2>1, <2>2 DEF MemInv
  <2>11. QED
    BY <2>2, <2>5, <2>6, <2>7, <2>8, <2>9, <2>10, StepInv
<1>9. QED
  BY <1>6, <1>7, <1>8

LEMMA GrowDoneInv ==
  ASSUME MemInv, NEW p \in Procs, GrowDone(p)
  PROVE  MemInv'
<1>1. SlotIn(p) /\ KeptBy(p) /\ BuiltBy(p)
  BY SlotIs
<1>2. /\ op[p] = "grow" /\ pstate[p] = "live" /\ Space(pt[p], at[p]) /\ goal[p] <= UserTop
      /\ at[p] <= PageUp(goal[p]) /\ at[p] \in Nat /\ goal[p] \in Nat /\ goal[p] < SizeWrap
  BY <1>1 DEF GrowDone, KeptBy, Kept, SlotIn
<1>3. at[p] = PageUp(goal[p])
  <2>1. at[p] * PGSIZE >= goal[p]
    BY DEF GrowDone
  <2>2. at[p] >= PageUp(goal[p]) /\ PageUp(goal[p]) \in Nat
    BY <2>1, <1>2, LoopEnds, PageUpIs
  <2>3. QED
    BY <1>2, <2>2
<1>4. /\ sz' = [sz EXCEPT ![p] = goal[p]] /\ at' = [at EXCEPT ![p] = 0]
      /\ goal' = [goal EXCEPT ![p] = 0] /\ op' = [op EXCEPT ![p] = "none"]
      /\ UNCHANGED <<nfree, pstate, trapframe, pt, newpt, newsz, seg, kid, args, pipes, memPanic>>
  BY DEF GrowDone, Goes, At, Goal
<1>5. sz'[p] = goal[p] /\ at'[p] = 0 /\ goal'[p] = 0 /\ op'[p] = "none"
  BY <1>4 DEF MemInv, SlotTypes
<1>6. SlotTypes'
  BY <1>2, <1>4, MemSizes DEF MemInv, SlotTypes
<1>7. KeptBy(p)'
  BY <1>1, <1>2, <1>3, <1>4, <1>5 DEF KeptBy, Kept, Space
<1>8. BuiltBy(p)'
  BY <1>1, <1>2, <1>4, <1>5 DEF BuiltBy, Built
<1>9. CopiedBy(p)' /\ Elsewhere(p, p) /\ MayMove(p, p)
  BY <1>2, <1>4, <1>5 DEF CopiedBy, Copied, Elsewhere, MayMove
<1>10. PagesMove(p)
  BY <1>4, PagesStill
<1>11. nfree' \in Nat /\ pipes' \in 0..MaxPipes /\ memPanic' = FALSE
  BY <1>4 DEF MemInv
<1>12. QED
  BY <1>6, <1>7, <1>8, <1>9, <1>10, <1>11, StepInv

LEMMA SbrkDownInv ==
  ASSUME MemInv, NEW p \in Procs, NEW n \in 1..UserTop, SbrkDown(p, n)
  PROVE  MemInv'
<1> DEFINE to == (sz[p] + SizeWrap - n) % SizeWrap
           gone == Pages(sz[p]) \ Pages(to)
           less == Unmapped(pt[p], gone)
<1>1. SlotIn(p) /\ KeptBy(p) /\ BuiltBy(p)
  BY SlotIs
<1>2. /\ op[p] = "none" /\ pstate[p] = "live" /\ Space(pt[p], PageUp(sz[p])) /\ at[p] = 0
      /\ pt[p] \in Tables /\ sz[p] \in Nat /\ PageUp(sz[p]) \in Nat /\ PageUp(sz[p]) <= MostPages
      /\ sz[p] < SizeWrap
  BY <1>1 DEF SbrkDown, Idle, KeptBy, Kept, SlotIn
<1>3. to \in Nat /\ to < sz[p]
  <2>1. SizeWrap \in Nat \ {0} /\ sz[p] + SizeWrap - n \in Int
    BY <1>2, MemSizes
  <2>2. to \in 0..(SizeWrap - 1)
    BY <2>1, ModDiv
  <2>3. to < sz[p]
    BY DEF SbrkDown
  <2>4. QED
    BY <2>1, <2>2, <2>3
<1>4. PageUp(to) \in Nat /\ PageUp(to) \in 0..PageUp(sz[p]) /\ gone = PageUp(to)..(PageUp(sz[p]) - 1)
  <2> HIDE DEF to
  <2>1. PageUp(to) \in Nat /\ PageUp(to) <= PageUp(sz[p])
    BY <1>2, <1>3, PageUpIs, PageUpLess
  <2>2. QED
    BY <2>1, <1>2, <1>3, PagesIs
<1>5. /\ sz' = [sz EXCEPT ![p] = to] /\ pt' = [pt EXCEPT ![p] = less]
      /\ nfree' = nfree - (-Cardinality(gone)) /\ memPanic' = UnmapPanics(pt[p], gone)
      /\ UNCHANGED <<pstate, trapframe, newpt, newsz, op, at, goal, seg, kid, args, pipes>>
  BY DEF SbrkDown, Allocated, Panics
<1> HIDE DEF to
<1>6. /\ less \in Tables /\ Space(less, PageUp(to))
      /\ PagesOf(less) = PagesOf(pt[p]) - (PageUp(sz[p]) - PageUp(to))
      /\ ~UnmapPanics(pt[p], gone) /\ Cardinality(gone) = PageUp(sz[p]) - PageUp(to)
  <2> DEFINE S == PageUp(to)..(PageUp(sz[p]) - 1)
  <2>1. /\ Unmapped(pt[p], S) \in Tables /\ Space(Unmapped(pt[p], S), PageUp(to))
        /\ PagesOf(Unmapped(pt[p], S)) = PagesOf(pt[p]) - (PageUp(sz[p]) - PageUp(to))
        /\ ~UnmapPanics(pt[p], S) /\ Cardinality(S) = PageUp(sz[p]) - PageUp(to)
    BY <1>2, <1>4, UnmappedIs
  <2>2. gone = S
    BY <1>4
  <2> HIDE DEF gone, S
  <2>3. QED
    BY <2>1, <2>2
<1> HIDE DEF gone, less
<1>7. sz'[p] = to /\ pt'[p] = less
  BY <1>5 DEF MemInv, SlotTypes
<1>8. less.guard \subseteq less.leaves
  BY <1>6 DEF Space
<1>9. SlotTypes'
  BY <1>2, <1>3, <1>5, <1>6, <1>8, MemSizes DEF MemInv, SlotTypes
<1>10. KeptBy(p)'
  BY <1>1, <1>2, <1>4, <1>5, <1>6, <1>7, MostIs DEF KeptBy, Kept
<1>11. BuiltBy(p)'
  BY <1>1, <1>2, <1>5 DEF BuiltBy, Built
<1>12. CopiedBy(p)' /\ Elsewhere(p, p) /\ MayMove(p, p)
  BY <1>2, <1>5 DEF CopiedBy, Copied, Elsewhere, MayMove
<1>13. PagesMove(p)
  <2>1. nfree' + pipes' + Weight(p)' = nfree + pipes + Weight(p)
    <3>1. Weight(p)' = PagesOf(less) + PagesOf(newpt[p]) + args[p] + Bit(trapframe[p])
      BY <1>5, <1>7 DEF Weight, PagesOf, UserPages, Bit
    <3>2. pipes \in Int /\ nfree \in Int /\ pipes' = pipes /\ nfree' = nfree + Cardinality(gone)
      BY <1>2, <1>4, <1>5, <1>6 DEF MemInv
    <3>3. /\ Weight(p) = PagesOf(pt[p]) + PagesOf(newpt[p]) + args[p] + Bit(trapframe[p])
          /\ PagesOf(pt[p]) \in Int /\ PagesOf(newpt[p]) \in Int /\ args[p] \in Int
          /\ Bit(trapframe[p]) \in Int
      BY <1>1 DEF Weight, SlotIn
    <3>4. PagesOf(less) = PagesOf(pt[p]) - Cardinality(gone) /\ Cardinality(gone) \in Int
      BY <1>2, <1>4, <1>6
    <3>5. QED
      BY <3>1, <3>2, <3>3, <3>4
  <2>2. QED
    BY <2>1, <1>5 DEF PagesMove
<1>14. nfree' \in Nat /\ pipes' \in 0..MaxPipes /\ memPanic' = FALSE
  <2>1. nfree' \in Nat
    BY <1>2, <1>4, <1>5, <1>6 DEF MemInv
  <2>2. memPanic' = FALSE
    BY <1>5, <1>6 DEF UnmapPanics
  <2>3. QED
    BY <2>1, <2>2, <1>5 DEF MemInv
<1>15. QED
  BY <1>9, <1>10, <1>11, <1>12, <1>13, <1>14, StepInv

-----------------------------------------------------------------------------
(* fork(), exit() and wait() *)

LEMMA AllocProcInv ==
  ASSUME MemInv, NEW p \in Procs, AllocProc(p)
  PROVE  MemInv'
<1> DEFINE made == ProcPagetable(nfree - 1)
<1>1. PICK q \in Procs :
        /\ pstate[q] = "unused" /\ nfree > 0 /\ made.ok
        /\ nfree' = nfree - (1 + made.took)
        /\ pt' = [pt EXCEPT ![q] = made.table] /\ trapframe' = [trapframe EXCEPT ![q] = TRUE]
        /\ pstate' = [pstate EXCEPT ![q] = "made"] /\ kid' = [kid EXCEPT ![p] = q]
  BY DEF AllocProc, Allocated
<1>2. /\ pstate[p] = "live" /\ op[p] = "none" /\ op' = [op EXCEPT ![p] = "fork"]
      /\ UNCHANGED <<sz, newpt, newsz, at, goal, seg, args, pipes, memPanic>>
  BY DEF AllocProc, Idle, Goes
<1>3. p # q
  BY <1>1, <1>2
<1>4. nfree \in Nat /\ nfree - 1 \in Nat
  BY <1>1 DEF MemInv
<1>5. /\ made.table \in Tables /\ Space(made.table, 0)
      /\ made.took \in 0..(nfree - 1) /\ PagesOf(made.table) = made.took
  BY <1>1, <1>4, ProcPagetableIs
<1> HIDE DEF made
<1>6. SlotIn(p) /\ KeptBy(p) /\ BuiltBy(p) /\ SlotIn(q) /\ KeptBy(q) /\ BuiltBy(q)
  BY SlotIs
<1>7. /\ pt[q] = NoTable /\ sz[q] = 0 /\ ~trapframe[q] /\ op[q] = "none" /\ at[q] = 0
      /\ at[p] = 0 /\ Space(pt[p], PageUp(sz[p])) /\ PageUp(sz[p]) <= MostPages
      /\ PageUp(sz[p]) \in Nat
  BY <1>1, <1>2, <1>6 DEF KeptBy, Kept, SlotIn
<1>8. /\ pt'[q] = made.table /\ pt'[p] = pt[p] /\ trapframe'[q] = TRUE /\ trapframe'[p] = trapframe[p]
      /\ pstate'[q] = "made" /\ pstate'[p] = "live" /\ kid'[p] = q
      /\ op'[p] = "fork" /\ op'[q] = "none"
  BY <1>1, <1>2, <1>3, <1>7 DEF MemInv, SlotTypes
<1>9. made.table.guard \subseteq made.table.leaves
  BY <1>5 DEF Space
<1>10. SlotTypes'
  BY <1>1, <1>2, <1>5, <1>9 DEF MemInv, SlotTypes
<1>11. KeptBy(p)' /\ KeptBy(q)'
  BY <1>2, <1>6, <1>7, <1>8 DEF KeptBy, Kept
<1>12. BuiltBy(p)' /\ BuiltBy(q)'
  BY <1>2, <1>6, <1>7, <1>8 DEF BuiltBy, Built
<1>13. CopiedBy(p)'
  BY <1>2, <1>5, <1>7, <1>8 DEF CopiedBy, Copied
<1>14. Elsewhere(p, q) /\ MayMove(p, q)
  BY <1>1, <1>2, <1>7, <1>8 DEF Elsewhere, MayMove, MemInv, SlotTypes
<1>15. PagesMove(q)
  <2>1. nfree' + pipes' + Weight(q)' = nfree + pipes + Weight(q)
    <3>1. Weight(q)' = PagesOf(made.table) + PagesOf(newpt[q]) + args[q] + 1
      BY <1>2, <1>8 DEF Weight, PagesOf, UserPages, Bit
    <3>2. Weight(q) = 0 + PagesOf(newpt[q]) + args[q] + 0
      BY <1>7, EmptyTable DEF Weight, Bit
    <3>3. pipes \in Int /\ pipes' = pipes
      BY <1>2 DEF MemInv
    <3>4. QED
      BY <3>1, <3>2, <3>3, <1>1, <1>4, <1>5, <1>6 DEF SlotIn
  <2>2. QED
    BY <2>1, <1>1, <1>2 DEF PagesMove, MemInv, SlotTypes
<1>16. nfree' \in Nat /\ pipes' \in 0..MaxPipes /\ memPanic' = FALSE
  BY <1>1, <1>2, <1>4, <1>5 DEF MemInv
<1>17. QED
  BY <1>10, <1>11, <1>12, <1>13, <1>14, <1>15, <1>16, StepInv

\* A slot that is freed gives back all its pages.
LEMMA FreeProcIs ==
  ASSUME MemInv, NEW q \in Procs, NEW t \in Tables, NEW taken \in Int, FreeProc(q, t, taken),
         Space(t, PageUp(sz[q])), PagesOf(t) = PagesOf(pt[q]) + taken, trapframe[q] = TRUE,
         newpt'[q] = newpt[q], args'[q] = args[q], pipes' = pipes
  PROVE  /\ nfree' + pipes' + Weight(q)' = nfree + pipes + Weight(q)
         /\ nfree' = nfree + 1 + PagesOf(pt[q]) /\ nfree' \in Nat /\ memPanic' = FALSE
         /\ pt' = [pt EXCEPT ![q] = NoTable] /\ trapframe' = [trapframe EXCEPT ![q] = FALSE]
         /\ sz' = [sz EXCEPT ![q] = 0] /\ pstate' = [pstate EXCEPT ![q] = "unused"]
         /\ pt'[q] = NoTable /\ trapframe'[q] = FALSE /\ sz'[q] = 0 /\ pstate'[q] = "unused"
<1>1. SlotIn(q) /\ nfree \in Nat /\ pipes \in Int
  <2>1. SlotIn(q)
    BY SlotIs
  <2>2. QED
    BY <2>1 DEF MemInv
<1>2. ~FreePanics(t, sz[q]) /\ FreedPages(t, sz[q]) = PagesOf(t)
  <2>1. sz[q] \in Nat
    BY <1>1 DEF SlotIn
  <2>2. QED
    BY <2>1, FreedIs
<1>3. /\ nfree' = nfree - (taken - 1 - FreedPages(t, sz[q])) /\ memPanic' = FreePanics(t, sz[q])
      /\ pt' = [pt EXCEPT ![q] = NoTable] /\ trapframe' = [trapframe EXCEPT ![q] = FALSE]
      /\ sz' = [sz EXCEPT ![q] = 0] /\ pstate' = [pstate EXCEPT ![q] = "unused"]
  BY DEF FreeProc, Allocated, Panics
<1>4. pt'[q] = NoTable /\ trapframe'[q] = FALSE /\ sz'[q] = 0 /\ pstate'[q] = "unused"
  BY <1>3 DEF MemInv, SlotTypes
<1>5. memPanic' = FALSE
  BY <1>2, <1>3 DEF FreePanics
<1>6. PagesOf(pt[q]) \in Nat
  BY <1>1 DEF SlotIn
<1>7. nfree' = nfree + 1 + PagesOf(pt[q])
  BY <1>1, <1>2, <1>3, <1>6
<1>8. Weight(q)' = 0 + PagesOf(newpt[q]) + args[q] + 0
  <2>1. Weight(q)' = PagesOf(pt'[q]) + PagesOf(newpt'[q]) + args'[q] + Bit(trapframe'[q])
    BY DEF Weight, PagesOf, UserPages, Bit
  <2>2. PagesOf(NoTable) = 0 /\ Bit(FALSE) = 0
    BY EmptyTable DEF Bit
  <2>3. QED
    BY <2>1, <2>2, <1>4
<1>9. Weight(q) = PagesOf(pt[q]) + PagesOf(newpt[q]) + args[q] + 1
  BY DEF Weight, Bit
<1>10. PagesOf(newpt[q]) \in Int /\ args[q] \in Int
  BY <1>1 DEF SlotIn
<1>11. nfree' + pipes' + Weight(q)' = nfree + pipes + Weight(q)
  BY <1>1, <1>6, <1>7, <1>8, <1>9, <1>10
<1>12. nfree' \in Nat
  BY <1>1, <1>6, <1>7
<1>13. QED
  BY <1>3, <1>4, <1>5, <1>7, <1>11, <1>12

LEMMA ForkPageInv ==
  ASSUME MemInv, NEW p \in Procs, ForkPage(p)
  PROVE  MemInv'
<1>1. op[p] = "fork" /\ UNCHANGED <<newpt, newsz, goal, seg, args, pipes>>
  BY DEF ForkPage
<1>2. SlotIn(p) /\ KeptBy(p) /\ BuiltBy(p) /\ CopiedBy(p)
  BY SlotIs
<1>3. PICK q \in Procs : q = kid[p]
  BY <1>2 DEF SlotIn
<1> DEFINE new == NewPage(pt[q], at[p], nfree)
<1>4. SlotIn(q) /\ KeptBy(q) /\ BuiltBy(q)
  BY <1>3, SlotIs
<1>5. /\ pstate[p] = "live" /\ Space(pt[p], PageUp(sz[p])) /\ PageUp(sz[p]) <= MostPages
      /\ pstate[q] = "made" /\ Space(pt[q], at[p]) /\ at[p] <= PageUp(sz[p]) /\ sz[q] = 0
      /\ trapframe[q] = TRUE /\ op[q] = "none" /\ at[q] = 0 /\ p # q
  BY <1>1, <1>2, <1>3, <1>4 DEF KeptBy, Kept, CopiedBy, Copied, SlotIn
<1>6. /\ pt[q] \in Tables /\ pt[p] \in Tables /\ at[p] \in Nat /\ PageUp(sz[p]) \in Nat
      /\ sz[p] \in Nat /\ nfree \in Nat
  BY <1>2, <1>4 DEF SlotIn, MemInv
<1>7. at[p] < PageUp(sz[p]) /\ at[p] < MostPages
  <2>1. at[p] * PGSIZE < sz[p]
    BY DEF ForkPage
  <2>2. at[p] < PageUp(sz[p])
    BY <2>1, <1>6, LoopEnds
  <2>3. QED
    BY <2>2, <1>5, <1>6, MostIs
<1>8. /\ new.table \in Tables /\ new.ok \in BOOLEAN /\ new.took \in 0..nfree /\ ~new.remap
      /\ PagesOf(new.table) = PagesOf(pt[q]) + new.took
      /\ new.ok => Space(new.table, at[p] + 1)
      /\ ~new.ok => Space(new.table, at[p])
  BY <1>5, <1>6, <1>7, NewPageIs
<1> HIDE DEF new
<1>9. CASE new.ok
  <2> DEFINE t == IF at[p] \in pt[p].guard
                  THEN [new.table EXCEPT !.guard = @ \cup {at[p]}] ELSE new.table
  <2>1. /\ pt' = [pt EXCEPT ![q] = t] /\ nfree' = nfree - new.took
        /\ at' = [at EXCEPT ![p] = at[p] + 1]
        /\ memPanic' = (new.remap \/ at[p] \notin pt[p].leaves)
        /\ UNCHANGED <<pstate, trapframe, sz, op, kid>>
    BY <1>3, <1>9 DEF ForkPage, new, Panics, Allocated, At
  <2>2. at[p] \in pt[p].leaves
    BY <1>5, <1>6, <1>7 DEF Space
  <2>3. /\ t \in Tables /\ t.root = new.table.root /\ t.dirs = new.table.dirs
        /\ t.leaves = new.table.leaves /\ t.guard \subseteq new.table.guard \cup {at[p]}
    <3>1. at[p] \in VIRTUALS
      BY <1>6, <1>7, HighPages
    <3>2. new.table = [root |-> new.table.root, dirs |-> new.table.dirs,
                       leaves |-> new.table.leaves, guard |-> new.table.guard]
          /\ new.table.root \in BOOLEAN /\ new.table.dirs \subseteq Dirs
          /\ new.table.leaves \subseteq VIRTUALS /\ new.table.guard \subseteq VIRTUALS
      BY <1>8 DEF Tables
    <3>3. CASE at[p] \in pt[p].guard
      <4>1. t = [root |-> new.table.root, dirs |-> new.table.dirs,
                 leaves |-> new.table.leaves, guard |-> new.table.guard \cup {at[p]}]
        BY <3>2, <3>3
      <4> HIDE DEF t
      <4>2. QED
        BY <4>1, <3>1, <3>2 DEF Tables
    <3>4. CASE at[p] \notin pt[p].guard
      BY <3>4, <1>8
    <3>5. QED
      BY <3>3, <3>4
  <2> HIDE DEF t
  <2>4. Space(t, at[p] + 1)
    BY <1>6, <1>8, <1>9, <2>3 DEF Space
  <2>5. PagesOf(t) = PagesOf(new.table)
    BY <2>3 DEF PagesOf, UserPages
  <2>6. t.guard \subseteq t.leaves
    BY <2>4 DEF Space
  <2>7. at[p] + 1 < SizeWrap
    BY <1>6, <1>7, MostIs, MemSizes
  <2>8. SlotTypes'
    BY <2>1, <2>3, <2>6, <2>7, <1>1, <1>6, MemSizes DEF MemInv, SlotTypes
  <2>9. pt'[q] = t /\ pt'[p] = pt[p] /\ at'[p] = at[p] + 1 /\ at'[q] = 0
    BY <2>1, <1>3, <1>5 DEF MemInv, SlotTypes
  <2>10. KeptBy(p)' /\ KeptBy(q)'
    BY <2>1, <2>9, <1>1, <1>2, <1>4, <1>5 DEF KeptBy, Kept
  <2>11. BuiltBy(p)' /\ BuiltBy(q)'
    BY <2>1, <2>9, <1>1, <1>2, <1>4, <1>5 DEF BuiltBy, Built
  <2>12. CopiedBy(p)'
    BY <2>1, <2>4, <2>9, <1>1, <1>3, <1>5, <1>6, <1>7 DEF CopiedBy, Copied
  <2>13. Elsewhere(p, q) /\ MayMove(p, q)
    BY <2>1, <1>1, <1>3, <1>5 DEF Elsewhere, MayMove
  <2>14. PagesMove(q)
    <3>1. Weight(q)' = PagesOf(t) + PagesOf(newpt[q]) + args[q] + Bit(trapframe[q])
      BY <2>1, <2>9, <1>1 DEF Weight, PagesOf, UserPages, Bit
    <3>2. /\ Weight(q) = PagesOf(pt[q]) + PagesOf(newpt[q]) + args[q] + Bit(trapframe[q])
          /\ PagesOf(pt[q]) \in Int /\ PagesOf(newpt[q]) \in Int /\ args[q] \in Int
          /\ Bit(trapframe[q]) \in Int
      BY <1>4 DEF Weight, SlotIn
    <3>3. pipes \in Int /\ pipes' = pipes
      BY <1>1 DEF MemInv
    <3>4. nfree' + pipes' + Weight(q)' = nfree + pipes + Weight(q)
      BY <3>1, <3>2, <3>3, <2>1, <2>5, <1>6, <1>8
    <3>5. QED
      BY <3>4, <2>1, <1>1 DEF PagesMove
  <2>15. nfree' \in Nat /\ pipes' \in 0..MaxPipes /\ memPanic' = FALSE
    <3>1. nfree' \in Nat
      BY <1>6, <1>8, <2>1
    <3>2. memPanic' = FALSE
      BY <1>8, <2>1, <2>2
    <3>3. QED
      BY <3>1, <3>2, <1>1 DEF MemInv
  <2>16. QED
    BY <1>3, <2>8, <2>10, <2>11, <2>12, <2>13, <2>14, <2>15, StepInv
<1>10. CASE ~new.ok
  <2> DEFINE less == Unmapped(new.table, 0..(at[p] - 1))
             taken == new.took - at[p]
  <2>1. /\ FreeProc(q, less, taken) /\ op' = [op EXCEPT ![p] = "none"]
        /\ at' = [at EXCEPT ![p] = 0] /\ kid' = [kid EXCEPT ![p] = p]
    BY <1>3, <1>10 DEF ForkPage, ForkFails, new, Goes, At
  <2>2. /\ less \in Tables /\ Space(less, 0) /\ PagesOf(less) = PagesOf(new.table) - (at[p] - 0)
    <3>1. 0 \in 0..at[p]
      BY <1>6
    <3>2. QED
      BY <3>1, <1>6, <1>8, <1>10, UnmappedIs
  <2> HIDE DEF less
  <2>3. taken \in Int /\ PagesOf(less) = PagesOf(pt[q]) + taken
    <3>1. PagesOf(pt[q]) \in Nat
      BY <1>4 DEF SlotIn
    <3>2. QED
      BY <3>1, <2>2, <1>6, <1>8
  <2>4. Space(less, PageUp(sz[q]))
    <3>1. PageUp(0) = 0
      BY PageUpIs
    <3>2. QED
      BY <3>1, <2>2, <1>5
  <2>5. newpt'[q] = newpt[q] /\ args'[q] = args[q] /\ pipes' = pipes
    BY <1>1
  <2> HIDE DEF taken
  <2>6. /\ nfree' + pipes' + Weight(q)' = nfree + pipes + Weight(q)
        /\ nfree' \in Nat /\ memPanic' = FALSE
        /\ pt' = [pt EXCEPT ![q] = NoTable] /\ trapframe' = [trapframe EXCEPT ![q] = FALSE]
        /\ sz' = [sz EXCEPT ![q] = 0] /\ pstate' = [pstate EXCEPT ![q] = "unused"]
        /\ pt'[q] = NoTable /\ trapframe'[q] = FALSE /\ sz'[q] = 0 /\ pstate'[q] = "unused"
    BY <2>1, <2>2, <2>3, <2>4, <2>5, <1>3, <1>5, FreeProcIs
  <2>7. /\ pt'[p] = pt[p] /\ trapframe'[p] = trapframe[p] /\ sz'[p] = sz[p]
        /\ pstate'[p] = pstate[p] /\ at'[p] = 0 /\ at'[q] = 0 /\ op'[p] = "none" /\ op'[q] = "none"
    BY <2>1, <2>6, <1>3, <1>5 DEF MemInv, SlotTypes
  <2>8. SlotTypes'
    BY <2>1, <2>6, <1>1, EmptyTable, MemSizes DEF MemInv, SlotTypes
  <2>9. KeptBy(p)' /\ KeptBy(q)'
    BY <2>6, <2>7, <1>1, <1>2, <1>4, <1>5 DEF KeptBy, Kept
  <2>10. BuiltBy(p)' /\ BuiltBy(q)'
    BY <2>6, <2>7, <1>1, <1>2, <1>4, <1>5 DEF BuiltBy, Built
  <2>11. CopiedBy(p)'
    BY <2>7 DEF CopiedBy, Copied
  <2>12. Elsewhere(p, q) /\ MayMove(p, q)
    BY <2>1, <2>6, <2>7, <1>1, <1>3, <1>5 DEF Elsewhere, MayMove
  <2>13. PagesMove(q)
    BY <2>6, <1>1 DEF PagesMove
  <2>14. pipes' \in 0..MaxPipes
    BY <1>1 DEF MemInv
  <2>15. QED
    BY <1>3, <2>6, <2>8, <2>9, <2>10, <2>11, <2>12, <2>13, <2>14, StepInv
<1>11. QED
  BY <1>8, <1>9, <1>10

LEMMA ForkDoneInv ==
  ASSUME MemInv, NEW p \in Procs, ForkDone(p)
  PROVE  MemInv'
<1>1. SlotIn(p) /\ KeptBy(p) /\ BuiltBy(p) /\ CopiedBy(p)
  BY SlotIs
<1>2. PICK q \in Procs : q = kid[p]
  BY <1>1 DEF SlotIn
<1>3. /\ op[p] = "fork"
      /\ sz' = [sz EXCEPT ![q] = sz[p]] /\ pstate' = [pstate EXCEPT ![q] = "live"]
      /\ kid' = [kid EXCEPT ![p] = p]
      /\ op' = [op EXCEPT ![p] = "none"] /\ at' = [at EXCEPT ![p] = 0]
      /\ UNCHANGED <<nfree, trapframe, pt, newpt, newsz, goal, seg, args, pipes, memPanic>>
  BY <1>2 DEF ForkDone, Goes, At
<1>4. SlotIn(q) /\ KeptBy(q) /\ BuiltBy(q)
  BY <1>2, SlotIs
<1>5. /\ pstate[p] = "live" /\ Space(pt[p], PageUp(sz[p])) /\ PageUp(sz[p]) <= MostPages
      /\ pstate[q] = "made" /\ Space(pt[q], at[p]) /\ at[p] <= PageUp(sz[p]) /\ sz[q] = 0
      /\ trapframe[q] = TRUE /\ op[q] = "none" /\ at[q] = 0 /\ p # q
  BY <1>1, <1>2, <1>3, <1>4 DEF KeptBy, Kept, CopiedBy, Copied, SlotIn
<1>6. at[p] \in Nat /\ PageUp(sz[p]) \in Nat /\ sz[p] \in Nat /\ sz[p] < SizeWrap
  BY <1>1 DEF SlotIn
<1>7. at[p] = PageUp(sz[p])
  <2>1. at[p] * PGSIZE >= sz[p]
    BY DEF ForkDone
  <2>2. at[p] >= PageUp(sz[p])
    BY <2>1, <1>6, LoopEnds
  <2>3. QED
    BY <2>2, <1>5, <1>6
<1>8. /\ sz'[q] = sz[p] /\ sz'[p] = sz[p] /\ pstate'[q] = "live" /\ pstate'[p] = "live"
      /\ op'[p] = "none" /\ op'[q] = "none" /\ at'[p] = 0 /\ at'[q] = 0
  BY <1>2, <1>3, <1>5 DEF MemInv, SlotTypes
<1>9. SlotTypes'
  BY <1>3, <1>6, MemSizes DEF MemInv, SlotTypes
<1>10. KeptBy(p)' /\ KeptBy(q)'
  BY <1>1, <1>3, <1>4, <1>5, <1>7, <1>8 DEF KeptBy, Kept
<1>11. BuiltBy(p)' /\ BuiltBy(q)'
  BY <1>1, <1>3, <1>4, <1>5, <1>8 DEF BuiltBy, Built
<1>12. CopiedBy(p)'
  BY <1>8 DEF CopiedBy, Copied
<1>13. Elsewhere(p, q) /\ MayMove(p, q)
  BY <1>2, <1>3, <1>5, <1>8 DEF Elsewhere, MayMove
<1>14. PagesMove(q)
  BY <1>2, <1>3, PagesStill
<1>15. nfree' \in Nat /\ pipes' \in 0..MaxPipes /\ memPanic' = FALSE
  BY <1>3 DEF MemInv
<1>16. QED
  BY <1>2, <1>9, <1>10, <1>11, <1>12, <1>13, <1>14, <1>15, StepInv

LEMMA ExitInv ==
  ASSUME MemInv, NEW p \in Procs, Exit(p)
  PROVE  MemInv'
<1>1. /\ pstate[p] = "live" /\ op[p] = "none" /\ pstate' = [pstate EXCEPT ![p] = "zombie"]
      /\ UNCHANGED <<nfree, trapframe, pt, sz, newpt, newsz, op, at, goal, seg, kid, args, pipes, memPanic>>
  BY DEF Exit, Idle
<1>2. SlotIn(p) /\ KeptBy(p) /\ BuiltBy(p)
  BY SlotIs
<1>3. pstate'[p] = "zombie"
  BY <1>1 DEF MemInv, SlotTypes
<1>4. SlotTypes'
  BY <1>1 DEF MemInv, SlotTypes
<1>5. KeptBy(p)' /\ BuiltBy(p)'
  BY <1>1, <1>2, <1>3 DEF KeptBy, Kept, BuiltBy, Built
<1>6. CopiedBy(p)' /\ Elsewhere(p, p) /\ MayMove(p, p)
  BY <1>1 DEF CopiedBy, Copied, Elsewhere, MayMove
<1>7. PagesMove(p)
  BY <1>1, PagesStill
<1>8. nfree' \in Nat /\ pipes' \in 0..MaxPipes /\ memPanic' = FALSE
  BY <1>1 DEF MemInv
<1>9. QED
  BY <1>4, <1>5, <1>6, <1>7, <1>8, StepInv

LEMMA ReapInv ==
  ASSUME MemInv, NEW z \in Procs, Reap(z)
  PROVE  MemInv'
<1>1. /\ pstate[z] = "zombie" /\ FreeProc(z, pt[z], 0)
      /\ UNCHANGED <<newpt, newsz, op, at, goal, seg, kid, args, pipes>>
  BY DEF Reap
<1>2. SlotIn(z) /\ KeptBy(z) /\ BuiltBy(z)
  BY SlotIs
<1>3. /\ op[z] = "none" /\ at[z] = 0 /\ trapframe[z] = TRUE /\ Space(pt[z], PageUp(sz[z]))
      /\ pt[z] \in Tables
  BY <1>1, <1>2 DEF KeptBy, Kept, SlotIn
<1>4. 0 \in Int /\ PagesOf(pt[z]) = PagesOf(pt[z]) + 0
  BY <1>2 DEF SlotIn
<1>5. newpt'[z] = newpt[z] /\ args'[z] = args[z] /\ pipes' = pipes
  BY <1>1
<1>6. /\ nfree' + pipes' + Weight(z)' = nfree + pipes + Weight(z)
      /\ nfree' \in Nat /\ memPanic' = FALSE
      /\ pt' = [pt EXCEPT ![z] = NoTable] /\ trapframe' = [trapframe EXCEPT ![z] = FALSE]
      /\ sz' = [sz EXCEPT ![z] = 0] /\ pstate' = [pstate EXCEPT ![z] = "unused"]
      /\ pt'[z] = NoTable /\ trapframe'[z] = FALSE /\ sz'[z] = 0 /\ pstate'[z] = "unused"
  BY <1>1, <1>3, <1>4, <1>5, FreeProcIs
<1>7. SlotTypes'
  BY <1>1, <1>6, EmptyTable, MemSizes DEF MemInv, SlotTypes
<1>8. KeptBy(z)' /\ BuiltBy(z)'
  BY <1>1, <1>2, <1>3, <1>6 DEF KeptBy, Kept, BuiltBy, Built
<1>9. CopiedBy(z)' /\ Elsewhere(z, z) /\ MayMove(z, z)
  BY <1>1, <1>3, <1>6 DEF CopiedBy, Copied, Elsewhere, MayMove
<1>10. PagesMove(z)
  BY <1>1, <1>6 DEF PagesMove
<1>11. pipes' \in 0..MaxPipes
  BY <1>1 DEF MemInv
<1>12. QED
  BY <1>6, <1>7, <1>8, <1>9, <1>10, <1>11, StepInv

-----------------------------------------------------------------------------
(* exec() *)

\* The call returns without a new image, once all that it took is freed.
LEMMA ExecReturnsInv ==
  ASSUME MemInv, NEW p \in Procs, op[p] \in {"args", "load", "seg", "stack"}, NEW freed \in Int,
         freed = PagesOf(newpt[p]), ExecReturns(p, freed), ExecUnchanged,
         UNCHANGED <<pt, sz>>, memPanic' = FALSE
  PROVE  MemInv'
<1>1. SlotIn(p) /\ KeptBy(p) /\ BuiltBy(p)
  BY SlotIs
<1>2. /\ nfree' = nfree + freed + args[p] /\ args' = [args EXCEPT ![p] = 0]
      /\ newpt' = [newpt EXCEPT ![p] = NoTable] /\ newsz' = [newsz EXCEPT ![p] = 0]
      /\ op' = [op EXCEPT ![p] = "none"] /\ at' = [at EXCEPT ![p] = 0]
      /\ goal' = [goal EXCEPT ![p] = 0] /\ seg' = [seg EXCEPT ![p] = 0]
      /\ UNCHANGED <<pt, sz, pstate, trapframe, kid, pipes>>
  BY DEF ExecReturns, ExecUnchanged, Goes, At, Goal
<1>3. /\ args'[p] = 0 /\ newpt'[p] = NoTable /\ newsz'[p] = 0
      /\ op'[p] = "none" /\ at'[p] = 0 /\ goal'[p] = 0
  BY <1>2 DEF MemInv, SlotTypes
<1>4. SlotTypes'
  BY <1>2, EmptyTable, MemSizes DEF MemInv, SlotTypes
<1>5. KeptBy(p)' /\ BuiltBy(p)'
  BY <1>1, <1>2, <1>3 DEF KeptBy, Kept, BuiltBy, Built
<1>6. CopiedBy(p)' /\ Elsewhere(p, p) /\ MayMove(p, p)
  BY <1>1, <1>2, <1>3 DEF CopiedBy, Copied, Elsewhere, MayMove, KeptBy, Kept
<1>7. /\ nfree \in Nat /\ pipes \in Int /\ args[p] \in Nat /\ PagesOf(newpt[p]) \in Nat
      /\ PagesOf(pt[p]) \in Int /\ Bit(trapframe[p]) \in Int
  BY <1>1 DEF MemInv, SlotIn
<1>8. PagesMove(p)
  <2>1. Weight(p)' = PagesOf(pt[p]) + 0 + 0 + Bit(trapframe[p])
    <3>1. Weight(p)' = PagesOf(pt'[p]) + PagesOf(newpt'[p]) + args'[p] + Bit(trapframe'[p])
      BY DEF Weight, PagesOf, UserPages, Bit
    <3>2. QED
      BY <3>1, <1>2, <1>3, EmptyTable
  <2>2. Weight(p) = PagesOf(pt[p]) + PagesOf(newpt[p]) + args[p] + Bit(trapframe[p])
    BY DEF Weight
  <2>3. nfree' + pipes' + Weight(p)' = nfree + pipes + Weight(p)
    BY <2>1, <2>2, <1>2, <1>7
  <2>4. QED
    BY <2>3, <1>2 DEF PagesMove
<1>9. nfree' \in Nat /\ pipes' \in 0..MaxPipes
  BY <1>2, <1>7 DEF MemInv
<1>10. QED
  BY <1>4, <1>5, <1>6, <1>8, <1>9, StepInv

LEMMA ExecBadInv ==
  ASSUME MemInv, NEW p \in Procs, op[p] \in {"args", "load", "seg", "stack"},
         NEW t \in Tables, NEW size \in Nat, NEW took \in Int, ExecBad(p, t, size, took),
         ExecUnchanged, Space(t, PageUp(size)), PagesOf(t) = PagesOf(newpt[p]) + took
  PROVE  MemInv'
<1>1. PagesOf(newpt[p]) \in Nat
  BY SlotIs DEF SlotIn
<1>2. ~FreePanics(t, size) /\ FreedPages(t, size) = PagesOf(t)
  BY FreedIs
<1>3. PICK freed \in Int : freed = PagesOf(newpt[p]) /\ freed = FreedPages(t, size) - took
  BY <1>1, <1>2
<1>4. ExecReturns(p, freed) /\ memPanic' = FreePanics(t, size) /\ UNCHANGED <<pt, sz>>
  BY <1>3 DEF ExecBad, Panics
<1>5. memPanic' = FALSE
  BY <1>2, <1>4 DEF FreePanics
<1>6. QED
  BY <1>3, <1>4, <1>5, ExecReturnsInv

LEMMA ExecStartInv ==
  ASSUME MemInv, NEW p \in Procs, ExecStart(p)
  PROVE  MemInv'
<1>1. /\ pstate[p] = "live" /\ op[p] = "none" /\ op' = [op EXCEPT ![p] = "args"]
      /\ UNCHANGED <<nfree, pt, sz, newpt, newsz, at, goal, seg, args, memPanic>>
      /\ UNCHANGED <<pstate, trapframe, kid, pipes>>
  BY DEF ExecStart, Idle, Goes, ExecUnchanged
<1>2. SlotIn(p) /\ KeptBy(p) /\ BuiltBy(p)
  BY SlotIs
<1>3. op'[p] = "args"
  BY <1>1 DEF MemInv, SlotTypes
<1>4. SlotTypes'
  BY <1>1 DEF MemInv, SlotTypes
<1>5. KeptBy(p)' /\ BuiltBy(p)'
  BY <1>1, <1>2, <1>3 DEF KeptBy, Kept, BuiltBy, Built
<1>6. CopiedBy(p)' /\ Elsewhere(p, p) /\ MayMove(p, p)
  BY <1>1, <1>3 DEF CopiedBy, Copied, Elsewhere, MayMove
<1>7. PagesMove(p)
  BY <1>1, PagesStill
<1>8. nfree' \in Nat /\ pipes' \in 0..MaxPipes /\ memPanic' = FALSE
  BY <1>1 DEF MemInv
<1>9. QED
  BY <1>4, <1>5, <1>6, <1>7, <1>8, StepInv

LEMMA ExecArgInv ==
  ASSUME MemInv, NEW p \in Procs, ExecArg(p)
  PROVE  MemInv'
<1>1. /\ op[p] = "args" /\ args[p] < MaxArgs /\ nfree > 0
      /\ nfree' = nfree - 1 /\ args' = [args EXCEPT ![p] = args[p] + 1]
      /\ UNCHANGED <<pt, sz, newpt, newsz, op, at, goal, seg, memPanic>>
      /\ UNCHANGED <<pstate, trapframe, kid, pipes>>
  BY DEF ExecArg, Allocated, ExecUnchanged
<1>2. SlotIn(p) /\ KeptBy(p) /\ BuiltBy(p)
  BY SlotIs
<1>3. args[p] \in Nat /\ args[p] + 1 \in 0..MaxArgs /\ args'[p] = args[p] + 1
  <2>1. args[p] \in Nat /\ args[p] + 1 \in 0..MaxArgs
    BY <1>1, <1>2, MemSizes DEF SlotIn
  <2>2. QED
    BY <2>1, <1>1 DEF MemInv, SlotTypes
<1>4. SlotTypes'
  BY <1>1, <1>3 DEF MemInv, SlotTypes
<1>5. KeptBy(p)' /\ BuiltBy(p)'
  BY <1>1, <1>2 DEF KeptBy, BuiltBy
<1>6. CopiedBy(p)' /\ Elsewhere(p, p) /\ MayMove(p, p)
  BY <1>1, <1>2 DEF CopiedBy, Copied, Elsewhere, MayMove, KeptBy, Kept
<1>7. PagesMove(p)
  <2>1. Weight(p)' = PagesOf(pt[p]) + PagesOf(newpt[p]) + (args[p] + 1) + Bit(trapframe[p])
    BY <1>1, <1>3 DEF Weight, PagesOf, UserPages, Bit
  <2>2. /\ Weight(p) = PagesOf(pt[p]) + PagesOf(newpt[p]) + args[p] + Bit(trapframe[p])
        /\ PagesOf(pt[p]) \in Int /\ PagesOf(newpt[p]) \in Int /\ Bit(trapframe[p]) \in Int
    BY <1>2 DEF Weight, SlotIn
  <2>3. pipes \in Int /\ pipes' = pipes /\ nfree \in Int
    BY <1>1 DEF MemInv
  <2>4. nfree' + pipes' + Weight(p)' = nfree + pipes + Weight(p)
    BY <2>1, <2>2, <2>3, <1>1, <1>3
  <2>5. QED
    BY <2>4, <1>1 DEF PagesMove, MemInv, SlotTypes
<1>8. nfree' \in Nat /\ pipes' \in 0..MaxPipes /\ memPanic' = FALSE
  BY <1>1 DEF MemInv
<1>9. QED
  BY <1>4, <1>5, <1>6, <1>7, <1>8, StepInv

LEMMA ExecFailsInv ==
  ASSUME MemInv, NEW p \in Procs, ExecFails(p)
  PROVE  MemInv'
<1>1. /\ op[p] = "args" /\ ExecReturns(p, 0) /\ ExecUnchanged /\ UNCHANGED <<pt, sz>>
      /\ memPanic' = FALSE
  BY DEF ExecFails, MemInv
<1>2. newpt[p] = NoTable
  BY <1>1, SlotIs DEF BuiltBy, Built
<1>3. 0 \in Int /\ 0 = PagesOf(newpt[p])
  BY <1>2, EmptyTable
<1>4. QED
  BY <1>1, <1>3, ExecReturnsInv

LEMMA ExecTableInv ==
  ASSUME MemInv, NEW p \in Procs, ExecTable(p)
  PROVE  MemInv'
<1> DEFINE made == ProcPagetable(nfree)
<1>1. /\ op[p] = "args" /\ made.ok /\ nfree' = nfree - made.took
      /\ newpt' = [newpt EXCEPT ![p] = made.table] /\ op' = [op EXCEPT ![p] = "load"]
      /\ UNCHANGED <<pt, sz, newsz, at, goal, seg, args, memPanic>>
      /\ UNCHANGED <<pstate, trapframe, kid, pipes>>
  BY DEF ExecTable, Allocated, Goes, ExecUnchanged
<1>2. SlotIn(p) /\ KeptBy(p) /\ BuiltBy(p)
  BY SlotIs
<1>3. nfree \in Nat
  BY DEF MemInv
<1>4. /\ made.table \in Tables /\ Space(made.table, 0)
      /\ made.took \in 0..nfree /\ PagesOf(made.table) = made.took
  BY <1>1, <1>3, ProcPagetableIs
<1> HIDE DEF made
<1>5. newpt[p] = NoTable /\ newsz[p] = 0 /\ pstate[p] = "live"
  BY <1>1, <1>2 DEF BuiltBy, Built, KeptBy, Kept
<1>6. newpt'[p] = made.table /\ op'[p] = "load"
  BY <1>1 DEF MemInv, SlotTypes
<1>7. made.table.guard \subseteq made.table.leaves
  BY <1>4 DEF Space
<1>8. SlotTypes'
  BY <1>1, <1>4, <1>7 DEF MemInv, SlotTypes
<1>9. KeptBy(p)'
  BY <1>1, <1>2, <1>6 DEF KeptBy, Kept
<1>10. BuiltBy(p)'
  <2>1. PageUp(0) = 0 /\ UserTop \in Nat
    BY PageUpIs, MemSizes
  <2>2. QED
    BY <2>1, <1>1, <1>4, <1>5, <1>6 DEF BuiltBy, Built
<1>11. CopiedBy(p)' /\ Elsewhere(p, p) /\ MayMove(p, p)
  BY <1>1, <1>5, <1>6 DEF CopiedBy, Copied, Elsewhere, MayMove
<1>12. PagesMove(p)
  <2>1. Weight(p)' = PagesOf(pt[p]) + PagesOf(made.table) + args[p] + Bit(trapframe[p])
    BY <1>1, <1>6 DEF Weight, PagesOf, UserPages, Bit
  <2>2. /\ Weight(p) = PagesOf(pt[p]) + 0 + args[p] + Bit(trapframe[p])
        /\ PagesOf(pt[p]) \in Int /\ args[p] \in Int /\ Bit(trapframe[p]) \in Int
    BY <1>2, <1>5, EmptyTable DEF Weight, SlotIn
  <2>3. pipes \in Int /\ pipes' = pipes
    BY <1>1 DEF MemInv
  <2>4. nfree' + pipes' + Weight(p)' = nfree + pipes + Weight(p)
    BY <2>1, <2>2, <2>3, <1>1, <1>3, <1>4
  <2>5. QED
    BY <2>4, <1>1 DEF PagesMove, MemInv, SlotTypes
<1>13. nfree' \in Nat /\ pipes' \in 0..MaxPipes /\ memPanic' = FALSE
  BY <1>1, <1>3, <1>4 DEF MemInv
<1>14. QED
  BY <1>8, <1>9, <1>10, <1>11, <1>12, <1>13, StepInv

LEMMA SegmentInv ==
  ASSUME MemInv, NEW p \in Procs, Segment(p)
  PROVE  MemInv'
<1>1. PICK end \in 0..UserTop, vaddr \in 0..UserTop :
        /\ op[p] = "load" /\ goal' = [goal EXCEPT ![p] = end] /\ seg' = [seg EXCEPT ![p] = vaddr]
        /\ op' = [op EXCEPT ![p] = "seg"] /\ at' = [at EXCEPT ![p] = PageUp(newsz[p])]
        /\ UNCHANGED <<nfree, pt, sz, newpt, newsz, args, memPanic>>
        /\ UNCHANGED <<pstate, trapframe, kid, pipes>>
  <2>1. PICK end \in 0..UserTop : \E vaddr \in 0..end :
          Goal(p, end) /\ seg' = [seg EXCEPT ![p] = vaddr]
    BY DEF Segment
  <2>2. PICK vaddr \in 0..end : Goal(p, end) /\ seg' = [seg EXCEPT ![p] = vaddr]
    BY <2>1
  <2>3. vaddr \in 0..UserTop
    BY MemSizes
  <2>4. QED
    BY <2>2, <2>3 DEF Segment, Goal, Goes, At, ExecUnchanged
<1>2. SlotIn(p) /\ KeptBy(p) /\ BuiltBy(p)
  BY SlotIs
<1>3. /\ Space(newpt[p], PageUp(newsz[p])) /\ newsz[p] <= UserTop /\ pstate[p] = "live"
      /\ newsz[p] \in Nat /\ newsz[p] < SizeWrap
  BY <1>1, <1>2 DEF BuiltBy, Built, KeptBy, Kept, SlotIn
<1>4. PageUp(newsz[p]) \in Nat /\ PageUp(newsz[p]) < SizeWrap
  <2>1. PageUp(newsz[p]) \in Nat /\ PageUp(newsz[p]) <= newsz[p]
    BY <1>3, PageUpIs
  <2>2. QED
    BY <2>1, <1>3, MemSizes
<1>5. op'[p] = "seg" /\ at'[p] = PageUp(newsz[p]) /\ goal'[p] = end
  BY <1>1 DEF MemInv, SlotTypes
<1>6. end \in 0..(SizeWrap - 1) /\ vaddr \in 0..(SizeWrap - 1) /\ end <= UserTop
  BY MemSizes
<1>7. SlotTypes'
  BY <1>1, <1>4, <1>6, MemSizes DEF MemInv, SlotTypes
<1>8. KeptBy(p)'
  BY <1>1, <1>2, <1>5 DEF KeptBy, Kept
<1>9. BuiltBy(p)'
  BY <1>1, <1>3, <1>4, <1>5, <1>6 DEF BuiltBy, Built
<1>10. CopiedBy(p)' /\ Elsewhere(p, p) /\ MayMove(p, p)
  BY <1>1, <1>3, <1>5 DEF CopiedBy, Copied, Elsewhere, MayMove
<1>11. PagesMove(p)
  BY <1>1, PagesStill
<1>12. nfree' \in Nat /\ pipes' \in 0..MaxPipes /\ memPanic' = FALSE
  BY <1>1 DEF MemInv
<1>13. QED
  BY <1>7, <1>8, <1>9, <1>10, <1>11, <1>12, StepInv

LEMMA ExecPageInv ==
  ASSUME MemInv, NEW p \in Procs, ExecPage(p)
  PROVE  MemInv'
<1> DEFINE new == NewPage(newpt[p], at[p], nfree)
           mine == PageUp(newsz[p])..(at[p] - 1)
           less == Unmapped(new.table, mine)
<1>1. op[p] \in {"seg", "stack"} /\ ExecUnchanged
  BY DEF ExecPage
<1>2. SlotIn(p) /\ KeptBy(p) /\ BuiltBy(p)
  BY SlotIs
<1>3. /\ pstate[p] = "live" /\ Space(newpt[p], at[p]) /\ PageUp(newsz[p]) <= at[p]
      /\ newpt[p] \in Tables /\ at[p] \in Nat /\ PageUp(newsz[p]) \in Nat
      /\ PageUp(goal[p]) \in Nat /\ goal[p] \in Nat /\ newsz[p] \in Nat
  BY <1>1, <1>2 DEF KeptBy, Kept, BuiltBy, Built, SlotIn
<1>4. at[p] < PageUp(goal[p])
  <2>1. at[p] * PGSIZE < goal[p]
    BY DEF ExecPage
  <2>2. QED
    BY <2>1, <1>3, LoopEnds
<1>5. PageUp(goal[p]) <= MostPages
  <2>1. CASE op[p] = "seg"
    <3>1. goal[p] <= UserTop /\ UserTop \in Nat
      BY <2>1, <1>2, MemSizes DEF BuiltBy, Built
    <3>2. PageUp(goal[p]) <= PageUp(UserTop)
      BY <3>1, <1>3, PageUpLess
    <3>3. QED
      BY <3>2, <1>3, MostIs
  <2>2. CASE op[p] = "stack"
    BY <2>2, <1>2, <1>3, MostIs DEF BuiltBy, Built
  <2>3. QED
    BY <2>1, <2>2, <1>1
<1>6. at[p] < MostPages /\ nfree \in Nat
  BY <1>3, <1>4, <1>5, MostIs DEF MemInv
<1>7. /\ new.table \in Tables /\ new.ok \in BOOLEAN /\ new.took \in 0..nfree /\ ~new.remap
      /\ PagesOf(new.table) = PagesOf(newpt[p]) + new.took
      /\ new.ok => Space(new.table, at[p] + 1)
      /\ ~new.ok => Space(new.table, at[p])
  BY <1>3, <1>6, NewPageIs
<1> HIDE DEF new
<1>8. CASE new.ok
  <2>1. /\ newpt' = [newpt EXCEPT ![p] = new.table] /\ nfree' = nfree - new.took
        /\ at' = [at EXCEPT ![p] = at[p] + 1] /\ memPanic' = new.remap
        /\ UNCHANGED <<pt, sz, newsz, op, goal, seg, args>>
        /\ UNCHANGED <<pstate, trapframe, kid, pipes>>
    BY <1>1, <1>8 DEF ExecPage, new, Panics, Allocated, At, ExecUnchanged
  <2>2. newpt'[p] = new.table /\ at'[p] = at[p] + 1 /\ at[p] + 1 < SizeWrap
    <3>1. at[p] + 1 < SizeWrap
      BY <1>3, <1>6, MostIs, MemSizes
    <3>2. QED
      BY <3>1, <2>1 DEF MemInv, SlotTypes
  <2>3. new.table.guard \subseteq new.table.leaves
    BY <1>7, <1>8 DEF Space
  <2>4. SlotTypes'
    BY <2>1, <2>2, <2>3, <1>3, <1>7, MemSizes DEF MemInv, SlotTypes
  <2>5. KeptBy(p)'
    BY <1>1, <1>2, <2>1 DEF KeptBy, Kept
  <2>6. BuiltBy(p)'
    BY <1>1, <1>2, <1>3, <1>4, <1>7, <1>8, <2>1, <2>2 DEF BuiltBy, Built
  <2>7. CopiedBy(p)' /\ Elsewhere(p, p) /\ MayMove(p, p)
    BY <1>1, <1>3, <2>1 DEF CopiedBy, Copied, Elsewhere, MayMove
  <2>8. PagesMove(p)
    <3>1. Weight(p)' = PagesOf(pt[p]) + PagesOf(new.table) + args[p] + Bit(trapframe[p])
      BY <2>1, <2>2 DEF Weight, PagesOf, UserPages, Bit
    <3>2. /\ Weight(p) = PagesOf(pt[p]) + PagesOf(newpt[p]) + args[p] + Bit(trapframe[p])
          /\ PagesOf(pt[p]) \in Int /\ PagesOf(newpt[p]) \in Int /\ args[p] \in Int
          /\ Bit(trapframe[p]) \in Int
      BY <1>2 DEF Weight, SlotIn
    <3>3. pipes \in Int /\ pipes' = pipes
      BY <2>1 DEF MemInv
    <3>4. nfree' + pipes' + Weight(p)' = nfree + pipes + Weight(p)
      BY <3>1, <3>2, <3>3, <2>1, <1>6, <1>7
    <3>5. QED
      BY <3>4, <2>1 DEF PagesMove, MemInv, SlotTypes
  <2>9. nfree' \in Nat /\ pipes' \in 0..MaxPipes /\ memPanic' = FALSE
    <3>1. nfree' \in Nat
      BY <1>6, <1>7, <2>1
    <3>2. memPanic' = FALSE
      BY <2>1, <1>7, <1>8 DEF new, NewPage, Mapped
    <3>3. QED
      BY <3>1, <3>2, <2>1 DEF MemInv
  <2>10. QED
    BY <2>4, <2>5, <2>6, <2>7, <2>8, <2>9, StepInv
<1>9. CASE ~new.ok
  <2>1. /\ less \in Tables /\ Space(less, PageUp(newsz[p]))
        /\ PagesOf(less) = PagesOf(new.table) - (at[p] - PageUp(newsz[p]))
        /\ Cardinality(mine) = at[p] - PageUp(newsz[p])
    <3>1. PageUp(newsz[p]) \in 0..at[p]
      BY <1>3
    <3>2. QED
      BY <3>1, <1>3, <1>7, <1>9, UnmappedIs
  <2>2. ExecBad(p, less, newsz[p], new.took - Cardinality(mine))
    BY <1>9 DEF ExecPage, new
  <2> HIDE DEF less, mine
  <2>3. PICK took \in Int : took = new.took - Cardinality(mine)
    BY <2>1, <1>3, <1>6, <1>7
  <2>4. PagesOf(newpt[p]) \in Nat
    BY <1>2 DEF SlotIn
  <2>5. PagesOf(less) = PagesOf(newpt[p]) + took
    BY <2>1, <2>3, <2>4, <1>3, <1>6, <1>7
  <2>6. op[p] \in {"args", "load", "seg", "stack"} /\ ExecBad(p, less, newsz[p], took)
    BY <2>2, <2>3, <1>1
  <2>7. QED
    BY <2>1, <2>5, <2>6, <1>1, <1>3, ExecBadInv
<1>10. QED
  BY <1>7, <1>8, <1>9

LEMMA SegmentDoneInv ==
  ASSUME MemInv, NEW p \in Procs, SegmentDone(p)
  PROVE  MemInv'
<1> DEFINE size == IF goal[p] < newsz[p] THEN newsz[p] ELSE goal[p]
<1>1. op[p] = "seg" /\ ExecUnchanged
  BY DEF SegmentDone
<1>2. SlotIn(p) /\ KeptBy(p) /\ BuiltBy(p)
  BY SlotIs
<1>3. /\ pstate[p] = "live" /\ Space(newpt[p], at[p]) /\ PageUp(newsz[p]) <= at[p]
      /\ newsz[p] <= UserTop /\ goal[p] <= UserTop
      /\ (at[p] <= PageUp(newsz[p]) \/ at[p] <= PageUp(goal[p]))
      /\ newpt[p] \in Tables /\ at[p] \in Nat /\ PageUp(newsz[p]) \in Nat
      /\ PageUp(goal[p]) \in Nat /\ goal[p] \in Nat /\ newsz[p] \in Nat
  BY <1>1, <1>2 DEF KeptBy, Kept, BuiltBy, Built, SlotIn
<1>4. at[p] >= PageUp(goal[p])
  <2>1. at[p] * PGSIZE >= goal[p]
    BY DEF SegmentDone
  <2>2. QED
    BY <2>1, <1>3, LoopEnds
<1>5. size \in Nat /\ size <= UserTop /\ at[p] = PageUp(size)
  <2>1. CASE goal[p] < newsz[p]
    <3>1. PageUp(goal[p]) <= PageUp(newsz[p])
      BY <2>1, <1>3, PageUpLess
    <3>2. at[p] = PageUp(newsz[p])
      BY <3>1, <1>3
    <3>3. QED
      BY <3>2, <2>1, <1>3
  <2>2. CASE ~(goal[p] < newsz[p])
    <3>1. PageUp(newsz[p]) <= PageUp(goal[p])
      BY <2>2, <1>3, PageUpLess
    <3>2. at[p] = PageUp(goal[p])
      BY <3>1, <1>3, <1>4
    <3>3. QED
      BY <3>2, <2>2, <1>3
  <2>3. QED
    BY <2>1, <2>2
<1>6. CASE ExecBad(p, newpt[p], size, 0)
  <2> HIDE DEF size
  <2>1. 0 \in Int /\ PagesOf(newpt[p]) = PagesOf(newpt[p]) + 0
        /\ Space(newpt[p], PageUp(size)) /\ op[p] \in {"args", "load", "seg", "stack"}
    BY <1>1, <1>2, <1>3, <1>5 DEF SlotIn
  <2>2. QED
    BY <2>1, <1>1, <1>3, <1>5, <1>6, ExecBadInv
<1>7. CASE /\ newsz' = [newsz EXCEPT ![p] = size]
           /\ Panics(~(Pages(goal[p]) \ Pages(seg[p]) \subseteq newpt[p].leaves))
           /\ Goes(p, "load") /\ At(p, 0) /\ Goal(p, 0) /\ seg' = [seg EXCEPT ![p] = 0]
           /\ UNCHANGED <<nfree, pt, sz, newpt, args>>
  <2>1. /\ newsz' = [newsz EXCEPT ![p] = size] /\ op' = [op EXCEPT ![p] = "load"]
        /\ at' = [at EXCEPT ![p] = 0] /\ goal' = [goal EXCEPT ![p] = 0]
        /\ seg' = [seg EXCEPT ![p] = 0] /\ UNCHANGED <<nfree, pt, sz, newpt, args>>
        /\ UNCHANGED <<pstate, trapframe, kid, pipes>>
    BY <1>1, <1>7 DEF Goes, At, Goal, ExecUnchanged
  <2>2. memPanic' = FALSE
    <3>1. Pages(goal[p]) \subseteq newpt[p].leaves
      BY <1>3, <1>4, PagesIs DEF Space
    <3>2. QED
      BY <3>1, <1>7 DEF Panics
  <2> HIDE DEF size
  <2>3. newsz'[p] = size /\ op'[p] = "load" /\ at'[p] = 0 /\ goal'[p] = 0
    BY <2>1 DEF MemInv, SlotTypes
  <2>4. size \in 0..(SizeWrap - 1) /\ 0 \in 0..(SizeWrap - 1)
    BY <1>5, MemSizes
  <2>5. SlotTypes'
    BY <2>1, <2>4 DEF MemInv, SlotTypes
  <2>6. KeptBy(p)'
    BY <2>1, <2>3, <1>1, <1>2 DEF KeptBy, Kept
  <2>7. BuiltBy(p)'
    BY <2>1, <2>3, <1>3, <1>5 DEF BuiltBy, Built
  <2>8. CopiedBy(p)' /\ Elsewhere(p, p) /\ MayMove(p, p)
    BY <1>3, <2>1, <2>3 DEF CopiedBy, Copied, Elsewhere, MayMove
  <2>9. PagesMove(p)
    BY <2>1, PagesStill
  <2>10. nfree' \in Nat /\ pipes' \in 0..MaxPipes
    BY <2>1 DEF MemInv
  <2>11. QED
    BY <2>2, <2>5, <2>6, <2>7, <2>8, <2>9, <2>10, StepInv
<1>8. QED
  BY <1>6, <1>7 DEF SegmentDone

LEMMA StackStartInv ==
  ASSUME MemInv, NEW p \in Procs, StackStart(p)
  PROVE  MemInv'
<1> DEFINE k == PageUp(newsz[p])
           base == k * PGSIZE
           top == base + 2 * PGSIZE
<1>1. /\ op[p] = "load" /\ newsz' = [newsz EXCEPT ![p] = base]
      /\ at' = [at EXCEPT ![p] = PageUp(base)] /\ goal' = [goal EXCEPT ![p] = top]
      /\ op' = [op EXCEPT ![p] = "stack"]
      /\ UNCHANGED <<nfree, pt, sz, newpt, seg, args, memPanic>>
      /\ UNCHANGED <<pstate, trapframe, kid, pipes>>
  BY DEF StackStart, At, Goal, Goes, ExecUnchanged
<1>2. SlotIn(p) /\ KeptBy(p) /\ BuiltBy(p)
  BY SlotIs
<1>3. /\ pstate[p] = "live" /\ Space(newpt[p], k) /\ newsz[p] <= UserTop /\ newsz[p] \in Nat
      /\ k \in Nat
  BY <1>1, <1>2 DEF BuiltBy, Built, KeptBy, Kept, SlotIn
<1>4. k <= PageUp(UserTop) /\ base < newsz[p] + PGSIZE
  <2>1. UserTop \in Nat
    BY MemSizes
  <2>2. QED
    BY <2>1, <1>3, PageUpIs, PageUpLess
<1> HIDE DEF k
<1>5. /\ PageUp(k * PGSIZE + 0 * PGSIZE) = k + 0 /\ k * PGSIZE \in Nat
      /\ PageUp(k * PGSIZE + 2 * PGSIZE) = k + 2 /\ 2 * PGSIZE \in Nat
  BY <1>3, PageUpMultiple
<1>6. PageUp(base) = k /\ PageUp(top) = k + 2 /\ base \in Nat /\ top \in Nat
  <2>1. base + 0 * PGSIZE = base
    BY <1>5, MemSizes
  <2>2. QED
    BY <2>1, <1>3, <1>5
<1>7. base < SizeWrap /\ top < SizeWrap /\ k < SizeWrap
  <2>1. PGSIZE \in Nat /\ UserTop \in Nat /\ SizeWrap \in Nat /\ UserTop + 3 * PGSIZE < SizeWrap
    BY MemSizes
  <2>2. base < UserTop + PGSIZE
    BY <2>1, <1>3, <1>4, <1>6
  <2>3. k <= MostPages /\ MostPages < SizeWrap /\ MostPages \in Nat
    BY <1>3, <1>4, MostIs
  <2> HIDE DEF base
  <2>4. QED
    BY <2>1, <2>2, <2>3, <1>3, <1>6
<1> HIDE DEF base, top
<1>8. newsz'[p] = base /\ at'[p] = k /\ goal'[p] = top /\ op'[p] = "stack"
  BY <1>1, <1>6 DEF MemInv, SlotTypes
<1>9. SlotTypes'
  BY <1>1, <1>3, <1>6, <1>7, MemSizes DEF MemInv, SlotTypes
<1>10. KeptBy(p)'
  BY <1>1, <1>2, <1>8 DEF KeptBy, Kept
<1>11. BuiltBy(p)'
  BY <1>1, <1>3, <1>4, <1>6, <1>8 DEF BuiltBy, Built
<1>12. CopiedBy(p)' /\ Elsewhere(p, p) /\ MayMove(p, p)
  BY <1>1, <1>3, <1>8 DEF CopiedBy, Copied, Elsewhere, MayMove
<1>13. PagesMove(p)
  BY <1>1, PagesStill
<1>14. nfree' \in Nat /\ pipes' \in 0..MaxPipes /\ memPanic' = FALSE
  BY <1>1 DEF MemInv
<1>15. QED
  BY <1>9, <1>10, <1>11, <1>12, <1>13, <1>14, StepInv

\* When the stack is there.
LEMMA StackIs ==
  ASSUME MemInv, NEW p \in Procs, op[p] = "stack", at[p] * PGSIZE >= goal[p]
  PROVE  /\ pstate[p] = "live" /\ newpt[p] \in Tables /\ goal[p] \in Nat /\ goal[p] < SizeWrap
         /\ Space(newpt[p], PageUp(goal[p])) /\ PageUp(goal[p]) <= MostPages
         /\ PageUp(newsz[p]) \in 0..(PageUp(goal[p]) - 1)
<1>1. SlotIn(p) /\ KeptBy(p) /\ BuiltBy(p)
  BY SlotIs
<1>2. /\ pstate[p] = "live" /\ Space(newpt[p], at[p]) /\ PageUp(newsz[p]) <= PageUp(UserTop)
      /\ at[p] <= PageUp(goal[p]) /\ PageUp(goal[p]) = PageUp(newsz[p]) + 2
      /\ newpt[p] \in Tables /\ at[p] \in Nat /\ goal[p] \in Nat /\ goal[p] < SizeWrap
      /\ PageUp(goal[p]) \in Nat /\ PageUp(newsz[p]) \in Nat
  BY <1>1 DEF BuiltBy, Built, KeptBy, Kept, SlotIn
<1>3. at[p] >= PageUp(goal[p])
  BY <1>2, LoopEnds
<1>4. at[p] = PageUp(goal[p])
  BY <1>2, <1>3
<1>5. QED
  BY <1>2, <1>4, MostIs

LEMMA ExecTooLongInv ==
  ASSUME MemInv, NEW p \in Procs, ExecTooLong(p)
  PROVE  MemInv'
<1>1. /\ op[p] = "stack" /\ at[p] * PGSIZE >= goal[p] /\ ExecBad(p, newpt[p], goal[p], 0)
      /\ ExecUnchanged
  BY DEF ExecTooLong
<1>2. newpt[p] \in Tables /\ goal[p] \in Nat /\ Space(newpt[p], PageUp(goal[p]))
  BY <1>1, StackIs
<1>3. 0 \in Int /\ PagesOf(newpt[p]) = PagesOf(newpt[p]) + 0
  BY SlotIs DEF SlotIn
<1>4. op[p] \in {"args", "load", "seg", "stack"}
  BY <1>1
<1>5. QED
  BY <1>1, <1>2, <1>3, <1>4, ExecBadInv

LEMMA CommitInv ==
  ASSUME MemInv, NEW p \in Procs, Commit(p)
  PROVE  MemInv'
<1> DEFINE t == [newpt[p] EXCEPT !.guard = {PageUp(newsz[p])}]
<1>1. /\ op[p] = "stack" /\ at[p] * PGSIZE >= goal[p]
      /\ pt' = [pt EXCEPT ![p] = t] /\ sz' = [sz EXCEPT ![p] = goal[p]]
      /\ nfree' = nfree + FreedPages(pt[p], sz[p]) + args[p] /\ args' = [args EXCEPT ![p] = 0]
      /\ newpt' = [newpt EXCEPT ![p] = NoTable] /\ newsz' = [newsz EXCEPT ![p] = 0]
      /\ op' = [op EXCEPT ![p] = "none"] /\ at' = [at EXCEPT ![p] = 0]
      /\ goal' = [goal EXCEPT ![p] = 0] /\ seg' = [seg EXCEPT ![p] = 0]
      /\ memPanic' = FreePanics(pt[p], sz[p]) /\ UNCHANGED <<pstate, trapframe, kid, pipes>>
  BY DEF Commit, ExecReturns, ExecUnchanged, Goes, At, Goal, Panics
<1>2. SlotIn(p) /\ KeptBy(p) /\ BuiltBy(p)
  BY SlotIs
<1>3. /\ pstate[p] = "live" /\ newpt[p] \in Tables /\ goal[p] \in Nat /\ goal[p] < SizeWrap
      /\ Space(newpt[p], PageUp(goal[p])) /\ PageUp(goal[p]) <= MostPages
      /\ PageUp(newsz[p]) \in 0..(PageUp(goal[p]) - 1)
  BY <1>1, StackIs
<1>4. Space(pt[p], PageUp(sz[p])) /\ pt[p] \in Tables /\ sz[p] \in Nat
  BY <1>1, <1>2, <1>3 DEF KeptBy, Kept, SlotIn
<1>5. ~FreePanics(pt[p], sz[p]) /\ FreedPages(pt[p], sz[p]) = PagesOf(pt[p])
  BY <1>4, FreedIs
<1>6. /\ t \in Tables /\ t.root = newpt[p].root /\ t.dirs = newpt[p].dirs
      /\ t.leaves = newpt[p].leaves /\ t.guard = {PageUp(newsz[p])}
  <2>1. PageUp(newsz[p]) \in newpt[p].leaves
    BY <1>3 DEF Space
  <2>2. newpt[p] = [root |-> newpt[p].root, dirs |-> newpt[p].dirs,
                    leaves |-> newpt[p].leaves, guard |-> newpt[p].guard]
        /\ newpt[p].root \in BOOLEAN /\ newpt[p].dirs \subseteq Dirs
        /\ newpt[p].leaves \subseteq VIRTUALS
    BY <1>3 DEF Tables
  <2>3. t = [root |-> newpt[p].root, dirs |-> newpt[p].dirs,
             leaves |-> newpt[p].leaves, guard |-> {PageUp(newsz[p])}]
    BY <2>2
  <2> HIDE DEF t
  <2>4. QED
    BY <2>1, <2>2, <2>3 DEF Tables
<1> HIDE DEF t
<1>7. Space(t, PageUp(goal[p])) /\ PagesOf(t) = PagesOf(newpt[p]) /\ t.guard \subseteq t.leaves
  BY <1>3, <1>6 DEF Space, PagesOf, UserPages
<1>8. /\ pt'[p] = t /\ sz'[p] = goal[p] /\ args'[p] = 0 /\ newpt'[p] = NoTable /\ newsz'[p] = 0
      /\ op'[p] = "none" /\ at'[p] = 0 /\ goal'[p] = 0
  BY <1>1 DEF MemInv, SlotTypes
<1>9. SlotTypes'
  BY <1>1, <1>3, <1>6, <1>7, EmptyTable, MemSizes DEF MemInv, SlotTypes
<1>10. KeptBy(p)'
  BY <1>1, <1>2, <1>3, <1>7, <1>8 DEF KeptBy, Kept
<1>11. BuiltBy(p)'
  BY <1>8 DEF BuiltBy, Built
<1>12. CopiedBy(p)' /\ Elsewhere(p, p) /\ MayMove(p, p)
  BY <1>1, <1>3, <1>8 DEF CopiedBy, Copied, Elsewhere, MayMove
<1>13. /\ nfree \in Nat /\ pipes \in Int /\ args[p] \in Nat /\ PagesOf(newpt[p]) \in Nat
       /\ PagesOf(pt[p]) \in Nat /\ Bit(trapframe[p]) \in Int
  BY <1>2 DEF MemInv, SlotIn
<1>14. PagesMove(p)
  <2>1. Weight(p)' = PagesOf(t) + 0 + 0 + Bit(trapframe[p])
    <3>1. Weight(p)' = PagesOf(pt'[p]) + PagesOf(newpt'[p]) + args'[p] + Bit(trapframe'[p])
      BY DEF Weight, PagesOf, UserPages, Bit
    <3>2. QED
      BY <3>1, <1>1, <1>8, EmptyTable
  <2>2. Weight(p) = PagesOf(pt[p]) + PagesOf(newpt[p]) + args[p] + Bit(trapframe[p])
    BY DEF Weight
  <2>3. nfree' + pipes' + Weight(p)' = nfree + pipes + Weight(p)
    BY <2>1, <2>2, <1>1, <1>5, <1>7, <1>13
  <2>4. QED
    BY <2>3, <1>1 DEF PagesMove, MemInv, SlotTypes
<1>15. nfree' \in Nat /\ pipes' \in 0..MaxPipes /\ memPanic' = FALSE
  <2>1. memPanic' = FALSE
    BY <1>1, <1>5 DEF FreePanics
  <2>2. nfree' \in Nat
    BY <1>1, <1>5, <1>13
  <2>3. QED
    BY <2>1, <2>2, <1>1 DEF MemInv
<1>16. QED
  BY <1>9, <1>10, <1>11, <1>12, <1>14, <1>15, StepInv

LEMMA PipeInv ==
  ASSUME MemInv, PipeAlloc \/ PipeFree
  PROVE  MemInv'
<1>1. UNCHANGED <<pstate, trapframe, pt, sz, newpt, newsz, op, at, goal, seg, kid, args, memPanic>>
  BY DEF PipeAlloc, PipeFree
<1>2. nfree' + pipes' = nfree + pipes /\ nfree' \in Nat /\ pipes' \in 0..MaxPipes
      /\ nfree' \in Int /\ pipes' \in Int /\ nfree \in Int /\ pipes \in Int
  BY MemSizes DEF PipeAlloc, PipeFree, Allocated, MemInv
<1>3. SlotTypes' /\ memPanic' = FALSE
  BY <1>1 DEF MemInv, SlotTypes
<1>4. /\ Weight(1)' = Weight(1) /\ Weight(1) \in Int
  <2>1. SlotIn(1)
    BY SlotIs, MemSizes
  <2>2. Weight(1) \in Int
    BY <2>1 DEF Weight, SlotIn
  <2>3. QED
    BY <2>2, <1>1 DEF Weight, PagesOf, UserPages, Bit
<1>5. PagesMove(1)
  BY <1>1, <1>2, <1>4 DEF PagesMove
<1>6. PagesConserved'
  <2>1. nfree \in Nat /\ pipes \in Nat /\ nfree' \in Nat /\ pipes' \in Nat /\ 1 \in Procs
    BY <1>2, MemSizes DEF MemInv
  <2>2. QED
    BY <2>1, <1>3, <1>5, ConservedMoves DEF MemInv
<1>7. /\ \A p \in Procs : KeptBy(p)'
      /\ \A p \in Procs : BuiltBy(p)'
      /\ \A p \in Procs : CopiedBy(p)'
      /\ KidsApart'
  BY <1>1 DEF MemInv, KeptBy, BuiltBy, CopiedBy, KidsApart
<1>8. QED
  BY <1>2, <1>3, <1>6, <1>7 DEF MemInv

-----------------------------------------------------------------------------
(* Boot, and the theorem. *)

\* With two pages left, a page can be mapped.
LEMMA RoomToMap ==
  ASSUME NEW t, NEW va, NEW n \in Nat, n >= 2
  PROVE  Mapped(t, va, n).ok /\ Mapped(t, va, n).took <= 2
<1> DEFINE missing == DirsOf(va) \ t.dirs
           u == [level |-> 1, index |-> va \div (FANOUT * FANOUT)]
           v == [level |-> 0, index |-> va \div FANOUT]
<1>1. missing \in SUBSET ({u} \cup {v})
  BY DEF DirsOf
<1>2. IsFiniteSet({u} \cup {v}) /\ Cardinality({u} \cup {v}) <= 2
      /\ Cardinality({u} \cup {v}) \in Nat
  <2> HIDE DEF u, v
  <2>1. IsFiniteSet({u}) /\ Cardinality({u}) = 1
    BY FS_Singleton
  <2>2. QED
    BY <2>1, FS_AddElement
<1>3. Cardinality(missing) <= 2 /\ Cardinality(missing) \in Nat
  <2> HIDE DEF missing, u, v
  <2>1. IsFiniteSet(missing) /\ Cardinality(missing) <= Cardinality({u} \cup {v})
    BY <1>1, <1>2, FS_Subset
  <2>2. Cardinality(missing) \in Nat
    BY <2>1, FS_CardinalityType
  <2>3. QED
    BY <2>1, <2>2, <1>2
<1>4. (Cardinality(missing) <= n) = TRUE
  BY <1>3
<1>5. Mapped(t, va, n).ok = (Cardinality(missing) <= n)
      /\ Mapped(t, va, n).took = Cardinality(IF Cardinality(missing) <= n THEN missing
                                             ELSE {d \in missing : d.level >= 2 - n})
  BY DEF Mapped
<1> HIDE DEF missing
<1>6. QED
  BY <1>3, <1>4, <1>5

LEMMA BootTable ==
  ASSUME NEW n \in Nat, n >= 5
  PROVE  ProcPagetable(n).ok /\ ProcPagetable(n).took <= 5
<1> DEFINE tramp == Mapped(Root, TRAMPOLINE, n - 1)
           frame == Mapped(tramp.table, TRAPFRAME, n - 1 - tramp.took)
<1>1. tramp.ok /\ tramp.took <= 2
  <2>1. n - 1 \in Nat /\ n - 1 >= 2
    OBVIOUS
  <2>2. QED
    BY <2>1, RoomToMap
<1>2. tramp.took \in Nat
  <2>1. Root \in Tables /\ n - 1 \in Nat /\ TRAMPOLINE \in VIRTUALS
    <3>1. Root \in Tables
      BY DEF Root, NoTable, Tables
    <3>2. n - 1 \in Nat
      OBVIOUS
    <3>3. QED
      BY <3>1, <3>2, HighPages
  <2>2. tramp.took \in 0..(n - 1)
    BY <2>1, MappedIs
  <2>3. QED
    BY <2>2
<1>3. frame.ok /\ frame.took <= 2
  <2> HIDE DEF tramp
  <2>1. n - 1 - tramp.took \in Nat /\ n - 1 - tramp.took >= 2
    BY <1>1, <1>2
  <2>2. QED
    BY <2>1, RoomToMap
<1>4. frame.took \in Nat
  <2>1. Root \in Tables /\ n - 1 \in Nat /\ TRAMPOLINE \in VIRTUALS
    <3>1. Root \in Tables
      BY DEF Root, NoTable, Tables
    <3>2. n - 1 \in Nat
      OBVIOUS
    <3>3. QED
      BY <3>1, <3>2, HighPages
  <2>2. tramp.table \in Tables
    BY <2>1, MappedIs
  <2> HIDE DEF tramp
  <2>3. n - 1 - tramp.took \in Nat /\ TRAPFRAME \in VIRTUALS
    BY <1>1, <1>2, HighPages
  <2>4. frame.took \in 0..(n - 1 - tramp.took)
    BY <2>2, <2>3, MappedIs
  <2>5. QED
    BY <2>4
<1>5. ProcPagetable(n) = [table |-> frame.table, took |-> 1 + tramp.took + frame.took, ok |-> TRUE]
  BY <1>1, <1>3 DEF ProcPagetable
<1> HIDE DEF tramp, frame
<1>6. QED
  BY <1>1, <1>2, <1>3, <1>4, <1>5

\* Tables that are not there have no pages.
LEMMA NoneHeld ==
  /\ Held([p \in Procs |-> NoTable]) = 0
  /\ \A f : (\A p \in Procs : f[p] = {}) => Places(f) = 0
<1>1. ASSUME NEW f, \A p \in Procs : f[p] = {} PROVE Places(f) = 0
  <2>1. UNION {{p} \X f[p] : p \in Procs} = {}
    BY <1>1
  <2>2. QED
    BY <2>1, FS_EmptySet DEF Places
<1> DEFINE h == [p \in Procs |-> NoTable]
<1>2. {p \in Procs : h[p].root} = {}
  BY DEF NoTable
<1>3. Places([p \in Procs |-> h[p].dirs]) = 0
  <2>1. \A p \in Procs : [i \in Procs |-> h[i].dirs][p] = {}
    BY DEF NoTable
  <2>2. QED
    BY <2>1, <1>1
<1>4. Places([p \in Procs |-> h[p].leaves \ {TRAMPOLINE, TRAPFRAME}]) = 0
  <2>1. \A p \in Procs : [i \in Procs |-> h[i].leaves \ {TRAMPOLINE, TRAPFRAME}][p] = {}
    BY DEF NoTable
  <2>2. QED
    BY <2>1, <1>1
<1>5. Held(h) = 0
  <2>1. Cardinality({p \in Procs : h[p].root}) = 0
    BY <1>2, FS_EmptySet
  <2> HIDE DEF h
  <2>2. QED
    BY <2>1, <1>3, <1>4 DEF Held
<1>6. QED
  BY <1>1, <1>5

LEMMA MemInitInv == MemInit => MemInv
<1> SUFFICES ASSUME MemInit PROVE MemInv
  OBVIOUS
<1> DEFINE boot == ProcPagetable(NPAGES - 1)
           first == NewPage(boot.table, 0, NPAGES - 1 - boot.took)
<1>1. /\ nfree = NPAGES - 1 - boot.took - first.took
      /\ pstate = [p \in Procs |-> IF p = 1 THEN "live" ELSE "unused"]
      /\ trapframe = [p \in Procs |-> p = 1]
      /\ pt = [p \in Procs |-> IF p = 1 THEN first.table ELSE NoTable]
      /\ sz = [p \in Procs |-> IF p = 1 THEN PGSIZE ELSE 0]
      /\ newpt = [p \in Procs |-> NoTable] /\ newsz = [p \in Procs |-> 0]
      /\ op = [p \in Procs |-> "none"]
      /\ at = [p \in Procs |-> 0] /\ goal = [p \in Procs |-> 0]
      /\ seg = [p \in Procs |-> 0] /\ kid = [p \in Procs |-> p]
      /\ args = [p \in Procs |-> 0] /\ pipes = 0 /\ memPanic = FALSE
  BY DEF MemInit
<1>2. NPAGES - 1 \in Nat /\ NPAGES - 1 >= 5 /\ NPAGES \in Nat /\ NPAGES >= 9
  BY MemSizes
<1>3. boot.ok /\ boot.took <= 5
  BY <1>2, BootTable
<1>4. boot.table \in Tables /\ Space(boot.table, 0) /\ boot.took \in 0..(NPAGES - 1)
      /\ PagesOf(boot.table) = boot.took
  BY <1>2, <1>3, ProcPagetableIs
<1> HIDE DEF boot
<1>5. PICK n \in Nat : n = NPAGES - 1 - boot.took /\ n >= 3
  BY <1>2, <1>3, <1>4
<1>6. /\ first.table \in Tables /\ first.took \in 0..n /\ first.ok \in BOOLEAN
      /\ PagesOf(first.table) = PagesOf(boot.table) + first.took
      /\ first.ok => Space(first.table, 0 + 1)
  <2>1. 0 \in Nat /\ 0 < MostPages
    BY MostIs
  <2>2. QED
    BY <2>1, <1>4, <1>5, NewPageIs
<1>7. first.ok
  <2>1. n - 1 \in Nat /\ n - 1 >= 2 /\ n # 0
    BY <1>5
  <2>2. Mapped(boot.table, 0, n - 1).ok
    BY <2>1, RoomToMap
  <2>3. first = [Mapped(boot.table, 0, n - 1) EXCEPT !.took =
                   IF Mapped(boot.table, 0, n - 1).ok THEN @ + 1 ELSE @]
    BY <2>1, <1>5 DEF NewPage
  <2>4. QED
    BY <2>2, <2>3 DEF Mapped
<1> HIDE DEF first
<1>8. Space(first.table, 1) /\ first.table.guard \subseteq first.table.leaves
  BY <1>6, <1>7 DEF Space
<1>9. PGSIZE \in 0..(SizeWrap - 1) /\ 0 \in 0..(SizeWrap - 1) /\ 0 \in 0..MaxArgs
      /\ 0 \in 0..MaxPipes /\ PageUp(PGSIZE) = 1 /\ PageUp(0) = 0 /\ 1 <= MostPages
  <2>1. PageUp(1 * PGSIZE + 0 * PGSIZE) = 1 + 0
    BY PageUpMultiple
  <2>2. 1 * PGSIZE + 0 * PGSIZE = PGSIZE
    BY MemSizes
  <2>3. PageUp(0) = 0
    BY PageUpIs
  <2>4. PGSIZE \in 0..(SizeWrap - 1) /\ 0 \in 0..(SizeWrap - 1) /\ 0 \in 0..MaxArgs
        /\ 0 \in 0..MaxPipes
    BY MemSizes
  <2>5. QED
    BY <2>1, <2>2, <2>3, <2>4, MostIs
<1>10. SlotTypes
  BY <1>1, <1>6, <1>8, <1>9, EmptyTable DEF SlotTypes
<1>11. PagesConserved
  <2> DEFINE h == [p \in Procs |-> NoTable]
             F == [p \in Procs |-> FALSE]
  <2>1. h \in [Procs -> Tables] /\ pt \in [Procs -> Tables] /\ 1 \in Procs
        /\ \A p \in Procs \ {1} : pt[p] = h[p]
    BY <1>1, <1>10, EmptyTable, MemSizes DEF SlotTypes
  <2>2. Held(pt) = Held(h) - PagesOf(h[1]) + PagesOf(pt[1]) /\ Held(h) = 0
    BY <2>1, HeldAt, NoneHeld
  <2>3. h[1] = NoTable /\ pt[1] = first.table
    BY <1>1, MemSizes
  <2>4. Held(newpt) = 0
    BY <1>1, NoneHeld
  <2>5. Places([p \in Procs |-> 1..args[p]]) = 0
    <3>1. \A p \in Procs : [i \in Procs |-> 1..args[i]][p] = {}
      BY <1>1
    <3>2. QED
      BY <3>1, NoneHeld
  <2>6. Cardinality({p \in Procs : trapframe[p]}) = 1
    <3>1. {p \in Procs : trapframe[p]} = {1}
      BY <1>1, MemSizes
    <3>2. QED
      BY <3>1, FS_Singleton
  <2>7. Held(pt) = first.took + boot.took
    <3>1. PagesOf(NoTable) = 0
      BY EmptyTable
    <3> HIDE DEF h
    <3>2. QED
      BY <3>1, <2>2, <2>3, <1>4, <1>6
  <2>8. QED
    BY <2>4, <2>5, <2>6, <2>7, <1>1, <1>2, <1>4, <1>6 DEF PagesConserved
<1>12. ASSUME NEW p \in Procs PROVE KeptBy(p) /\ BuiltBy(p) /\ CopiedBy(p)
  <2>1. /\ newpt[p] = NoTable /\ newsz[p] = 0 /\ op[p] = "none" /\ at[p] = 0
    BY <1>1
  <2>2. BuiltBy(p) /\ CopiedBy(p)
    BY <2>1 DEF BuiltBy, Built, CopiedBy, Copied
  <2>3. CASE p = 1
    <3>1. pstate[p] = "live" /\ trapframe[p] = TRUE /\ pt[p] = first.table /\ sz[p] = PGSIZE
      BY <1>1, <2>3
    <3>2. KeptBy(p)
      BY <3>1, <2>1, <1>8, <1>9 DEF KeptBy, Kept
    <3>3. QED
      BY <3>2, <2>2
  <2>4. CASE p # 1
    <3>1. pstate[p] = "unused" /\ trapframe[p] = FALSE /\ pt[p] = NoTable /\ sz[p] = 0
      BY <1>1, <2>4
    <3>2. KeptBy(p)
      BY <3>1, <2>1 DEF KeptBy, Kept
    <3>3. QED
      BY <3>2, <2>2
  <2>5. QED
    BY <2>3, <2>4
<1>13. KidsApart
  BY <1>1 DEF KidsApart
<1>14. nfree \in Nat /\ pipes \in 0..MaxPipes /\ memPanic = FALSE
  BY <1>1, <1>2, <1>4, <1>5, <1>6, <1>9
<1>15. QED
  BY <1>10, <1>11, <1>12, <1>13, <1>14 DEF MemInv

LEMMA MemInvSound == MemInv => MemorySound
<1> SUFFICES ASSUME MemInv PROVE MemorySound
  OBVIOUS
<1>1. nfree \in 0..NPAGES
  <2>1. SlotTypes /\ nfree \in Nat /\ pipes \in Nat /\ PagesConserved /\ NPAGES \in Nat /\ 1 \in Procs
    BY MemSizes DEF MemInv
  <2>2. Held(pt) \in Nat /\ Held(newpt) \in Nat
    BY <2>1, HeldAt DEF SlotTypes
  <2>3. Cardinality({p \in Procs : trapframe[p]}) \in Nat
    <3>1. {p \in Procs : trapframe[p]} \in SUBSET Procs /\ IsFiniteSet(Procs)
      BY MemSizes
    <3>2. QED
      BY <3>1, FS_Subset, FS_CardinalityType
  <2>4. Places([p \in Procs |-> 1..args[p]]) \in Nat
    <3> DEFINE f == [p \in Procs |-> 1..args[p]]
    <3>1. ASSUME NEW p \in Procs PROVE IsFiniteSet(f[p])
      <4>1. PICK m \in Int : m = args[p] /\ f[p] = 1..m
        BY <2>1, MemSizes DEF SlotTypes
      <4>2. IsFiniteSet(1..m)
        <5> 1 \in Int
          OBVIOUS
        <5> QED
          BY FS_Interval
      <4>3. QED
        BY <4>1, <4>2
    <3> HIDE DEF f
    <3>2. Places(f) \in Nat
      BY <3>1, <2>1, PlacesAt
    <3>3. QED
      BY <3>2 DEF f
  <2>5. QED
    BY <2>1, <2>2, <2>3, <2>4 DEF PagesConserved
<1>2. MemTypeOK
  BY <1>1 DEF MemInv, SlotTypes, MemTypeOK
<1>3. SpacesWhole
  <2> SUFFICES ASSUME NEW p \in Procs, pstate[p] \in {"live", "zombie"}, op[p] # "grow"
               PROVE  pt[p].leaves = Pages(sz[p]) \cup {TRAMPOLINE, TRAPFRAME}
    BY DEF SpacesWhole
  <2>1. SlotIn(p) /\ KeptBy(p)
    BY SlotIs
  <2>2. Space(pt[p], PageUp(sz[p]))
    BY <2>1 DEF KeptBy, Kept
  <2>3. QED
    BY <2>2 DEF Space, Pages
<1>4. QED
  BY <1>2, <1>3 DEF MemorySound, MemInv

\* Whatever runs out of pages and when, no page is lost or freed twice, each process
\* has the pages below its size, and vm.c does not panic.
THEOREM MemoryAlwaysSound == MemSpec => []MemorySound
<1>1. MemInv /\ [MemNext]_memVars => MemInv'
  <2> SUFFICES ASSUME MemInv, [MemNext]_memVars PROVE MemInv'
    OBVIOUS
  <2>1. CASE UNCHANGED memVars
    <3>1. /\ UNCHANGED <<pstate, trapframe, pt, sz, newpt, newsz, op, at, goal, seg, kid, args>>
          /\ UNCHANGED <<nfree, pipes, memPanic>>
      BY <2>1 DEF memVars
    <3>2. PagesConserved' /\ SlotTypes'
      BY <3>1 DEF MemInv, SlotTypes, PagesConserved, Held, Places
    <3>3. QED
      BY <3>1, <3>2 DEF MemInv, KeptBy, BuiltBy, CopiedBy, KidsApart
  <2>2. CASE \E p \in Procs, n \in 1..UserTop : SbrkUp(p, n) \/ SbrkDown(p, n)
    BY <2>2, SbrkUpInv, SbrkDownInv
  <2>3. ASSUME NEW p \in Procs,
               GrowPage(p) \/ GrowDone(p) \/ AllocProc(p) \/ ForkPage(p) \/ ForkDone(p) \/ Exit(p)
                 \/ Reap(p)
        PROVE  MemInv'
    BY <2>3, GrowPageInv, GrowDoneInv, AllocProcInv, ForkPageInv, ForkDoneInv, ExitInv, ReapInv
  <2>4. ASSUME NEW p \in Procs,
               ExecStart(p) \/ ExecArg(p) \/ ExecFails(p) \/ ExecTable(p) \/ Segment(p)
                 \/ ExecPage(p) \/ SegmentDone(p) \/ StackStart(p) \/ ExecTooLong(p) \/ Commit(p)
        PROVE  MemInv'
    BY <2>4, ExecStartInv, ExecArgInv, ExecFailsInv, ExecTableInv, SegmentInv, ExecPageInv,
       SegmentDoneInv, StackStartInv, ExecTooLongInv, CommitInv
  <2>5. CASE PipeAlloc \/ PipeFree
    BY <2>5, PipeInv
  <2>6. QED
    BY <2>1, <2>2, <2>3, <2>4, <2>5 DEF MemNext
<1>2. QED
  BY <1>1, MemInitInv, MemInvSound, PTL DEF MemSpec

=============================================================================
