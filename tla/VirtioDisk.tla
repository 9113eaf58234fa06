----------------------------- MODULE VirtioDisk -----------------------------
(***************************************************************************)
(* The virtio disk driver (xv6-labs/kernel/virtio_disk.c): processes     *)
(* that each transfer a buffer, the interrupt handler, and the device,   *)
(* which works at its own pace on the rings they share, and may fail.    *)
(*                                                                       *)
(* vdisk_lock covers every access of the kernel, from acquire() to the   *)
(* next sleep() or release(): such a section is one step, except the     *)
(* handler's, which the device runs alongside.  What nobody reads again  *)
(* is forgotten: an entry of a ring that was read, the links of a free   *)
(* descriptor.                                                           *)
(***************************************************************************)
EXTENDS Integers, Sequences, FiniteSets

CONSTANTS Clients,  \* the processes, each with the buffer it holds locked
          NUM,      \* descriptors; one request takes three
          NoClient

ASSUME DiskAssumption == NUM \in Nat /\ NUM >= 3 /\ NoClient \notin Clients

Descs == 0..(NUM - 1)
Parts == {"header", "data", "status"}

VARIABLES
  free, desc, info,     \* disk.free, disk.desc, disk.info[].b
  status,               \* the i whose disk.info[i].status is not 0
  avail, availId,       \* disk.avail[2...] and disk.avail[1]
  used, usedId, usedIdx,\* disk.used->elems, disk.used->id, disk.used_idx; all mod NUM
  seen, work,           \* the device: how far it read avail, requests it works on
  isr,                  \* the device's interrupt status
  handler,              \* virtio_disk_intr(): "off", "loop", "ack" or "panicked"
  where, asleep, head,  \* a client: in which loop, whether asleep, its idx[0]
  busy,                 \* b->disk
  result,               \* what the device did for the client's request
  late                  \* history: chains reported between a loop and its acknowledgement

rings == <<avail, availId, used, usedId, usedIdx>>
device == <<seen, work>>
clients == <<where, asleep, head>>
diskVars == <<free, desc, info, status, rings, device, isr, handler, clients, busy, result, late>>

\* A descriptor of no request: disk.desc[i].addr is 0.
NoDesc == [own |-> NoClient, part |-> "header", next |-> 0, more |-> FALSE]

DiskInit ==
  /\ free = Descs
  /\ desc = [i \in Descs |-> NoDesc]
  /\ info = [i \in Descs |-> NoClient]
  /\ avail = [k \in Descs |-> 0] /\ used = [k \in Descs |-> 0]
  /\ availId = 0 /\ usedId = 0 /\ usedIdx = 0 /\ seen = 0 /\ work = {}
  /\ isr = FALSE /\ handler = "off" /\ status = {} /\ late = {}
  /\ where = [c \in Clients |-> "idle"] /\ asleep = {}
  /\ head = [c \in Clients |-> 0]
  /\ busy = [c \in Clients |-> FALSE]
  /\ result = [c \in Clients |-> "none"]

-----------------------------------------------------------------------------
Plus1(k) == (k + 1) % NUM
Least(S) == CHOOSE i \in S : \A j \in S : i <= j

\* alloc3_desc(): alloc_desc() takes the first free descriptor, three times.
First3 == LET i == Least(free)  j == Least(free \ {i})
          IN  <<i, j, Least(free \ {i, j})>>

\* wakeup(&disk.free[0]), and wakeup(b)
AwaitRoom == {c \in Clients : where[c] = "room"}

\* The chain that starts with descriptor h, as free_chain() and the device walk it.
Chain(h) ==
  LET n == desc[h].next IN
  IF ~desc[h].more THEN <<h>>
  ELSE IF ~desc[n].more THEN <<h, n>> ELSE <<h, n, desc[n].next>>
ChainSet(h) == {Chain(h)[k] : k \in 1..Len(Chain(h))}

MayTry(c) == where[c] = "idle" \/ (where[c] = "room" /\ c \notin asleep)

\* virtio_disk_rw() up to its sleep(b): the request is in the ring, the device told.
Submit(c) ==
  /\ MayTry(c) /\ Cardinality(free) >= 3
  /\ LET idx == First3
         d(k, more) == [own |-> c, part |-> <<"header", "data", "status">>[k],
                        next |-> IF more THEN idx[k + 1] ELSE 0, more |-> more]
     IN  /\ free' = free \ {idx[1], idx[2], idx[3]}
         /\ desc' = [desc EXCEPT ![idx[1]] = d(1, TRUE), ![idx[2]] = d(2, TRUE),
                                 ![idx[3]] = d(3, FALSE)]
         /\ info' = [info EXCEPT ![idx[1]] = c]
         /\ status' = status \ {idx[1]}
         /\ avail' = [avail EXCEPT ![availId] = idx[1]]
         /\ head' = [head EXCEPT ![c] = idx[1]]
  /\ availId' = Plus1(availId)
  /\ busy' = [busy EXCEPT ![c] = TRUE]
  /\ result' = [result EXCEPT ![c] = "none"]
  /\ where' = [where EXCEPT ![c] = "wait"]
  /\ asleep' = asleep \cup {c}
  /\ UNCHANGED <<used, usedId, usedIdx, device, isr, handler, late>>

\* Mutant of NoRoom: it sleeps without giving back what it allocated.
NoRoomKeeps(c) ==
  /\ MayTry(c) /\ Cardinality(free) < 3
  /\ free' = {}
  /\ where' = [where EXCEPT ![c] = "room"]
  /\ asleep' = asleep \cup {c}
  /\ UNCHANGED <<desc, info, status, rings, device, isr, handler, head, busy, result, late>>

\* Fewer than three: free_desc() of what was allocated wakes those who wait for
\* room, and sleep(&disk.free[0]).
NoRoom(c) ==
  /\ MayTry(c) /\ Cardinality(free) < 3
  /\ where' = [where EXCEPT ![c] = "room"]
  /\ asleep' = (IF free = {} THEN asleep ELSE asleep \ AwaitRoom) \cup {c}
  /\ UNCHANGED <<free, desc, info, status, rings, device, isr, handler, head, busy, result,
                 late>>

\* The end of virtio_disk_rw(), when b->disk is 0: free_chain() and release().
Finish(c) ==
  /\ where[c] = "wait" /\ c \notin asleep /\ ~busy[c]
  /\ info' = [info EXCEPT ![head[c]] = NoClient]
  /\ free' = free \cup ChainSet(head[c])
  /\ desc' = [i \in Descs |-> IF i \in ChainSet(head[c]) THEN NoDesc ELSE desc[i]]
  /\ where' = [where EXCEPT ![c] = "idle"]
  /\ head' = [head EXCEPT ![c] = 0]
  /\ asleep' = asleep \ AwaitRoom
  /\ result' = [result EXCEPT ![c] = "none"]
  /\ UNCHANGED <<status, rings, device, isr, handler, busy, late>>

\* Nobody holds vdisk_lock but the handler, while it runs and once it has panicked.
LockFree == handler = "off"

-----------------------------------------------------------------------------
(* The device, as the driver's comments and its use of the rings describe it. *)

\* It reads the next entry of the avail ring.
Fetch ==
  /\ seen # availId
  /\ work' = work \cup {avail[seen]}
  /\ avail' = [avail EXCEPT ![seen] = 0]
  /\ seen' = Plus1(seen)
  /\ UNCHANGED <<free, desc, info, status, availId, used, usedId, usedIdx, isr, handler,
                 clients, busy, result, late>>

\* It transfers the block of the chain's header to or from the chain's buffer, in
\* any order, or fails to; it writes the status, reports the chain in the used ring
\* and raises its interrupt.
Complete(h, ok) ==
  /\ h \in work
  /\ work' = work \ {h}
  /\ LET chain == Chain(h) IN
       result' = [result EXCEPT ![desc[chain[2]].own] =
                    IF @ = "none" /\ Len(chain) = 3 /\ desc[h].own = desc[chain[2]].own
                       /\ \A k \in 1..3 : desc[chain[k]].part = <<"header", "data", "status">>[k]
                    THEN IF ok THEN "done" ELSE "failed"
                    ELSE "wrong"]
  /\ status' = IF ok THEN status \ {h} ELSE status \cup {h}
  /\ used' = [used EXCEPT ![usedId] = h]
  /\ usedId' = Plus1(usedId)
  /\ isr' = TRUE
  /\ late' = IF handler = "ack" THEN late \cup {h} ELSE late
  /\ UNCHANGED <<free, desc, info, avail, availId, usedIdx, seen, handler, clients, busy>>

-----------------------------------------------------------------------------
(* virtio_disk_intr(), from devintr() when the PLIC names the disk. *)

Interrupt ==
  /\ isr /\ handler = "off"
  /\ handler' = "loop"
  /\ UNCHANGED <<free, desc, info, status, rings, device, isr, clients, busy, result, late>>

\* One element of the used ring: its buffer is done, its process woken.
Handle ==
  /\ handler = "loop" /\ usedIdx # usedId /\ used[usedIdx] \notin status
  /\ LET id == used[usedIdx] IN
       /\ busy' = [busy EXCEPT ![info[id]] = FALSE]
       /\ asleep' = asleep \ {info[id]}
       /\ late' = late \ {id}
  /\ used' = [used EXCEPT ![usedIdx] = 0]
  /\ usedIdx' = Plus1(usedIdx)
  /\ UNCHANGED <<free, desc, info, status, avail, availId, usedId, device, isr, handler,
                 where, head, result>>

\* The device reports a failure: panic(), with vdisk_lock held.
HandlerPanics ==
  /\ handler = "loop" /\ usedIdx # usedId /\ used[usedIdx] \in status
  /\ handler' = "panicked"
  /\ UNCHANGED <<free, desc, info, status, rings, device, isr, clients, busy, result, late>>

\* The loop ends; the device may still report a completion before
HandlerDone ==
  /\ handler = "loop" /\ usedIdx = usedId
  /\ handler' = "ack"
  /\ UNCHANGED <<free, desc, info, status, rings, device, isr, clients, busy, result, late>>

\* the interrupt is acknowledged, and vdisk_lock released.
Acknowledge ==
  /\ handler = "ack"
  /\ isr' = FALSE
  /\ handler' = "off"
  /\ UNCHANGED <<free, desc, info, status, rings, device, clients, busy, result, late>>

DiskNext ==
  \/ LockFree /\ \E c \in Clients : Submit(c) \/ NoRoom(c) \/ Finish(c)
  \/ Fetch \/ \E h \in Descs, ok \in BOOLEAN : Complete(h, ok)
  \/ Interrupt \/ Handle \/ HandlerPanics \/ HandlerDone \/ Acknowledge

DiskSpec == DiskInit /\ [][DiskNext]_diskVars

-----------------------------------------------------------------------------
DiskTypeOK ==
  /\ free \subseteq Descs
  /\ desc \in [Descs -> [own : Clients \cup {NoClient}, part : Parts, next : Descs, more : BOOLEAN]]
  /\ info \in [Descs -> Clients \cup {NoClient}]
  /\ {avail, used} \subseteq [Descs -> Descs]
  /\ {availId, usedId, usedIdx, seen} \subseteq Descs
  /\ work \subseteq Descs
  /\ isr \in BOOLEAN /\ handler \in {"off", "loop", "ack", "panicked"}
  /\ status \subseteq Descs /\ late \subseteq Descs
  /\ where \in [Clients -> {"idle", "room", "wait"}]
  /\ asleep \subseteq Clients
  /\ head \in [Clients -> Descs]
  /\ busy \in [Clients -> BOOLEAN]
  /\ result \in [Clients -> {"none", "done", "failed", "wrong"}]

Waiting == {c \in Clients : where[c] = "wait"}

\* Every descriptor is free or in the chain of one request: none leaks, on the
\* path that finds too few included, and none is given out twice.
DescriptorsConserved ==
  /\ free \cup UNION {ChainSet(head[c]) : c \in Waiting} = Descs
  /\ Cardinality(free) + 3 * Cardinality(Waiting) = NUM

\* The entries of a ring that are still to be read.
Pending(from, to) == {(from + k) % NUM : k \in 0..(((to - from) % NUM) - 1)}
InAvail == {avail[k] : k \in Pending(seen, availId)}
InUsed == {used[k] : k \in Pending(usedIdx, usedId)}

\* A request is with the device until it is done or has failed, then in the used
\* ring until its process is told; never in two places, never told before it is done
\* and never when it has failed.
RequestsTracked ==
  \A c \in Waiting :
    /\ info[head[c]] = c
    /\ busy[c] <=> head[c] \in InAvail \cup work \cup InUsed
    /\ result[c] = IF head[c] \in InAvail \cup work THEN "none"
                   ELSE IF head[c] \in status THEN "failed" ELSE "done"
    /\ result[c] = "failed" => busy[c]
    /\ Cardinality({S \in {InAvail, work, InUsed} : head[c] \in S}) <= 1

\* The handler panics (virtio_disk.c:259) only about a request that did fail, not
\* on a status left from an earlier request.
PanicsForFailure ==
  handler = "panicked" =>
    usedIdx # usedId /\ \E c \in Waiting : head[c] = used[usedIdx] /\ result[c] = "failed"

\* Who sleeps will be woken: a request in flight, or somebody about to try, for
\* those who wait for room; the device, an interrupt that is due or the handler
\* for those who wait for a buffer.  Two are not: a chain that was reported between
\* the handler's loop and its acknowledgement (virtio_disk.c:267) waits for a later
\* interrupt, and nobody is woken once the handler has panicked.
DiskSleepersHaveCause ==
  handler # "panicked" =>
    \A c \in asleep :
      IF where[c] = "room" THEN Waiting \cup (AwaitRoom \ asleep) # {}
      ELSE \/ head[c] \in InAvail \cup work
           \/ head[c] \in InUsed /\ (isr \/ handler = "loop")
           \/ head[c] \in InUsed \cap late

\* Each request is performed once, with its own buffer, and its process is told.
DiskServes ==
  DiskTypeOK /\ DescriptorsConserved /\ RequestsTracked /\ PanicsForFailure /\ DiskSleepersHaveCause
=============================================================================
