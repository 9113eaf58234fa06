-------------------------------- MODULE Proc --------------------------------
(***************************************************************************)
(* The life cycle of xv6 processes (xv6-labs/kernel/proc.c): the table     *)
(* proc[NPROC], its per-slot spinlocks, and the kernel threads that run    *)
(* fork, exit, wait and kill over it.                                      *)
(*                                                                         *)
(* A slot is a number in 1..NPROC and the kernel thread of slot p is       *)
(* called p.  The threads interleave at the granularity of the p->lock     *)
(* acquisitions and of the two places that read p->parent without a lock;  *)
(* a critical section that takes a single p->lock and nothing else is one  *)
(* action.  Sleeping in wait() is the only sleep of this module: preemption*)
(* and the general sleep/wakeup protocol are in Sched.                     *)
(***************************************************************************)
EXTENDS Integers, FiniteSets

CONSTANTS NPROC,     \* slots in the process table (param.h)
          MaxPid,    \* bound: no fork that takes a pid starts once nextpid would pass it
          MemFail    \* whether kalloc() may return 0

ASSUME NPROCAssumption == NPROC \in Nat \ {0}
ASSUME MaxPidAssumption == MaxPid \in Nat \ {0}
ASSUME MemFailAssumption == MemFail \in BOOLEAN

Slots == 1..NPROC
InitProc == 1                \* initproc, allocated first by userinit()
Null == 0                    \* the null struct proc pointer, "no holder"
PidOfInit == 1

VARIABLES
  lock,      \* lock[s]: the thread that holds proc[s].lock, or Null
  state,     \* proc[s].state
  parent,    \* proc[s].parent
  chan,      \* proc[s].chan: Null, or the slot whose address it is
  killed,    \* proc[s].killed
  pid,       \* proc[s].pid
  nextpid,   \* the pid the next allocproc() hands out
  pc,        \* where the kernel thread of s is
  idx,       \* the slot the table scan of thread s has reached
  opar,      \* original_parent of exit()
  kids,      \* havekids of wait()
  target     \* the argument of kill()

table == <<state, parent, chan, killed, pid, nextpid>>
locals == <<idx, opar, kids, target>>
vars == <<lock, state, parent, chan, killed, pid, nextpid,
          pc, idx, opar, kids, target>>

procstate == {"UNUSED", "SLEEPING", "RUNNABLE", "RUNNING", "ZOMBIE"}

Labels == {"none", "forkret", "user", "alloc", "copy", "exitread",
           "exitparent", "exitself", "reparent", "reparentlock", "zombie",
           "wait", "waitlock", "slept", "kill"}

-----------------------------------------------------------------------------
(* Steps of a thread and of its locks. *)

At(p, l) == pc[p] = l /\ state[p] = "RUNNING"
Goto(p, l) == pc' = [pc EXCEPT ![p] = l]
Scan(p, s) == idx' = [idx EXCEPT ![p] = s]
Acquired(p, s) == lock[s] = Null /\ lock' = [lock EXCEPT ![s] = p]
Released(s) == lock' = [lock EXCEPT ![s] = Null]

\* wakeup1(): s becomes RUNNABLE if it sleeps in wait().
wakeup1(s) == IF chan[s] = s /\ state[s] = "SLEEPING"
              THEN [state EXCEPT ![s] = "RUNNABLE"] ELSE state

\* freeproc(): the slot is as it was before it was ever allocated.
freeproc(s) ==
  /\ state' = [state EXCEPT ![s] = "UNUSED"]
  /\ parent' = [parent EXCEPT ![s] = Null]
  /\ chan' = [chan EXCEPT ![s] = Null]
  /\ killed' = [killed EXCEPT ![s] = FALSE]
  /\ pid' = [pid EXCEPT ![s] = 0]

-----------------------------------------------------------------------------
(* After userinit(): initproc is RUNNABLE, every other slot is free. *)
Init ==
  /\ lock = [s \in Slots |-> Null]
  /\ state = [s \in Slots |-> IF s = InitProc THEN "RUNNABLE" ELSE "UNUSED"]
  /\ parent = [s \in Slots |-> Null]
  /\ chan = [s \in Slots |-> Null]
  /\ killed = [s \in Slots |-> FALSE]
  /\ pid = [s \in Slots |-> IF s = InitProc THEN PidOfInit ELSE 0]
  /\ nextpid = PidOfInit + 1
  /\ pc = [s \in Slots |-> IF s = InitProc THEN "forkret" ELSE "none"]
  /\ idx = [s \in Slots |-> 1]
  /\ opar = [s \in Slots |-> Null]
  /\ kids = [s \in Slots |-> FALSE]
  /\ target = [s \in Slots |-> 0]

-----------------------------------------------------------------------------
(* scheduler() and the two ends of swtch(). *)

\* scheduler() takes the lock of a RUNNABLE slot and switches to it; the
\* thread goes on where it left off, with the lock in hand.
Dispatch(p) ==
  /\ state[p] = "RUNNABLE"
  /\ Acquired(p, p)
  /\ state' = [state EXCEPT ![p] = "RUNNING"]
  /\ UNCHANGED <<parent, chan, killed, pid, nextpid, pc, locals>>

\* Back in scheduler() after the thread's sched(): the lock it switched away
\* with is released.  A zombie never comes back to its kernel stack.
SwitchedOut(p) ==
  /\ state[p] \in {"SLEEPING", "ZOMBIE"}
  /\ pc[p] \in {"slept", "zombie"}
  /\ lock[p] = p
  /\ Released(p)
  /\ pc' = [pc EXCEPT ![p] = IF @ = "zombie" THEN "none" ELSE @]
  /\ UNCHANGED <<table, locals>>

forkret(p) ==
  /\ At(p, "forkret")
  /\ Released(p)
  /\ Goto(p, "user")
  /\ UNCHANGED <<table, locals>>

-----------------------------------------------------------------------------
(* fork() and allocproc().  A killed thread does not enter a system call:   *)
(* usertrap() sends it to exit().                                           *)

\* The table is full, and while p is in fork() nobody can reap: a fork() needs no pid.
StaysFull(p) ==
  \A q \in Slots : state[q] # "UNUSED" /\ (q \in {p, InitProc} \/ parent[q] = p)

ForkCall(p) ==
  /\ At(p, "user") /\ ~killed[p]
  /\ \/ nextpid + Cardinality({q \in Slots : pc[q] = "alloc"}) <= MaxPid
     \/ StaysFull(p)
  /\ Goto(p, "alloc")
  /\ Scan(p, 1)
  /\ UNCHANGED <<lock, table, opar, kids, target>>

AllocNext(p) ==
  /\ At(p, "alloc") /\ idx[p] \in Slots
  /\ lock[idx[p]] = Null
  /\ state[idx[p]] # "UNUSED"
  /\ Scan(p, idx[p] + 1)
  /\ UNCHANGED <<lock, table, pc, opar, kids, target>>

AllocNone(p) ==
  /\ At(p, "alloc") /\ idx[p] = NPROC + 1
  /\ Goto(p, "user")
  /\ Scan(p, 1)
  /\ UNCHANGED <<lock, table, opar, kids, target>>

\* An UNUSED slot: keep its lock and give it a pid.
AllocFound(p) ==
  /\ At(p, "alloc") /\ idx[p] \in Slots
  /\ Acquired(p, idx[p])
  /\ state[idx[p]] = "UNUSED"
  /\ pid' = [pid EXCEPT ![idx[p]] = nextpid]
  /\ nextpid' = nextpid + 1
  /\ Goto(p, "copy")
  /\ UNCHANGED <<state, parent, chan, killed, locals>>

\* No page for the trapframe: allocproc() releases the slot and returns 0,
\* without freeproc().
AllocNoTrapframe(p) ==
  /\ At(p, "copy") /\ MemFail
  /\ Released(idx[p])
  /\ Goto(p, "user")
  /\ Scan(p, 1)
  /\ UNCHANGED <<table, opar, kids, target>>

\* No memory for the page table or for the copy of the parent's memory.
ForkNoMemory(p) ==
  /\ At(p, "copy") /\ MemFail
  /\ freeproc(idx[p])
  /\ Released(idx[p])
  /\ Goto(p, "user")
  /\ Scan(p, 1)
  /\ UNCHANGED <<nextpid, opar, kids, target>>


\* The child is complete.
ForkDone(p) ==
  /\ At(p, "copy")
  /\ parent' = [parent EXCEPT ![idx[p]] = p]
  /\ state' = [state EXCEPT ![idx[p]] = "RUNNABLE"]
  /\ Released(idx[p])
  /\ pc' = [pc EXCEPT ![p] = "user", ![idx[p]] = "forkret"]
  /\ Scan(p, 1)
  /\ UNCHANGED <<chan, killed, pid, nextpid, opar, kids, target>>

-----------------------------------------------------------------------------
(* exit() and reparent(). *)

\* Called by the program or by usertrap(); the first thing it does to the
\* table is to wake up initproc.
ExitCall(p) ==
  /\ At(p, "user") /\ p # InitProc
  /\ lock[InitProc] = Null
  /\ state' = wakeup1(InitProc)
  /\ Goto(p, "exitread")
  /\ UNCHANGED <<lock, parent, chan, killed, pid, nextpid, locals>>

ExitReadParent(p) ==
  /\ At(p, "exitread")
  /\ lock[p] = Null
  /\ opar' = [opar EXCEPT ![p] = parent[p]]
  /\ Goto(p, "exitparent")
  /\ UNCHANGED <<lock, table, idx, kids, target>>

ExitLockParent(p) ==
  /\ At(p, "exitparent")
  /\ Acquired(p, opar[p])
  /\ Goto(p, "exitself")
  /\ UNCHANGED <<table, locals>>

ExitLockSelf(p) ==
  /\ At(p, "exitself")
  /\ Acquired(p, p)
  /\ Goto(p, "reparent")
  /\ Scan(p, 1)
  /\ UNCHANGED <<table, opar, kids, target>>

\* Mutant of ReparentCheck: the lock is taken before the test.
ReparentCheckLocked(p) ==
  /\ At(p, "reparent") /\ idx[p] \in Slots
  /\ Goto(p, "reparentlock")
  /\ UNCHANGED <<lock, table, locals>>

\* Mutant of ReparentCheck: the loop ends one slot early.
ReparentCheckShort(p) ==
  /\ At(p, "reparent") /\ idx[p] \in Slots
  /\ IF parent[idx[p]] = p /\ idx[p] # NPROC
     THEN Goto(p, "reparentlock") /\ UNCHANGED idx
     ELSE Scan(p, idx[p] + 1) /\ UNCHANGED pc
  /\ UNCHANGED <<lock, table, opar, kids, target>>

\* The unlocked test of pp->parent.
ReparentCheck(p) ==
  /\ At(p, "reparent") /\ idx[p] \in Slots
  /\ IF parent[idx[p]] = p
     THEN Goto(p, "reparentlock") /\ UNCHANGED idx
     ELSE Scan(p, idx[p] + 1) /\ UNCHANGED pc
  /\ UNCHANGED <<lock, table, opar, kids, target>>

\* Mutant of ReparentGive: the loop advances twice.
ReparentGiveTwice(p) ==
  /\ At(p, "reparentlock")
  /\ lock[idx[p]] = Null
  /\ parent' = [parent EXCEPT ![idx[p]] = InitProc]
  /\ Goto(p, "reparent")
  /\ Scan(p, idx[p] + 2)
  /\ UNCHANGED <<lock, state, chan, killed, pid, nextpid, opar, kids, target>>

ReparentGive(p) ==
  /\ At(p, "reparentlock")
  /\ lock[idx[p]] = Null
  /\ parent' = [parent EXCEPT ![idx[p]] = InitProc]
  /\ Goto(p, "reparent")
  /\ Scan(p, idx[p] + 1)
  /\ UNCHANGED <<lock, state, chan, killed, pid, nextpid, opar, kids, target>>

\* Mutant of ExitZombie: the parent is not woken up.
ExitZombieNoWake(p) ==
  /\ At(p, "reparent") /\ idx[p] = NPROC + 1
  /\ state' = [state EXCEPT ![p] = "ZOMBIE"]
  /\ Released(opar[p])
  /\ opar' = [opar EXCEPT ![p] = Null]
  /\ Goto(p, "zombie")
  /\ Scan(p, 1)
  /\ UNCHANGED <<parent, chan, killed, pid, nextpid, kids, target>>

\* Mutant of ExitZombie: p->lock is released before the switch.
ExitZombieUnlocked(p) ==
  /\ At(p, "reparent") /\ idx[p] = NPROC + 1
  /\ state' = [wakeup1(opar[p]) EXCEPT ![p] = "ZOMBIE"]
  /\ lock' = [lock EXCEPT ![opar[p]] = Null, ![p] = Null]
  /\ opar' = [opar EXCEPT ![p] = Null]
  /\ Goto(p, "zombie")
  /\ Scan(p, 1)
  /\ UNCHANGED <<parent, chan, killed, pid, nextpid, kids, target>>

\* Wake the parent, become a zombie and release the parent; p->lock is kept
\* until the scheduler is on its own stack again (SwitchedOut).
ExitZombie(p) ==
  /\ At(p, "reparent") /\ idx[p] = NPROC + 1
  /\ state' = [wakeup1(opar[p]) EXCEPT ![p] = "ZOMBIE"]
  /\ Released(opar[p])
  /\ opar' = [opar EXCEPT ![p] = Null]
  /\ Goto(p, "zombie")
  /\ Scan(p, 1)
  /\ UNCHANGED <<parent, chan, killed, pid, nextpid, kids, target>>

-----------------------------------------------------------------------------
(* wait(). *)

WaitCall(p) ==
  /\ At(p, "user") /\ ~killed[p]
  /\ Acquired(p, p)
  /\ Goto(p, "wait")
  /\ Scan(p, 1)
  /\ UNCHANGED <<table, opar, kids, target>>

\* Mutant of WaitCheck: the lock is taken before the test.
WaitCheckLocked(p) ==
  /\ At(p, "wait") /\ idx[p] \in Slots
  /\ Goto(p, "waitlock")
  /\ UNCHANGED <<lock, table, locals>>

\* The unlocked test of np->parent.
WaitCheck(p) ==
  /\ At(p, "wait") /\ idx[p] \in Slots
  /\ IF parent[idx[p]] = p
     THEN Goto(p, "waitlock") /\ UNCHANGED idx
     ELSE Scan(p, idx[p] + 1) /\ UNCHANGED pc
  /\ UNCHANGED <<lock, table, opar, kids, target>>

WaitAlive(p) ==
  /\ At(p, "waitlock")
  /\ lock[idx[p]] = Null
  /\ state[idx[p]] # "ZOMBIE"
  /\ kids' = [kids EXCEPT ![p] = TRUE]
  /\ Goto(p, "wait")
  /\ Scan(p, idx[p] + 1)
  /\ UNCHANGED <<lock, table, opar, target>>

\* How a wait() that returns leaves the thread.
WaitReturns(p) ==
  /\ Released(p)
  /\ Goto(p, "user")
  /\ Scan(p, 1)
  /\ kids' = [kids EXCEPT ![p] = FALSE]

WaitReap(p) ==
  /\ At(p, "waitlock")
  /\ lock[idx[p]] = Null
  /\ state[idx[p]] = "ZOMBIE"
  /\ freeproc(idx[p])
  /\ WaitReturns(p)
  /\ UNCHANGED <<nextpid, opar, target>>

\* Mutant of WaitBadAddress: p->lock is not released on the error path.
WaitBadAddressLocked(p) ==
  /\ At(p, "waitlock")
  /\ lock[idx[p]] = Null
  /\ state[idx[p]] = "ZOMBIE"
  /\ Goto(p, "user")
  /\ Scan(p, 1)
  /\ kids' = [kids EXCEPT ![p] = FALSE]
  /\ UNCHANGED <<lock, table, opar, target>>

\* copyout() of the exit status fails: -1, and the zombie stays.
WaitBadAddress(p) ==
  /\ At(p, "waitlock")
  /\ lock[idx[p]] = Null
  /\ state[idx[p]] = "ZOMBIE"
  /\ WaitReturns(p)
  /\ UNCHANGED <<table, opar, target>>

WaitNoKids(p) ==
  /\ At(p, "wait") /\ idx[p] = NPROC + 1
  /\ ~kids[p] \/ killed[p]
  /\ WaitReturns(p)
  /\ UNCHANGED <<table, opar, target>>

\* sleep(p, &p->lock) up to its swtch().
WaitSleep(p) ==
  /\ At(p, "wait") /\ idx[p] = NPROC + 1
  /\ kids[p] /\ ~killed[p]
  /\ chan' = [chan EXCEPT ![p] = p]
  /\ state' = [state EXCEPT ![p] = "SLEEPING"]
  /\ Goto(p, "slept")
  /\ UNCHANGED <<lock, parent, killed, pid, nextpid, locals>>

\* Mutant of WaitWoken: the table is not scanned again.
WaitWokenNoRescan(p) ==
  /\ At(p, "slept")
  /\ chan' = [chan EXCEPT ![p] = Null]
  /\ Goto(p, "wait")
  /\ UNCHANGED <<lock, state, parent, killed, pid, nextpid, locals>>

\* sleep() after its swtch(): the scan starts over.
WaitWoken(p) ==
  /\ At(p, "slept")
  /\ chan' = [chan EXCEPT ![p] = Null]
  /\ Goto(p, "wait")
  /\ Scan(p, 1)
  /\ kids' = [kids EXCEPT ![p] = FALSE]
  /\ UNCHANGED <<lock, state, parent, killed, pid, nextpid, opar, target>>

-----------------------------------------------------------------------------
(* kill(), of any number but initproc's pid (which would end in the panic   *)
(* "init exiting").  0 is the pid of a slot that was freed or never used.   *)

KillCall(p) ==
  /\ At(p, "user") /\ ~killed[p]
  /\ \E n \in {0} \cup (PidOfInit + 1)..MaxPid : target' = [target EXCEPT ![p] = n]
  /\ Goto(p, "kill")
  /\ Scan(p, 1)
  /\ UNCHANGED <<lock, table, opar, kids>>

KillReturns(p) ==
  /\ Goto(p, "user")
  /\ Scan(p, 1)
  /\ target' = [target EXCEPT ![p] = 0]

KillNext(p) ==
  /\ At(p, "kill") /\ idx[p] \in Slots
  /\ lock[idx[p]] = Null
  /\ pid[idx[p]] # target[p]
  /\ Scan(p, idx[p] + 1)
  /\ UNCHANGED <<lock, table, pc, opar, kids, target>>

\* Mutant of KillHit: a sleeping victim is left asleep.
KillHitNoWake(p) ==
  /\ At(p, "kill") /\ idx[p] \in Slots
  /\ lock[idx[p]] = Null
  /\ pid[idx[p]] = target[p]
  /\ killed' = [killed EXCEPT ![idx[p]] = TRUE]
  /\ KillReturns(p)
  /\ UNCHANGED <<lock, state, parent, chan, pid, nextpid, opar, kids>>

KillHit(p) ==
  /\ At(p, "kill") /\ idx[p] \in Slots
  /\ lock[idx[p]] = Null
  /\ pid[idx[p]] = target[p]
  /\ killed' = [killed EXCEPT ![idx[p]] = TRUE]
  /\ state' = [state EXCEPT ![idx[p]] =
                 IF @ = "SLEEPING" THEN "RUNNABLE" ELSE @]
  /\ KillReturns(p)
  /\ UNCHANGED <<lock, parent, chan, pid, nextpid, opar, kids>>

KillMiss(p) ==
  /\ At(p, "kill") /\ idx[p] = NPROC + 1
  /\ KillReturns(p)
  /\ UNCHANGED <<lock, table, opar, kids>>

-----------------------------------------------------------------------------
Fork(p) == \/ AllocNext(p) \/ AllocNone(p) \/ AllocFound(p)
           \/ AllocNoTrapframe(p) \/ ForkNoMemory(p) \/ ForkDone(p)

Exit(p) == \/ ExitReadParent(p) \/ ExitLockParent(p) \/ ExitLockSelf(p)
           \/ ReparentCheck(p) \/ ReparentGive(p) \/ ExitZombie(p)

Wait(p) == \/ WaitCheck(p) \/ WaitAlive(p) \/ WaitReap(p)
           \/ WaitBadAddress(p) \/ WaitNoKids(p) \/ WaitSleep(p)
           \/ WaitWoken(p)

Kill(p) == KillNext(p) \/ KillHit(p) \/ KillMiss(p)

\* The calls a program makes of its own accord.
Call(p) == ForkCall(p) \/ ExitCall(p) \/ WaitCall(p) \/ KillCall(p)

\* What goes on by itself once a call was made.
Kernel(p) == \/ Dispatch(p) \/ SwitchedOut(p) \/ forkret(p)
             \/ Fork(p) \/ Exit(p) \/ Wait(p) \/ Kill(p)

Next == \E p \in Slots : Call(p) \/ Kernel(p)

Spec == Init /\ [][Next]_vars

\* Fairness.  Every hart keeps scheduling and a thread that spins on a lock
\* obtains it if the lock is released again and again (the amoswap loop of
\* acquire()); a killed thread traps and is sent to exit() by usertrap().
FairSpec ==
  /\ Spec
  /\ \A p \in Slots : /\ SF_vars(Kernel(p))
                      /\ SF_vars(killed[p] /\ ExitCall(p))

-----------------------------------------------------------------------------
(* Properties. *)

\* Every variable stays in its type; scans stop one past the last slot.
TypeOK ==
  /\ lock \in [Slots -> Slots \cup {Null}]
  /\ state \in [Slots -> procstate]
  /\ parent \in [Slots -> Slots \cup {Null}]
  /\ chan \in [Slots -> Slots \cup {Null}]
  /\ killed \in [Slots -> BOOLEAN]
  /\ pid \in [Slots -> Nat]
  /\ nextpid \in Nat
  /\ pc \in [Slots -> Labels]
  /\ idx \in [Slots -> 1..(NPROC + 1)]
  /\ opar \in [Slots -> Slots \cup {Null}]
  /\ kids \in [Slots -> BOOLEAN]
  /\ target \in [Slots -> Nat]

\* What thread p has acquired and not yet released.
Holds(p, s) ==
  \/ s = p /\ pc[p] \in {"reparent", "reparentlock", "wait", "waitlock", "zombie"}
  \/ s = p /\ pc[p] \in {"forkret", "slept"} /\ state[p] = "RUNNING"
  \/ s = idx[p] /\ pc[p] = "copy"
  \/ s = opar[p] /\ pc[p] \in {"exitself", "reparent", "reparentlock"}

\* Acquires and releases pair up along every path of fork, exit and wait: a
\* lock is held by the thread that is inside its critical section and by
\* nobody else.  A thread that has just gone to sleep holds its own lock
\* until the scheduler releases it.
LockPairing ==
  \A p, s \in Slots :
    /\ Holds(p, s) => lock[s] = p
    /\ lock[s] = p => \/ Holds(p, s)
                      \/ s = p /\ pc[p] = "slept" /\ state[p] = "SLEEPING"

\* The p->lock that thread p is spinning on, if any.
Wants(p) ==
  IF state[p] # "RUNNING" THEN Null
  ELSE CASE pc[p] \in {"alloc", "reparentlock", "waitlock", "kill"} -> idx[p]
         [] pc[p] \in {"exitread", "exitself"} -> p
         [] pc[p] = "exitparent" -> opar[p]
         [] OTHER -> Null

Blocked(p, q) == Wants(p) \in Slots /\ lock[Wants(p)] = q

\* No set of threads waits for each other's locks: the parent-then-child order
\* of exit() and wait() (proc.c:374) and the unlocked reads of p->parent
\* (proc.c:311, 412) exist to avoid it.  A thread alone in the set would be
\* acquiring a lock it holds, on which acquire() panics.
NoLockCycle ==
  \A S \in (SUBSET Slots) \ {{}} : \E p \in S : \A q \in S : ~Blocked(p, q)

\* An exiting process whose original_parent is not its parent any more.
Stale(p) == pc[p] \in {"exitparent", "exitself", "reparent", "reparentlock"} /\ opar[p] # parent[p]

\* The comment proc.c:363-368 says that a stale original_parent is harmless; where
\* threads do wait for each other's locks, one of them is such a process.  No other
\* order in which fork(), exit(), wait() and kill() take the locks closes a circle.
OnlyStaleParentsDeadlock ==
  \A S \in (SUBSET Slots) \ {{}} :
    \E p \in S : Stale(p) \/ \A q \in S : ~Blocked(p, q)

\* Between the unlocked test of a child's parent and the acquire() that follows
\* it the parent cannot have changed (proc.c:316, 416).
ParentStable ==
  \A p \in Slots : pc[p] \in {"reparentlock", "waitlock"} => parent[idx[p]] = p

\* No process outlives its parent's entry: whoever is alive or waits to be
\* reaped has a parent that has neither exited nor been freed, because
\* reparent() gives all children away before their parent becomes a zombie.
ParentAlive ==
  \A q \in Slots \ {InitProc} :
    state[q] # "UNUSED" =>
      parent[q] \in Slots /\ state[parent[q]] \notin {"UNUSED", "ZOMBIE"}

\* p sleeps in wait() over a zombie of its own.
MissedZombie(p) ==
  state[p] = "SLEEPING" /\ \E q \in Slots : state[q] = "ZOMBIE" /\ parent[q] = p

\* wait() loses no wakeup from a child's exit() (proc.c:404): a process that
\* sleeps in wait() has no zombie child.
NoLostWakeup == \A p \in Slots \ {InitProc} : ~MissedZombie(p)


\* wait() frees a slot only when the zombie is off its kernel stack, which the
\* next process of that slot will use.
StackLeft == \A q \in Slots : state[q] = "UNUSED" => pc[q] = "none"

\* kill() reaches only the process that has the pid (proc.c:614): no process
\* starts its life killed, whatever kill() did to its slot before.
BornAlive ==
  [][\A q \in Slots :
       state[q] = "UNUSED" /\ state'[q] = "RUNNABLE" => ~killed'[q]]_vars

\* A killed process is gone in the end: it becomes a zombie or is reaped, even
\* if it was asleep in wait() or in the middle of another call.
KilledExits ==
  \A p \in Slots \ {InitProc} :
    killed[p] ~> state[p] \in {"ZOMBIE", "UNUSED"}

\* A wait() that has a zombie child to collect returns.
WaitCollects ==
  \A p \in Slots \ {InitProc} :
    (/\ pc[p] \in {"wait", "waitlock", "slept"}
     /\ \E q \in Slots : state[q] = "ZOMBIE" /\ parent[q] = p)
    ~> pc[p] = "user"

-----------------------------------------------------------------------------
(* The inductive invariant behind LockPairing, ParentStable, ParentAlive,   *)
(* NoLostWakeup and StackLeft (proved in ProcProofs).                        *)

Exiting == {"exitread", "exitparent", "exitself", "reparent", "reparentlock"}

\* What a thread's position says of its process's state.
PcState ==
  \A p \in Slots :
    /\ state[p] = "UNUSED" => pc[p] = "none" /\ parent[p] = Null
    /\ state[p] = "ZOMBIE" => pc[p] \in {"none", "zombie"}
    /\ state[p] = "SLEEPING" => pc[p] = "slept" /\ chan[p] = p
    /\ state[p] = "RUNNABLE" => pc[p] \in {"forkret", "slept"}
    /\ state[p] = "RUNNING" => pc[p] \notin {"none", "zombie"}
    /\ pc[p] = "copy" => idx[p] \in Slots /\ state[idx[p]] = "UNUSED"
    /\ pc[p] \in {"reparentlock", "waitlock"} => idx[p] \in Slots

\* Nobody is its own parent, initproc never exits, and an exiting thread has
\* read its parent unless it was given to initproc since.
ExitFacts ==
  \A p \in Slots :
    /\ parent[p] # p /\ opar[p] # p
    /\ pc[p] \in Exiting => p # InitProc
    /\ pc[p] \in Exiting \ {"exitread"} =>
         /\ opar[p] \in Slots
         /\ parent[p] # InitProc => opar[p] = parent[p]

InitAlive ==
  /\ state[InitProc] \notin {"UNUSED", "ZOMBIE"}
  /\ parent[InitProc] = Null

\* The part of the table that reparent() has passed holds no child of p.
ReparentScan ==
  \A p, s \in Slots :
    pc[p] \in {"reparent", "reparentlock"} /\ s < idx[p] => parent[s] # p

\* The part of the table that wait() has passed holds no zombie child of p.
WaitScan ==
  \A p, s \in Slots :
    /\ p # InitProc /\ pc[p] \in {"wait", "waitlock"}
    /\ s < idx[p] /\ parent[s] = p
    => state[s] # "ZOMBIE"

\* A process is younger than its parent, and initproc is the oldest of all: what
\* orders the locks, parent before child (OnlyStaleParentsDeadlock).
PidOrder ==
  /\ pid[InitProc] = PidOfInit
  /\ \A q \in Slots : pid[q] < nextpid
  /\ \A q \in Slots \ {InitProc} :
       state[q] # "UNUSED" => pid[q] > PidOfInit /\ pid[q] > pid[parent[q]]
  /\ \A p \in Slots :
       pc[p] = "copy" => pid[idx[p]] > PidOfInit /\ pid[idx[p]] > pid[p]

IInv ==
  /\ TypeOK
  /\ PcState
  /\ LockPairing
  /\ ExitFacts
  /\ InitAlive
  /\ ParentStable
  /\ ParentAlive
  /\ ReparentScan
  /\ WaitScan
  /\ NoLostWakeup

=============================================================================
