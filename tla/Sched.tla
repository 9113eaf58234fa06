------------------------------- MODULE Sched -------------------------------
(***************************************************************************)
(* Harts, spinlocks, the scheduler and sleep/wakeup (xv6-labs/kernel/      *)
(* spinlock.c, proc.c, trap.c): how a kernel thread gives up its hart and  *)
(* comes back, perhaps on another one, and what becomes of the locks and   *)
(* of the interrupt-enable state on the way.                               *)
(*                                                                         *)
(* The threads in Waiters run the consumer's side of a condition, those in *)
(* Wakers the producer's side, the way the pipe, the disk, the console and *)
(* the log use sleep() and wakeup():                                       *)
(*     acquire(lk); while(!ready) sleep(chan, lk); ready = 0; release(lk)  *)
(*     acquire(lk); ready = 1; wakeup(chan); release(lk)                   *)
(* A timer interrupt makes a thread yield() wherever interrupts are on.    *)
(***************************************************************************)
EXTENDS Integers, FiniteSets

CONSTANTS Cpus,      \* the harts (NCPU of them)
          NPROC,     \* slots in the process table, all in use
          Waiters    \* the slots whose thread waits for the condition

ASSUME NPROCAssumption == NPROC \in Nat \ {0}
ASSUME WaitersAssumption == Waiters \subseteq 1..NPROC
ASSUME CpusAssumption == "nocpu" \notin Cpus   \* NoCpu is no hart

Procs == 1..NPROC
NoCpu == "nocpu"
NoProc == 0
Scheduler == 0           \* the scheduler's stack of a hart, as opposed to p's

VARIABLES
  plock,    \* plock[p]: the hart that holds proc[p].lock (lk->cpu), or NoCpu
  lk,       \* the hart that holds the condition's lock, or NoCpu
  state,    \* proc[p].state
  chan,     \* whether proc[p].chan is the condition's channel
  noff,     \* cpu->noff: depth of push_off() nesting
  intena,   \* cpu->intena: were interrupts on before the outermost push_off()?
  sie,      \* the hart's interrupt-enable bit
  cproc,    \* cpu->proc
  stack,    \* the stack the hart executes on: Scheduler or a thread's
  spc,      \* where the scheduler loop of the hart is
  scan,     \* the slot the scheduler loop looks at
  pc,       \* where the thread is
  idx,      \* the slot the loop of wakeup() looks at
  saved,    \* the local variable intena of sched()
  ready     \* the condition

vars == <<plock, lk, state, chan, noff, intena, sie, cproc, stack, spc, scan,
          pc, idx, saved, ready>>

Labels == {"forkret", "run", "spin", "check", "sleepspin", "sleeprel",
           "sleep", "sched", "slept", "set", "wake", "wakespin", "trap",
           "yieldspin", "ysched", "yielded", "trapret", "userret"}

On(c, p, l) == stack[c] = p /\ pc[p] = l
Goto(p, l) == pc' = [pc EXCEPT ![p] = l]

\* push_off(): interrupts off; the outermost call remembers how they were.
push_off(c) ==
  /\ noff' = [noff EXCEPT ![c] = @ + 1]
  /\ intena' = [intena EXCEPT ![c] = IF noff[c] = 0 THEN sie[c] ELSE @]
  /\ sie' = [sie EXCEPT ![c] = FALSE]

\* pop_off(): the outermost call puts them back.
pop_off(c) ==
  /\ noff' = [noff EXCEPT ![c] = @ - 1]
  /\ sie' = [sie EXCEPT ![c] = @ \/ (noff[c] = 1 /\ intena[c])]
  /\ UNCHANGED intena

hart == <<noff, intena, sie>>
switch == <<cproc, stack, spc, scan>>

Init ==
  /\ plock = [p \in Procs |-> NoCpu]
  /\ lk = NoCpu
  /\ state = [p \in Procs |-> "RUNNABLE"]
  /\ chan = [p \in Procs |-> FALSE]
  /\ noff = [c \in Cpus |-> 0]
  /\ intena = [c \in Cpus |-> FALSE]
  /\ sie = [c \in Cpus |-> TRUE]
  /\ cproc = [c \in Cpus |-> NoProc]
  /\ stack = [c \in Cpus |-> Scheduler]
  /\ spc = [c \in Cpus |-> "acquire"]
  /\ scan = [c \in Cpus |-> 1]
  /\ pc = [p \in Procs |-> "forkret"]
  /\ idx = [p \in Procs |-> 1]
  /\ saved = [p \in Procs |-> FALSE]
  /\ ready = FALSE

-----------------------------------------------------------------------------
(* scheduler(). *)

\* intr_on() at the top of the endless loop: a thread may have left the hart
\* with its interrupts off.
SchedTop(c) ==
  /\ stack[c] = Scheduler /\ spc[c] = "top"
  /\ sie' = [sie EXCEPT ![c] = TRUE]
  /\ spc' = [spc EXCEPT ![c] = "acquire"]
  /\ scan' = [scan EXCEPT ![c] = 1]
  /\ UNCHANGED <<plock, lk, state, chan, noff, intena, cproc, stack,
                 pc, idx, saved, ready>>

\* acquire(&p->lock), up to its spinning.
SchedAcquire(c) ==
  /\ stack[c] = Scheduler /\ spc[c] = "acquire"
  /\ push_off(c)
  /\ spc' = [spc EXCEPT ![c] = "spin"]
  /\ UNCHANGED <<plock, lk, state, chan, cproc, stack, scan, pc, idx, saved, ready>>

\* The loop goes on with the next slot.
SchedNext(c) ==
  IF scan[c] = NPROC
  THEN spc' = [spc EXCEPT ![c] = "top"] /\ UNCHANGED scan
  ELSE /\ spc' = [spc EXCEPT ![c] = "acquire"]
       /\ scan' = [scan EXCEPT ![c] = @ + 1]

SchedSkip(c) ==
  /\ stack[c] = Scheduler /\ spc[c] = "spin"
  /\ plock[scan[c]] = NoCpu /\ state[scan[c]] # "RUNNABLE"
  /\ pop_off(c)
  /\ SchedNext(c)
  /\ UNCHANGED <<plock, lk, state, chan, cproc, stack, pc, idx, saved, ready>>

\* Switch to the chosen thread, with its lock held.
SchedRun(c) ==
  /\ stack[c] = Scheduler /\ spc[c] = "spin"
  /\ plock[scan[c]] = NoCpu /\ state[scan[c]] = "RUNNABLE"
  /\ plock' = [plock EXCEPT ![scan[c]] = c]
  /\ state' = [state EXCEPT ![scan[c]] = "RUNNING"]
  /\ cproc' = [cproc EXCEPT ![c] = scan[c]]
  /\ stack' = [stack EXCEPT ![c] = scan[c]]
  /\ spc' = [spc EXCEPT ![c] = "back"]
  /\ UNCHANGED <<lk, chan, hart, scan, pc, idx, saved, ready>>

\* Mutant of SchedBack: the lock is dropped without pop_off().
SchedBackNoPop(c) ==
  /\ stack[c] = Scheduler /\ spc[c] = "back"
  /\ cproc' = [cproc EXCEPT ![c] = NoProc]
  /\ plock' = [plock EXCEPT ![scan[c]] = NoCpu]
  /\ SchedNext(c)
  /\ UNCHANGED <<lk, state, chan, hart, stack, pc, idx, saved, ready>>

\* Mutant of SchedBack: after each thread the loop starts over at proc[0].
SchedBackRestart(c) ==
  /\ stack[c] = Scheduler /\ spc[c] = "back"
  /\ cproc' = [cproc EXCEPT ![c] = NoProc]
  /\ plock' = [plock EXCEPT ![scan[c]] = NoCpu]
  /\ pop_off(c)
  /\ spc' = [spc EXCEPT ![c] = "top"]
  /\ UNCHANGED <<lk, state, chan, scan, stack, pc, idx, saved, ready>>

\* The thread has switched back: release the lock it came with.
SchedBack(c) ==
  /\ stack[c] = Scheduler /\ spc[c] = "back"
  /\ cproc' = [cproc EXCEPT ![c] = NoProc]
  /\ plock' = [plock EXCEPT ![scan[c]] = NoCpu]
  /\ pop_off(c)
  /\ SchedNext(c)
  /\ UNCHANGED <<lk, state, chan, stack, pc, idx, saved, ready>>

-----------------------------------------------------------------------------
(* sched() and the way back from it.  intena belongs to the thread: it is    *)
(* saved before the switch and put back on whatever hart the thread resumes. *)

\* The checks of sched() that end in a panic.
SchedAllowed(c, p) ==
  plock[p] = c /\ noff[c] = 1 /\ state[p] # "RUNNING" /\ ~sie[c]

\* sched() up to its swtch(), for a thread that continues at l.
sched(c, p, l) ==
  /\ saved' = [saved EXCEPT ![p] = intena[c]]
  /\ stack' = [stack EXCEPT ![c] = Scheduler]
  /\ Goto(p, l)
  /\ UNCHANGED <<plock, lk, state, chan, hart, cproc, spc, scan, idx, ready>>

\* Mutant of resume: intena is left as the last thread of the hart set it.
resumeNoIntena(c, p) ==
  /\ plock' = [plock EXCEPT ![p] = NoCpu]
  /\ noff' = [noff EXCEPT ![c] = @ - 1]
  /\ sie' = [sie EXCEPT ![c] = noff[c] = 1 /\ intena[c]]
  /\ UNCHANGED intena

\* sched() after its swtch(), and the release(&p->lock) that follows in both
\* yield() and sleep().
resume(c, p) ==
  /\ plock' = [plock EXCEPT ![p] = NoCpu]
  /\ noff' = [noff EXCEPT ![c] = @ - 1]
  /\ intena' = [intena EXCEPT ![c] = saved[p]]
  /\ sie' = [sie EXCEPT ![c] = noff[c] = 1 /\ saved[p]]

\* A new thread starts in forkret(), which releases p->lock and goes on to
\* usertrapret(); interrupts may be off, as the last thread left the hart.
forkret(c, p) ==
  /\ On(c, p, "forkret")
  /\ plock' = [plock EXCEPT ![p] = NoCpu]
  /\ pop_off(c)
  /\ Goto(p, "userret")
  /\ UNCHANGED <<lk, state, chan, switch, idx, saved, ready>>

-----------------------------------------------------------------------------
(* The condition: acquire(lk) by both sides. *)

AcquireLk(c, p) ==
  /\ On(c, p, "run")
  /\ push_off(c)
  /\ Goto(p, "spin")
  /\ UNCHANGED <<plock, lk, state, chan, switch, idx, saved, ready>>

SpinLk(c, p) ==
  /\ On(c, p, "spin") /\ lk = NoCpu
  /\ lk' = c
  /\ Goto(p, IF p \in Waiters THEN "check" ELSE "set")
  /\ UNCHANGED <<plock, state, chan, hart, switch, idx, saved, ready>>

\* The waiter finds the condition true, consumes it and releases lk.
Consume(c, p) ==
  /\ On(c, p, "check") /\ ready
  /\ ready' = FALSE
  /\ lk' = NoCpu
  /\ pop_off(c)
  /\ Goto(p, "run")
  /\ UNCHANGED <<plock, state, chan, switch, idx, saved>>

-----------------------------------------------------------------------------
(* sleep(chan, lk). *)

\* Mutant of SleepAcquire: lk is released before p->lock is acquired.
SleepAcquireLate(c, p) ==
  /\ On(c, p, "check") /\ ~ready
  /\ lk' = NoCpu
  /\ Goto(p, "sleepspin")
  /\ UNCHANGED <<plock, state, chan, hart, switch, idx, saved, ready>>

\* acquire(&p->lock), up to its spinning.
SleepAcquire(c, p) ==
  /\ On(c, p, "check") /\ ~ready
  /\ push_off(c)
  /\ Goto(p, "sleepspin")
  /\ UNCHANGED <<plock, lk, state, chan, switch, idx, saved, ready>>

SleepSpin(c, p) ==
  /\ On(c, p, "sleepspin") /\ plock[p] = NoCpu
  /\ plock' = [plock EXCEPT ![p] = c]
  /\ Goto(p, "sleeprel")
  /\ UNCHANGED <<lk, state, chan, hart, switch, idx, saved, ready>>

\* Mutant of SleepRelease: lk stays locked over the switch.
SleepReleaseKeeps(c, p) ==
  /\ On(c, p, "sleeprel")
  /\ Goto(p, "sleep")
  /\ UNCHANGED <<plock, lk, state, chan, hart, switch, idx, saved, ready>>

SleepRelease(c, p) ==
  /\ On(c, p, "sleeprel")
  /\ lk' = NoCpu
  /\ pop_off(c)
  /\ Goto(p, "sleep")
  /\ UNCHANGED <<plock, state, chan, switch, idx, saved, ready>>

SleepMark(c, p) ==
  /\ On(c, p, "sleep")
  /\ chan' = [chan EXCEPT ![p] = TRUE]
  /\ state' = [state EXCEPT ![p] = "SLEEPING"]
  /\ Goto(p, "sched")
  /\ UNCHANGED <<plock, lk, hart, switch, idx, saved, ready>>

SleepSched(c, p) == On(c, p, "sched") /\ sched(c, p, "slept")

\* Back on a hart: p->chan = 0, release(&p->lock), and acquire(lk) again.
SleepWoken(c, p) ==
  /\ On(c, p, "slept")
  /\ chan' = [chan EXCEPT ![p] = FALSE]
  /\ resume(c, p)
  /\ Goto(p, "run")
  /\ UNCHANGED <<lk, state, switch, idx, saved, ready>>

-----------------------------------------------------------------------------
(* wakeup(chan), called with lk held. *)

SetReady(c, p) ==
  /\ On(c, p, "set")
  /\ ready' = TRUE
  /\ idx' = [idx EXCEPT ![p] = 1]
  /\ Goto(p, "wake")
  /\ UNCHANGED <<plock, lk, state, chan, hart, switch, saved>>

WakeAcquire(c, p) ==
  /\ On(c, p, "wake") /\ idx[p] <= NPROC
  /\ push_off(c)
  /\ Goto(p, "wakespin")
  /\ UNCHANGED <<plock, lk, state, chan, switch, idx, saved, ready>>

\* Mutant of WakeOne: the slot's lock is dropped without pop_off().
WakeOneNoPop(c, p) ==
  /\ On(c, p, "wakespin") /\ plock[idx[p]] = NoCpu
  /\ state' = [state EXCEPT ![idx[p]] =
                 IF @ = "SLEEPING" /\ chan[idx[p]] THEN "RUNNABLE" ELSE @]
  /\ idx' = [idx EXCEPT ![p] = @ + 1]
  /\ Goto(p, "wake")
  /\ UNCHANGED <<plock, lk, chan, hart, switch, saved, ready>>

\* The critical section of one slot: make it RUNNABLE if it sleeps on chan.
WakeOne(c, p) ==
  /\ On(c, p, "wakespin") /\ plock[idx[p]] = NoCpu
  /\ state' = [state EXCEPT ![idx[p]] =
                 IF @ = "SLEEPING" /\ chan[idx[p]] THEN "RUNNABLE" ELSE @]
  /\ pop_off(c)
  /\ idx' = [idx EXCEPT ![p] = @ + 1]
  /\ Goto(p, "wake")
  /\ UNCHANGED <<plock, lk, chan, switch, saved, ready>>

\* wakeup() returns and the waker releases lk.
WakeDone(c, p) ==
  /\ On(c, p, "wake") /\ idx[p] = NPROC + 1
  /\ lk' = NoCpu
  /\ pop_off(c)
  /\ idx' = [idx EXCEPT ![p] = 1]
  /\ Goto(p, "run")
  /\ UNCHANGED <<plock, state, chan, switch, saved, ready>>

-----------------------------------------------------------------------------
(* A timer interrupt: kerneltrap() or usertrap() calls yield(). *)

TimerTrap(c, p) ==
  /\ On(c, p, "run") /\ sie[c]
  /\ sie' = [sie EXCEPT ![c] = FALSE]
  /\ Goto(p, "trap")
  /\ UNCHANGED <<plock, lk, state, chan, noff, intena, switch, idx, saved, ready>>

YieldAcquire(c, p) ==
  /\ On(c, p, "trap")
  /\ push_off(c)
  /\ Goto(p, "yieldspin")
  /\ UNCHANGED <<plock, lk, state, chan, switch, idx, saved, ready>>

\* Mutant of YieldSpin: p->lock is released before the switch.
YieldSpinUnlocked(c, p) ==
  /\ On(c, p, "yieldspin") /\ plock[p] = NoCpu
  /\ state' = [state EXCEPT ![p] = "RUNNABLE"]
  /\ Goto(p, "ysched")
  /\ UNCHANGED <<plock, lk, chan, hart, switch, idx, saved, ready>>

YieldSpin(c, p) ==
  /\ On(c, p, "yieldspin") /\ plock[p] = NoCpu
  /\ plock' = [plock EXCEPT ![p] = c]
  /\ state' = [state EXCEPT ![p] = "RUNNABLE"]
  /\ Goto(p, "ysched")
  /\ UNCHANGED <<lk, chan, hart, switch, idx, saved, ready>>

YieldSched(c, p) == On(c, p, "ysched") /\ sched(c, p, "yielded")

YieldResume(c, p) ==
  /\ On(c, p, "yielded")
  /\ resume(c, p)
  /\ Goto(p, "trapret")
  /\ UNCHANGED <<lk, state, chan, switch, idx, saved, ready>>

\* sret, to the interrupted code or to user space: interrupts are on.
TrapReturn(c, p) ==
  /\ On(c, p, "trapret") \/ On(c, p, "userret")
  /\ sie' = [sie EXCEPT ![c] = TRUE]
  /\ Goto(p, "run")
  /\ UNCHANGED <<plock, lk, state, chan, noff, intena, switch, idx, saved, ready>>

-----------------------------------------------------------------------------
Loop(c) == \/ SchedTop(c) \/ SchedAcquire(c) \/ SchedSkip(c)
           \/ SchedRun(c) \/ SchedBack(c)

Thread(c, p) ==
  \/ forkret(c, p) \/ AcquireLk(c, p) \/ SpinLk(c, p) \/ Consume(c, p)
  \/ SleepAcquire(c, p) \/ SleepSpin(c, p) \/ SleepRelease(c, p)
  \/ SleepMark(c, p) \/ SleepSched(c, p) \/ SleepWoken(c, p)
  \/ SetReady(c, p) \/ WakeAcquire(c, p) \/ WakeOne(c, p) \/ WakeDone(c, p)
  \/ YieldAcquire(c, p) \/ YieldSpin(c, p) \/ YieldSched(c, p)
  \/ YieldResume(c, p) \/ TrapReturn(c, p)

Timer(c) == \E p \in Procs : TimerTrap(c, p)
Hart(c) == Loop(c) \/ \E p \in Procs : Thread(c, p)

Next == \E c \in Cpus : Hart(c) \/ Timer(c)

Spec == Init /\ [][Next]_vars

\* A hart keeps executing, obtains a spinlock that is released again and
\* again, and is interrupted by its timer time and again.
FairSpec == Spec /\ \A c \in Cpus : SF_vars(Hart(c)) /\ SF_vars(Timer(c))

-----------------------------------------------------------------------------
(* Properties. *)

TypeOK ==
  /\ plock \in [Procs -> Cpus \cup {NoCpu}]
  /\ lk \in Cpus \cup {NoCpu}
  /\ state \in [Procs -> {"SLEEPING", "RUNNABLE", "RUNNING"}]
  /\ chan \in [Procs -> BOOLEAN]
  /\ noff \in [Cpus -> 0..2]
  /\ intena \in [Cpus -> BOOLEAN]
  /\ sie \in [Cpus -> BOOLEAN]
  /\ cproc \in [Cpus -> Procs \cup {NoProc}]
  /\ stack \in [Cpus -> Procs \cup {Scheduler}]
  /\ spc \in [Cpus -> {"top", "acquire", "spin", "back"}]
  /\ scan \in [Cpus -> Procs]
  /\ pc \in [Procs -> Labels]
  /\ idx \in [Procs -> 1..(NPROC + 1)]
  /\ saved \in [Procs -> BOOLEAN]
  /\ ready \in BOOLEAN

\* A kernel stack is used by one hart at a time, and a hart that is on the
\* stack of a thread knows whose it is (myproc()): between the moment a thread
\* makes itself RUNNABLE or SLEEPING and its swtch() only p->lock keeps another
\* hart from running it.
OneStackOneHart ==
  /\ \A c, d \in Cpus : c # d /\ stack[c] # Scheduler => stack[c] # stack[d]
  /\ \A c \in Cpus : stack[c] # Scheduler => cproc[c] = stack[c]

\* The panics of sched(): it is called with p->lock and no other lock, in a
\* state other than RUNNING, with interrupts off (proc.c:493, 506-513).
SchedNeverPanics ==
  \A c \in Cpus, p \in Procs :
    On(c, p, "sched") \/ On(c, p, "ysched") => SchedAllowed(c, p)

\* cpu->noff counts the spinlocks the hart holds or spins on, in whichever
\* thread it acquired them, and interrupts are off as long as there is one.
Spinning(c) == IF stack[c] = Scheduler THEN spc[c] = "spin"
               ELSE pc[stack[c]] \in {"spin", "sleepspin", "wakespin", "yieldspin"}

NoffCountsLocks ==
  \A c \in Cpus :
    /\ noff[c] = Cardinality({p \in Procs : plock[p] = c})
                 + (IF lk = c THEN 1 ELSE 0) + (IF Spinning(c) THEN 1 ELSE 0)
    /\ noff[c] > 0 => ~sie[c]

\* push_off() and pop_off() nest per thread although the counters are the
\* hart's (proc.c:493-499): a thread that holds no lock has its interrupts on
\* in a system call and off in a trap handler, whatever harts it went through.
IntrFollowsThread ==
  \A c \in Cpus, p \in Procs :
    /\ On(c, p, "run") => sie[c]
    /\ pc[p] \in {"trap", "trapret"} /\ stack[c] = p => ~sie[c]

\* What push_off() and pop_off() keep for a hart stays right for its threads.
InterruptsFollowLocks == NoffCountsLocks /\ IntrFollowsThread

\* sleep() misses no wakeup() (proc.c:559-564): where the condition holds and a
\* thread sleeps for it, the loop of a wakeup() has yet to reach that thread.
NoLostWakeup ==
  \A p \in Procs :
    state[p] = "SLEEPING" /\ ready =>
      \E q \in Procs : pc[q] \in {"wake", "wakespin"} /\ idx[q] <= p

\* A RUNNABLE thread gets a hart: the loop of scheduler() passes over no slot
\* for ever and every thread is preempted.
RunnableRuns ==
  \A p \in Procs : state[p] = "RUNNABLE" ~> state[p] = "RUNNING"

=============================================================================
