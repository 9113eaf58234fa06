----------------------------- MODULE SchedProofs -----------------------------
(***************************************************************************)
(* Proofs about Sched, for any harts, threads and waiters.  Where a hart and  *)
(* its thread are says which locks the hart holds, how deep its push_off()s   *)
(* nest and what they are to restore; from that follow the properties.        *)
(***************************************************************************)
EXTENDS Sched, FiniteSetTheorems, TLAPS

\* Where the thread's code holds its own p->lock, the condition's lock, or both, or
\* spins on one of them.
OwnLocked == {"forkret", "sleeprel", "sleep", "sched", "slept", "ysched", "yielded"}
LkLocked == {"check", "sleepspin", "sleeprel", "set", "wake", "wakespin"}
Spins == {"spin", "sleepspin", "wakespin", "yieldspin"}
Away == {"forkret", "slept", "yielded"}    \* a thread that no hart executes

\* How many push_off()s of a thread at l are open.
Nesting(l) == IF l \in {"run", "trap", "trapret", "userret"} THEN 0
              ELSE IF l \in {"sleepspin", "sleeprel", "wakespin"} THEN 2 ELSE 1

\* A hart whose scheduler has switched to a thread stays at "back" until it returns, and
\* nobody else executes that thread.
Placed ==
  /\ \A c \in Cpus : stack[c] # Scheduler =>
       cproc[c] = stack[c] /\ spc[c] = "back" /\ scan[c] = stack[c]
  /\ \A c, d \in Cpus : c # d /\ spc[c] = "back" => stack[d] # scan[c]

\* Who holds which lock.
Holds(c, p) == spc[c] = "back" /\ scan[c] = p /\ (stack[c] = p => pc[p] \in OwnLocked)
OwnRight == \A c \in Cpus, p \in Procs : plock[p] = c <=> Holds(c, p)
LkRight(c) == lk = c <=> stack[c] # Scheduler /\ pc[stack[c]] \in LkLocked
Locked == OwnRight /\ \A c \in Cpus : LkRight(c)

\* What a thread's place says of its state.
StateFits(p) ==
  /\ (\A c \in Cpus : stack[c] # p) => pc[p] \in Away
  /\ state[p] = "RUNNING" <=>
       (\E c \in Cpus : stack[c] = p) /\ pc[p] \notin {"sched", "ysched"}
  /\ state[p] = "SLEEPING" => pc[p] \in {"sched", "slept"}
  /\ pc[p] \in {"sched", "slept"} => chan[p]
  /\ pc[p] = "wakespin" => idx[p] \in Procs
InState == \A p \in Procs : StateFits(p)

\* How deep push_off()s nest on a hart, and what the outermost is to restore: to a
\* thread that took its first lock at "run", interrupts on.
DepthAt(c) ==
  noff[c] = IF stack[c] = Scheduler THEN (IF spc[c] \in {"spin", "back"} THEN 1 ELSE 0)
            ELSE Nesting(pc[stack[c]])
Depth == \A c \in Cpus : DepthAt(c)
RegistersRight(c) ==
  /\ noff[c] > 0 => ~sie[c]
  /\ stack[c] # Scheduler =>
       /\ pc[stack[c]] = "run" => sie[c]
       /\ pc[stack[c]] \in {"trap", "trapret"} => ~sie[c]
       /\ pc[stack[c]] \in {"yieldspin", "ysched"} => ~intena[c]
       /\ pc[stack[c]] \in {"spin", "check", "sleepspin", "sleeprel", "sleep", "sched",
                            "set", "wake", "wakespin"} => intena[c]
SavedRight ==
  \A p \in Procs : (pc[p] = "slept" => saved[p]) /\ (pc[p] = "yielded" => ~saved[p])
Restored == (\A c \in Cpus : RegistersRight(c)) /\ SavedRight

\* A thread that goes to sleep has found the condition false under its lock, and may miss
\* only what a wakeup() that has not come to it will make up for.
Coming(p) == \E q \in Procs : pc[q] \in {"wake", "wakespin"} /\ idx[q] <= p
Waking ==
  /\ \A p \in Procs : pc[p] \in {"sleepspin", "sleeprel"} => ~ready
  /\ \A p \in Procs : (pc[p] = "sleep" \/ state[p] = "SLEEPING") /\ ready => Coming(p)

SchedInv == TypeOK /\ Placed /\ Locked /\ InState /\ Depth /\ Restored /\ Waking

\* A step of hart c, in its scheduler or in the thread p.
Step(c, p) == Loop(c) \/ Thread(c, p) \/ TimerTrap(c, p)

\* What a hart's step leaves to the other harts: their registers, and the places of
\* the threads that they execute.
OthersKept(c) ==
  \A d \in Cpus \ {c} :
    /\ noff'[d] = noff[d] /\ intena'[d] = intena[d] /\ sie'[d] = sie[d]
    /\ cproc'[d] = cproc[d] /\ stack'[d] = stack[d]
    /\ spc'[d] = spc[d] /\ scan'[d] = scan[d]
    /\ stack[d] # Scheduler => pc'[stack[d]] = pc[stack[d]]

\* TypeOK, but for the range of noff, which is for Depth to say.
HartTypes ==
  noff \in [Cpus -> Int] /\ intena \in [Cpus -> BOOLEAN] /\ sie \in [Cpus -> BOOLEAN]
SwitchTypes ==
  /\ cproc \in [Cpus -> Procs \cup {NoProc}] /\ stack \in [Cpus -> Procs \cup {Scheduler}]
  /\ spc \in [Cpus -> {"top", "acquire", "spin", "back"}] /\ scan \in [Cpus -> Procs]
LockTypes == plock \in [Procs -> Cpus \cup {NoCpu}] /\ lk \in Cpus \cup {NoCpu}
ProcTypes ==
  state \in [Procs -> {"SLEEPING", "RUNNABLE", "RUNNING"}] /\ chan \in [Procs -> BOOLEAN]
ThreadTypes ==
  /\ pc \in [Procs -> Labels] /\ idx \in [Procs -> 1..(NPROC + 1)]
  /\ saved \in [Procs -> BOOLEAN] /\ ready \in BOOLEAN

\* The scheduler's loop stays within the table.
LEMMA NextInTable ==
  ASSUME TypeOK, NEW c \in Cpus, SchedNext(c)
  PROVE  /\ spc' \in [Cpus -> {"top", "acquire", "spin", "back"}]
         /\ scan' \in [Cpus -> Procs]
         /\ spc'[c] \in {"top", "acquire"}
         /\ \A d \in Cpus \ {c} : spc'[d] = spc[d] /\ scan'[d] = scan[d]
<1>1. CASE scan[c] = NPROC
  BY <1>1 DEF SchedNext, TypeOK
<1>2. CASE scan[c] # NPROC
  <2>1. scan[c] \in Procs /\ scan[c] + 1 \in Procs
    BY <1>2, NPROCAssumption DEF TypeOK, Procs
  <2>2. QED
    BY <1>2, <2>1 DEF SchedNext, TypeOK
<1>3. QED
  BY <1>1, <1>2

\* Each step keeps the types of a hart's registers,
LEMMA HartTypesKept ==
  ASSUME SchedInv, NEW c \in Cpus, NEW p \in Procs, Step(c, p)
  PROVE  HartTypes'
<1> TypeOK
  BY DEF SchedInv
<1>1. CASE \/ SchedRun(c) \/ SpinLk(c, p) \/ SleepSpin(c, p) \/ SleepMark(c, p)
           \/ SleepSched(c, p) \/ SetReady(c, p) \/ YieldSpin(c, p) \/ YieldSched(c, p)
  BY <1>1 DEF SchedRun, hart, SpinLk, On, Goto, switch, SleepSpin, SleepMark, SleepSched,
              sched, SetReady, YieldSpin, YieldSched, TypeOK, HartTypes
<1>2. CASE SchedTop(c)
  BY <1>2 DEF SchedTop, TypeOK, HartTypes
<1>3. CASE SchedAcquire(c)
  BY <1>3 DEF SchedAcquire, push_off, TypeOK, HartTypes
<1>4. CASE SchedSkip(c)
  BY <1>4 DEF SchedSkip, pop_off, SchedNext, TypeOK, HartTypes
<1>5. CASE SchedBack(c)
  BY <1>5 DEF SchedBack, pop_off, SchedNext, TypeOK, HartTypes
<1>6. CASE forkret(c, p)
  BY <1>6 DEF forkret, pop_off, On, Goto, switch, TypeOK, HartTypes
<1>7. CASE AcquireLk(c, p)
  BY <1>7 DEF AcquireLk, push_off, On, Goto, switch, TypeOK, HartTypes
<1>8. CASE Consume(c, p)
  BY <1>8 DEF Consume, pop_off, On, Goto, switch, TypeOK, HartTypes
<1>9. CASE SleepAcquire(c, p)
  BY <1>9 DEF SleepAcquire, push_off, On, Goto, switch, TypeOK, HartTypes
<1>10. CASE SleepRelease(c, p)
  BY <1>10 DEF SleepRelease, pop_off, On, Goto, switch, TypeOK, HartTypes
<1>11. CASE SleepWoken(c, p)
  BY <1>11 DEF SleepWoken, resume, On, Goto, switch, TypeOK, HartTypes
<1>12. CASE WakeAcquire(c, p)
  BY <1>12 DEF WakeAcquire, push_off, On, Goto, switch, TypeOK, HartTypes
<1>13. CASE WakeOne(c, p)
  BY <1>13 DEF WakeOne, pop_off, On, Goto, switch, TypeOK, HartTypes
<1>14. CASE WakeDone(c, p)
  BY <1>14 DEF WakeDone, pop_off, On, Goto, switch, TypeOK, HartTypes
<1>15. CASE TimerTrap(c, p)
  BY <1>15 DEF TimerTrap, On, Goto, switch, TypeOK, HartTypes
<1>16. CASE YieldAcquire(c, p)
  BY <1>16 DEF YieldAcquire, push_off, On, Goto, switch, TypeOK, HartTypes
<1>17. CASE YieldResume(c, p)
  BY <1>17 DEF YieldResume, resume, On, Goto, switch, TypeOK, HartTypes
<1>18. CASE TrapReturn(c, p)
  BY <1>18 DEF TrapReturn, On, Goto, switch, TypeOK, HartTypes
<1>19. QED
  BY <1>1, <1>2, <1>3, <1>4, <1>5, <1>6, <1>7, <1>8, <1>9, <1>10, <1>11, <1>12, <1>13,
       <1>14, <1>15, <1>16, <1>17, <1>18 DEF Step, Loop, Thread

\* of what it executes,
LEMMA SwitchTypesKept ==
  ASSUME SchedInv, NEW c \in Cpus, NEW p \in Procs, Step(c, p)
  PROVE  SwitchTypes'
<1> TypeOK
  BY DEF SchedInv
<1>1. CASE \/ forkret(c, p) \/ AcquireLk(c, p) \/ SpinLk(c, p) \/ Consume(c, p)
           \/ SleepAcquire(c, p) \/ SleepSpin(c, p) \/ SleepRelease(c, p) \/ SleepMark(c, p)
           \/ SleepWoken(c, p) \/ SetReady(c, p) \/ WakeAcquire(c, p) \/ WakeOne(c, p)
           \/ WakeDone(c, p) \/ TimerTrap(c, p) \/ YieldAcquire(c, p) \/ YieldSpin(c, p)
           \/ YieldResume(c, p) \/ TrapReturn(c, p)
  BY <1>1 DEF forkret, pop_off, On, Goto, switch, AcquireLk, push_off, SpinLk, hart,
              Consume, SleepAcquire, SleepSpin, SleepRelease, SleepMark, SleepWoken, resume,
              SetReady, WakeAcquire, WakeOne, WakeDone, TimerTrap, YieldAcquire, YieldSpin,
              YieldResume, TrapReturn, TypeOK, SwitchTypes, Procs, Scheduler
<1>2. CASE SchedTop(c)
  BY <1>2, NPROCAssumption DEF SchedTop, TypeOK, SwitchTypes, Procs, Scheduler
<1>3. CASE SchedAcquire(c)
  BY <1>3 DEF SchedAcquire, push_off, TypeOK, SwitchTypes, Procs, Scheduler
<1>4. CASE SchedSkip(c)
  BY <1>4, NextInTable DEF SchedSkip, pop_off, TypeOK, SwitchTypes, Procs, Scheduler
<1>5. CASE SchedRun(c)
  BY <1>5 DEF SchedRun, hart, TypeOK, SwitchTypes, Procs, Scheduler
<1>6. CASE SchedBack(c)
  BY <1>6, NextInTable DEF SchedBack, pop_off, TypeOK, SwitchTypes, Procs, Scheduler
<1>7. CASE SleepSched(c, p)
  BY <1>7 DEF SleepSched, sched, On, Goto, hart, TypeOK, SwitchTypes, Procs, Scheduler
<1>8. CASE YieldSched(c, p)
  BY <1>8 DEF YieldSched, sched, On, Goto, hart, TypeOK, SwitchTypes, Procs, Scheduler
<1>9. QED
  BY <1>1, <1>2, <1>3, <1>4, <1>5, <1>6, <1>7, <1>8 DEF Step, Loop, Thread

\* of the locks,
LEMMA LockTypesKept ==
  ASSUME SchedInv, NEW c \in Cpus, NEW p \in Procs, Step(c, p)
  PROVE  LockTypes'
<1> TypeOK
  BY DEF SchedInv
<1>1. CASE \/ SchedTop(c) \/ SchedAcquire(c) \/ SchedSkip(c) \/ AcquireLk(c, p)
           \/ SleepAcquire(c, p) \/ SleepMark(c, p) \/ SleepSched(c, p) \/ SetReady(c, p)
           \/ WakeAcquire(c, p) \/ WakeOne(c, p) \/ TimerTrap(c, p) \/ YieldAcquire(c, p)
           \/ YieldSched(c, p) \/ TrapReturn(c, p)
  BY <1>1 DEF SchedTop, SchedAcquire, push_off, SchedSkip, pop_off, SchedNext, AcquireLk,
              On, Goto, switch, SleepAcquire, SleepMark, hart, SleepSched, sched, SetReady,
              WakeAcquire, WakeOne, TimerTrap, YieldAcquire, YieldSched, TrapReturn, TypeOK,
              LockTypes
<1>2. CASE SchedRun(c)
  BY <1>2 DEF SchedRun, hart, TypeOK, LockTypes
<1>3. CASE SchedBack(c)
  BY <1>3 DEF SchedBack, pop_off, SchedNext, TypeOK, LockTypes
<1>4. CASE forkret(c, p)
  BY <1>4 DEF forkret, pop_off, On, Goto, switch, TypeOK, LockTypes
<1>5. CASE SpinLk(c, p)
  BY <1>5 DEF SpinLk, On, Goto, hart, switch, TypeOK, LockTypes
<1>6. CASE Consume(c, p)
  BY <1>6 DEF Consume, pop_off, On, Goto, switch, TypeOK, LockTypes
<1>7. CASE SleepSpin(c, p)
  BY <1>7 DEF SleepSpin, On, Goto, hart, switch, TypeOK, LockTypes
<1>8. CASE SleepRelease(c, p)
  BY <1>8 DEF SleepRelease, pop_off, On, Goto, switch, TypeOK, LockTypes
<1>9. CASE SleepWoken(c, p)
  BY <1>9 DEF SleepWoken, resume, On, Goto, switch, TypeOK, LockTypes
<1>10. CASE WakeDone(c, p)
  BY <1>10 DEF WakeDone, pop_off, On, Goto, switch, TypeOK, LockTypes
<1>11. CASE YieldSpin(c, p)
  BY <1>11 DEF YieldSpin, On, Goto, hart, switch, TypeOK, LockTypes
<1>12. CASE YieldResume(c, p)
  BY <1>12 DEF YieldResume, resume, On, Goto, switch, TypeOK, LockTypes
<1>13. QED
  BY <1>1, <1>2, <1>3, <1>4, <1>5, <1>6, <1>7, <1>8, <1>9, <1>10, <1>11, <1>12
     DEF Step, Loop, Thread

\* of a process's fields,
LEMMA ProcTypesKept ==
  ASSUME SchedInv, NEW c \in Cpus, NEW p \in Procs, Step(c, p)
  PROVE  ProcTypes'
<1> TypeOK
  BY DEF SchedInv
<1>1. CASE \/ SchedTop(c) \/ SchedAcquire(c) \/ SchedSkip(c) \/ SchedBack(c)
           \/ forkret(c, p) \/ AcquireLk(c, p) \/ SpinLk(c, p) \/ Consume(c, p)
           \/ SleepAcquire(c, p) \/ SleepSpin(c, p) \/ SleepRelease(c, p)
           \/ SleepSched(c, p) \/ SetReady(c, p) \/ WakeAcquire(c, p) \/ WakeDone(c, p)
           \/ TimerTrap(c, p) \/ YieldAcquire(c, p) \/ YieldSched(c, p) \/ YieldResume(c, p)
           \/ TrapReturn(c, p)
  BY <1>1 DEF SchedTop, SchedAcquire, push_off, SchedSkip, pop_off, SchedNext, SchedBack,
              forkret, On, Goto, switch, AcquireLk, SpinLk, hart, Consume, SleepAcquire,
              SleepSpin, SleepRelease, SleepSched, sched, SetReady, WakeAcquire, WakeDone,
              TimerTrap, YieldAcquire, YieldSched, YieldResume, resume, TrapReturn, TypeOK,
              ProcTypes
<1>2. CASE SchedRun(c)
  BY <1>2 DEF SchedRun, hart, TypeOK, ProcTypes
<1>3. CASE SleepMark(c, p)
  BY <1>3 DEF SleepMark, On, Goto, hart, switch, TypeOK, ProcTypes
<1>4. CASE SleepWoken(c, p)
  BY <1>4 DEF SleepWoken, resume, On, Goto, switch, TypeOK, ProcTypes
<1>5. CASE WakeOne(c, p)
  BY <1>5 DEF WakeOne, pop_off, On, Goto, switch, TypeOK, ProcTypes
<1>6. CASE YieldSpin(c, p)
  BY <1>6 DEF YieldSpin, On, Goto, hart, switch, TypeOK, ProcTypes
<1>7. QED
  BY <1>1, <1>2, <1>3, <1>4, <1>5, <1>6 DEF Step, Loop, Thread

\* and of a thread's place and variables.
LEMMA ThreadTypesKept ==
  ASSUME SchedInv, NEW c \in Cpus, NEW p \in Procs, Step(c, p)
  PROVE  ThreadTypes'
<1> TypeOK /\ InState
  BY DEF SchedInv
<1>1. CASE SchedTop(c) \/ SchedAcquire(c) \/ SchedSkip(c) \/ SchedRun(c) \/ SchedBack(c)
  BY <1>1 DEF SchedTop, SchedAcquire, push_off, SchedSkip, pop_off, SchedNext, SchedRun,
              hart, SchedBack, TypeOK, ThreadTypes, Labels, InState, StateFits, Procs
<1>2. CASE forkret(c, p)
  BY <1>2 DEF forkret, pop_off, On, Goto, switch, TypeOK, ThreadTypes, Labels, InState,
              StateFits, Procs
<1>3. CASE AcquireLk(c, p)
  BY <1>3 DEF AcquireLk, push_off, On, Goto, switch, TypeOK, ThreadTypes, Labels, InState,
              StateFits, Procs
<1>4. CASE SpinLk(c, p)
  BY <1>4 DEF SpinLk, On, Goto, hart, switch, TypeOK, ThreadTypes, Labels, InState,
              StateFits, Procs
<1>5. CASE Consume(c, p)
  BY <1>5 DEF Consume, pop_off, On, Goto, switch, TypeOK, ThreadTypes, Labels, InState,
              StateFits, Procs
<1>6. CASE SleepAcquire(c, p)
  BY <1>6 DEF SleepAcquire, push_off, On, Goto, switch, TypeOK, ThreadTypes, Labels,
              InState, StateFits, Procs
<1>7. CASE SleepSpin(c, p)
  BY <1>7 DEF SleepSpin, On, Goto, hart, switch, TypeOK, ThreadTypes, Labels, InState,
              StateFits, Procs
<1>8. CASE SleepRelease(c, p)
  BY <1>8 DEF SleepRelease, pop_off, On, Goto, switch, TypeOK, ThreadTypes, Labels, InState,
              StateFits, Procs
<1>9. CASE SleepMark(c, p)
  BY <1>9 DEF SleepMark, On, Goto, hart, switch, TypeOK, ThreadTypes, Labels, InState,
              StateFits, Procs
<1>10. CASE SleepSched(c, p)
  BY <1>10 DEF SleepSched, sched, On, Goto, hart, TypeOK, ThreadTypes, Labels, InState,
               StateFits, Procs
<1>11. CASE SleepWoken(c, p)
  BY <1>11 DEF SleepWoken, resume, On, Goto, switch, TypeOK, ThreadTypes, Labels, InState,
               StateFits, Procs
<1>12. CASE SetReady(c, p)
  BY <1>12, NPROCAssumption DEF SetReady, On, Goto, hart, switch, TypeOK, ThreadTypes,
                                Labels, InState, StateFits, Procs
<1>13. CASE WakeAcquire(c, p)
  BY <1>13 DEF WakeAcquire, push_off, On, Goto, switch, TypeOK, ThreadTypes, Labels,
               InState, StateFits, Procs
<1>14. CASE WakeOne(c, p)
  BY <1>14, NPROCAssumption DEF WakeOne, pop_off, On, Goto, switch, TypeOK, ThreadTypes,
                                Labels, InState, StateFits, Procs
<1>15. CASE WakeDone(c, p)
  BY <1>15, NPROCAssumption DEF WakeDone, pop_off, On, Goto, switch, TypeOK, ThreadTypes,
                                Labels, InState, StateFits, Procs
<1>16. CASE TimerTrap(c, p)
  BY <1>16 DEF TimerTrap, On, Goto, switch, TypeOK, ThreadTypes, Labels, InState, StateFits,
               Procs
<1>17. CASE YieldAcquire(c, p)
  BY <1>17 DEF YieldAcquire, push_off, On, Goto, switch, TypeOK, ThreadTypes, Labels,
               InState, StateFits, Procs
<1>18. CASE YieldSpin(c, p)
  BY <1>18 DEF YieldSpin, On, Goto, hart, switch, TypeOK, ThreadTypes, Labels, InState,
               StateFits, Procs
<1>19. CASE YieldSched(c, p)
  BY <1>19 DEF YieldSched, sched, On, Goto, hart, TypeOK, ThreadTypes, Labels, InState,
               StateFits, Procs
<1>20. CASE YieldResume(c, p)
  BY <1>20 DEF YieldResume, resume, On, Goto, switch, TypeOK, ThreadTypes, Labels, InState,
               StateFits, Procs
<1>21. CASE TrapReturn(c, p)
  BY <1>21 DEF TrapReturn, On, Goto, switch, TypeOK, ThreadTypes, Labels, InState,
               StateFits, Procs
<1>22. QED
  BY <1>1, <1>2, <1>3, <1>4, <1>5, <1>6, <1>7, <1>8, <1>9, <1>10, <1>11, <1>12, <1>13,
       <1>14, <1>15, <1>16, <1>17, <1>18, <1>19, <1>20, <1>21 DEF Step, Loop, Thread

\* No step touches another hart's registers, or its thread.
LEMMA OthersUntouched ==
  ASSUME SchedInv, NEW c \in Cpus, NEW p \in Procs, Step(c, p)
  PROVE  OthersKept(c)
<1> TypeOK /\ Placed
  BY DEF SchedInv
<1>1. CASE SchedTop(c)
  BY <1>1 DEF SchedTop, TypeOK, OthersKept, Placed
<1>2. CASE SchedAcquire(c)
  BY <1>2 DEF SchedAcquire, push_off, TypeOK, OthersKept, Placed
<1>3. CASE SchedSkip(c)
  BY <1>3 DEF SchedSkip, pop_off, SchedNext, TypeOK, OthersKept, Placed
<1>4. CASE SchedRun(c)
  BY <1>4 DEF SchedRun, hart, TypeOK, OthersKept, Placed
<1>5. CASE SchedBack(c)
  BY <1>5 DEF SchedBack, pop_off, SchedNext, TypeOK, OthersKept, Placed
<1>6. CASE forkret(c, p)
  BY <1>6 DEF forkret, pop_off, On, Goto, switch, TypeOK, OthersKept, Placed
<1>7. CASE AcquireLk(c, p)
  BY <1>7 DEF AcquireLk, push_off, On, Goto, switch, TypeOK, OthersKept, Placed
<1>8. CASE SpinLk(c, p)
  BY <1>8 DEF SpinLk, On, Goto, hart, switch, TypeOK, OthersKept, Placed
<1>9. CASE Consume(c, p)
  BY <1>9 DEF Consume, pop_off, On, Goto, switch, TypeOK, OthersKept, Placed
<1>10. CASE SleepAcquire(c, p)
  BY <1>10 DEF SleepAcquire, push_off, On, Goto, switch, TypeOK, OthersKept, Placed
<1>11. CASE SleepSpin(c, p)
  BY <1>11 DEF SleepSpin, On, Goto, hart, switch, TypeOK, OthersKept, Placed
<1>12. CASE SleepRelease(c, p)
  BY <1>12 DEF SleepRelease, pop_off, On, Goto, switch, TypeOK, OthersKept, Placed
<1>13. CASE SleepMark(c, p)
  BY <1>13 DEF SleepMark, On, Goto, hart, switch, TypeOK, OthersKept, Placed
<1>14. CASE SleepSched(c, p)
  BY <1>14 DEF SleepSched, sched, On, Goto, hart, TypeOK, OthersKept, Placed
<1>15. CASE SleepWoken(c, p)
  BY <1>15 DEF SleepWoken, resume, On, Goto, switch, TypeOK, OthersKept, Placed
<1>16. CASE SetReady(c, p)
  BY <1>16 DEF SetReady, On, Goto, hart, switch, TypeOK, OthersKept, Placed
<1>17. CASE WakeAcquire(c, p)
  BY <1>17 DEF WakeAcquire, push_off, On, Goto, switch, TypeOK, OthersKept, Placed
<1>18. CASE WakeOne(c, p)
  BY <1>18 DEF WakeOne, pop_off, On, Goto, switch, TypeOK, OthersKept, Placed
<1>19. CASE WakeDone(c, p)
  BY <1>19 DEF WakeDone, pop_off, On, Goto, switch, TypeOK, OthersKept, Placed
<1>20. CASE TimerTrap(c, p)
  BY <1>20 DEF TimerTrap, On, Goto, switch, TypeOK, OthersKept, Placed
<1>21. CASE YieldAcquire(c, p)
  BY <1>21 DEF YieldAcquire, push_off, On, Goto, switch, TypeOK, OthersKept, Placed
<1>22. CASE YieldSpin(c, p)
  BY <1>22 DEF YieldSpin, On, Goto, hart, switch, TypeOK, OthersKept, Placed
<1>23. CASE YieldSched(c, p)
  BY <1>23 DEF YieldSched, sched, On, Goto, hart, TypeOK, OthersKept, Placed
<1>24. CASE YieldResume(c, p)
  BY <1>24 DEF YieldResume, resume, On, Goto, switch, TypeOK, OthersKept, Placed
<1>25. CASE TrapReturn(c, p)
  BY <1>25 DEF TrapReturn, On, Goto, switch, TypeOK, OthersKept, Placed
<1>26. QED
  BY <1>1, <1>2, <1>3, <1>4, <1>5, <1>6, <1>7, <1>8, <1>9, <1>10, <1>11, <1>12, <1>13,
       <1>14, <1>15, <1>16, <1>17, <1>18, <1>19, <1>20, <1>21, <1>22, <1>23, <1>24, <1>25
            DEF Step, Loop, Thread

\* A thread that is RUNNABLE with its lock free is nobody's: no hart is on its stack or
\* about to give up its lock.
LEMMA FreeThread ==
  ASSUME SchedInv, NEW q \in Procs, plock[q] = NoCpu, state[q] = "RUNNABLE", NEW d \in Cpus
  PROVE  stack[d] # q /\ ~(spc[d] = "back" /\ scan[d] = q)
<1> TypeOK /\ Placed /\ Locked /\ InState
  BY DEF SchedInv
<1>1. ~Holds(d, q)
  BY CpusAssumption DEF Locked, OwnRight, NoCpu
<1>2. stack[d] # q
  <2> SUFFICES ASSUME stack[d] = q PROVE FALSE
    OBVIOUS
  <2>1. pc[q] \in OwnLocked
    BY DEF InState, OwnLocked, StateFits
  <2>2. q # Scheduler
    BY DEF Procs, Scheduler
  <2>3. QED
    BY <1>1, <2>1, <2>2 DEF Placed, Holds
<1>3. QED
  BY <1>1, <1>2 DEF Holds

\* A hart switches only to a thread that is nobody's, and stays with it.
LEMMA PlacedKept ==
  ASSUME SchedInv, NEW c \in Cpus, NEW p \in Procs, Step(c, p)
  PROVE  Placed'
<1> TypeOK /\ Placed
  BY DEF SchedInv
<1>1. CASE \/ forkret(c, p) \/ AcquireLk(c, p) \/ SpinLk(c, p) \/ Consume(c, p)
           \/ SleepAcquire(c, p) \/ SleepSpin(c, p) \/ SleepRelease(c, p) \/ SleepMark(c, p)
           \/ SleepWoken(c, p) \/ SetReady(c, p) \/ WakeAcquire(c, p) \/ WakeOne(c, p)
           \/ WakeDone(c, p) \/ TimerTrap(c, p) \/ YieldAcquire(c, p) \/ YieldSpin(c, p)
           \/ YieldResume(c, p) \/ TrapReturn(c, p)
  BY <1>1 DEF forkret, pop_off, On, Goto, switch, AcquireLk, push_off, SpinLk, hart,
              Consume, SleepAcquire, SleepSpin, SleepRelease, SleepMark, SleepWoken, resume,
              SetReady, WakeAcquire, WakeOne, WakeDone, TimerTrap, YieldAcquire, YieldSpin,
              YieldResume, TrapReturn, TypeOK, Placed, Procs, Scheduler
<1>2. CASE SchedTop(c)
  BY <1>2 DEF SchedTop, TypeOK, Placed, Procs, Scheduler
<1>3. CASE SchedAcquire(c)
  BY <1>3 DEF SchedAcquire, push_off, TypeOK, Placed, Procs, Scheduler
<1>4. CASE SchedRun(c)
  BY <1>4, FreeThread DEF SchedRun, hart, TypeOK, Placed, Procs, Scheduler
<1>5. CASE SleepSched(c, p)
  BY <1>5 DEF SleepSched, sched, On, Goto, hart, TypeOK, Placed, Procs, Scheduler
<1>6. CASE YieldSched(c, p)
  BY <1>6 DEF YieldSched, sched, On, Goto, hart, TypeOK, Placed, Procs, Scheduler
<1>7. CASE SchedSkip(c) \/ SchedBack(c)
  <2>1. spc'[c] # "back" /\ \A d \in Cpus \ {c} : spc'[d] = spc[d] /\ scan'[d] = scan[d]
    BY <1>7, NextInTable DEF SchedSkip, SchedBack
  <2>2. stack' = stack /\ stack[c] = Scheduler /\ \A d \in Cpus \ {c} : cproc'[d] = cproc[d]
    BY <1>7 DEF SchedSkip, SchedBack, TypeOK
  <2>3. QED
    BY <2>1, <2>2 DEF Placed
<1>8. QED
  BY <1>1, <1>2, <1>3, <1>4, <1>5, <1>6, <1>7 DEF Step, Loop, Thread

\* A thread that moves on by one push_off() or pop_off() more keeps the count right.
LEMMA DepthFollows ==
  ASSUME SchedInv, NEW c \in Cpus, NEW p \in Procs, NEW l \in Labels, NEW m \in Labels, NEW
       k \in Int,
         On(c, p, l), Goto(p, m), Nesting(m) = Nesting(l) + k, noff'[c] = noff[c] + k,
              stack' = stack
  PROVE  DepthAt(c)'
<1>1. p # Scheduler /\ DepthAt(c) /\ pc'[p] = m
  BY DEF SchedInv, Depth, Procs, Scheduler, Goto, TypeOK
<1>2. noff[c] = Nesting(l)
  BY <1>1 DEF On, DepthAt
<1>3. noff'[c] = Nesting(m)
  BY <1>2
<1>4. QED
  BY <1>1, <1>3 DEF On, DepthAt

\* The hart's own count follows its thread.
LEMMA DepthAtKept ==
  ASSUME SchedInv, NEW c \in Cpus, NEW p \in Procs, Step(c, p)
  PROVE  DepthAt(c)'
<1> TypeOK /\ Placed /\ InState /\ DepthAt(c)
  BY DEF SchedInv, Depth
<1>1. CASE SchedTop(c) \/ SchedAcquire(c)
  BY <1>1 DEF SchedTop, SchedAcquire, push_off, TypeOK, DepthAt, Scheduler
<1>2. CASE SchedSkip(c) \/ SchedBack(c)
  <2>1. noff[c] = 1 /\ noff'[c] = noff[c] - 1
    BY <1>2 DEF SchedSkip, SchedBack, pop_off, TypeOK, DepthAt
  <2>2. stack'[c] = Scheduler /\ spc'[c] \in {"top", "acquire"}
    BY <1>2, NextInTable DEF SchedSkip, SchedBack
  <2>3. QED
    BY <2>1, <2>2 DEF DepthAt
<1>3. CASE SchedRun(c)
  <2>1. noff'[c] = 1 /\ stack'[c] = scan[c] /\ scan[c] \in Procs /\ pc' = pc
    BY <1>3 DEF SchedRun, hart, TypeOK, DepthAt
  <2>2. pc[scan[c]] \in Away
    BY <1>3, <2>1, FreeThread DEF SchedRun, InState, StateFits
  <2>3. QED
    BY <2>1, <2>2 DEF DepthAt, Away, Nesting, Procs, Scheduler
<1>4. CASE SleepSched(c, p) \/ YieldSched(c, p)
  <2>1. noff'[c] = noff[c] /\ noff[c] = 1 /\ spc' = spc /\ spc[c] = "back"
    BY <1>4 DEF SleepSched, YieldSched, sched, On, hart, DepthAt, Nesting, Placed, Procs,
                Scheduler
  <2>2. stack'[c] = Scheduler
    BY <1>4 DEF SleepSched, YieldSched, sched, TypeOK
  <2>3. QED
    BY <2>1, <2>2 DEF DepthAt
<1>5. CASE AcquireLk(c, p) \/ SleepAcquire(c, p) \/ WakeAcquire(c, p) \/ YieldAcquire(c, p)
  <2>1. PICK l \in Labels, m \in Labels : On(c, p, l) /\ Goto(p, m)
       /\ Nesting(m) = Nesting(l) + 1
    BY <1>5 DEF AcquireLk, SleepAcquire, WakeAcquire, YieldAcquire, Labels, Nesting
  <2>2. noff'[c] = noff[c] + 1 /\ stack' = stack
    BY <1>5 DEF AcquireLk, push_off, switch, SleepAcquire, WakeAcquire, YieldAcquire, TypeOK
  <2>3. QED
    BY <2>1, <2>2, DepthFollows
<1>6. CASE \/ forkret(c, p) \/ Consume(c, p) \/ SleepRelease(c, p) \/ WakeOne(c, p)
           \/ WakeDone(c, p) \/ SleepWoken(c, p) \/ YieldResume(c, p)
  <2>1. PICK l \in Labels, m \in Labels : On(c, p, l) /\ Goto(p, m)
       /\ Nesting(m) = Nesting(l) + (-1)
    BY <1>6 DEF forkret, Consume, SleepRelease, WakeOne, WakeDone, SleepWoken, YieldResume,
                Labels, Nesting
  <2>2. noff'[c] = noff[c] + (-1) /\ stack' = stack
    BY <1>6 DEF forkret, pop_off, switch, Consume, SleepRelease, WakeOne, WakeDone,
                SleepWoken, resume, YieldResume, TypeOK
  <2>3. QED
    BY <2>1, <2>2, DepthFollows
<1>7. CASE \/ SpinLk(c, p) \/ SleepSpin(c, p) \/ SleepMark(c, p) \/ SetReady(c, p)
           \/ TimerTrap(c, p) \/ YieldSpin(c, p) \/ TrapReturn(c, p)
  <2>1. PICK l \in Labels, m \in Labels : On(c, p, l) /\ Goto(p, m)
       /\ Nesting(m) = Nesting(l) + 0
    BY <1>7 DEF SpinLk, SleepSpin, SleepMark, SetReady, TimerTrap, YieldSpin, TrapReturn,
                Labels, Nesting
  <2>2. noff'[c] = noff[c] + 0 /\ stack' = stack
    BY <1>7 DEF SpinLk, hart, switch, SleepSpin, SleepMark, SetReady, TimerTrap, YieldSpin,
                TrapReturn, TypeOK
  <2>3. QED
    BY <2>1, <2>2, DepthFollows
<1>8. QED
  BY <1>1, <1>2, <1>3, <1>4, <1>5, <1>6, <1>7 DEF Step, Loop, Thread

\* The counts of all harts follow their threads, and stay in the range that TypeOK gives.
LEMMA DepthKept ==
  ASSUME SchedInv, NEW c \in Cpus, NEW p \in Procs, Step(c, p)
  PROVE  Depth' /\ noff' \in [Cpus -> 0..2]
<1>1. OthersKept(c) /\ DepthAt(c)'
  BY OthersUntouched, DepthAtKept
<1>2. ASSUME NEW d \in Cpus \ {c} PROVE DepthAt(d)'
  BY <1>1 DEF SchedInv, Depth, OthersKept, DepthAt
<1>3. Depth'
  BY <1>1, <1>2 DEF Depth
<1>4. \A d \in Cpus : noff'[d] \in 0..2
  BY <1>3 DEF Depth, DepthAt, Nesting
<1>5. QED
  BY <1>3, <1>4, HartTypesKept DEF HartTypes

\* What the thread's hart has to restore follows the thread, too: the first push_off()
\* reads the interrupt enable bit, the last pop_off() puts it back.
LEMMA RegistersFollow ==
  ASSUME SchedInv, NEW c \in Cpus, NEW p \in Procs, Step(c, p)
  PROVE  RegistersRight(c)'
<1> TypeOK /\ Placed /\ DepthAt(c) /\ RegistersRight(c) /\ SavedRight /\ p # Scheduler
  BY DEF SchedInv, Depth, Restored, Procs, Scheduler
<1>1. CASE SchedTop(c) \/ SchedAcquire(c)
  BY <1>1 DEF SchedTop, SchedAcquire, push_off, TypeOK, DepthAt, RegistersRight
<1>2. CASE SchedSkip(c) \/ SchedBack(c)
  <2>1. noff[c] = 1 /\ noff'[c] = noff[c] - 1 /\ stack'[c] = Scheduler
    BY <1>2 DEF SchedSkip, SchedBack, pop_off, TypeOK, DepthAt
  <2>2. QED
    BY <2>1 DEF RegistersRight
<1>3. CASE SchedRun(c)
  <2>1. noff'[c] = 1 /\ ~sie'[c] /\ stack'[c] = scan[c] /\ scan[c] \in Procs /\ pc' = pc
    BY <1>3 DEF SchedRun, hart, TypeOK, DepthAt, RegistersRight
  <2>2. pc[scan[c]] \in Away
    BY <1>3, <2>1, FreeThread DEF SchedRun, SchedInv, InState, StateFits
  <2>3. QED
    BY <2>1, <2>2 DEF RegistersRight, Away
<1>4. CASE SleepSched(c, p) \/ YieldSched(c, p)
  BY <1>4 DEF SleepSched, YieldSched, sched, hart, TypeOK, RegistersRight
<1>5. CASE AcquireLk(c, p) \/ YieldAcquire(c, p)
  <2>1. noff[c] = 0
    BY <1>5 DEF AcquireLk, YieldAcquire, On, DepthAt, Nesting
  <2>2. intena'[c] = sie[c] /\ ~sie'[c]
    BY <1>5, <2>1 DEF AcquireLk, YieldAcquire, push_off, TypeOK
  <2>3. QED
    BY <1>5, <2>2 DEF AcquireLk, YieldAcquire, On, Goto, switch, TypeOK, RegistersRight
<1>6. CASE SleepAcquire(c, p) \/ WakeAcquire(c, p)
  <2>1. noff[c] = 1
    BY <1>6 DEF SleepAcquire, WakeAcquire, On, DepthAt, Nesting
  <2>2. intena'[c] = intena[c] /\ ~sie'[c]
    BY <1>6, <2>1 DEF SleepAcquire, WakeAcquire, push_off, TypeOK
  <2>3. QED
    BY <1>6, <2>2 DEF SleepAcquire, WakeAcquire, On, Goto, switch, TypeOK, RegistersRight
<1>7. CASE SleepRelease(c, p) \/ WakeOne(c, p)
  <2>1. noff[c] = 2
    BY <1>7 DEF SleepRelease, WakeOne, On, DepthAt, Nesting
  <2>2. intena'[c] = intena[c] /\ sie'[c] = sie[c] /\ ~sie[c]
    BY <1>7, <2>1 DEF SleepRelease, WakeOne, pop_off, TypeOK, RegistersRight
  <2>3. QED
    BY <1>7, <2>2 DEF SleepRelease, WakeOne, On, Goto, switch, TypeOK, RegistersRight
<1>8. CASE forkret(c, p) \/ Consume(c, p) \/ WakeDone(c, p)
  <2>1. noff[c] = 1 /\ noff'[c] = noff[c] - 1
    BY <1>8 DEF forkret, Consume, WakeDone, pop_off, On, DepthAt, Nesting, TypeOK
  <2>2. sie'[c] = intena[c]
    BY <1>8, <2>1 DEF forkret, Consume, WakeDone, pop_off, TypeOK, RegistersRight
  <2>3. stack' = stack /\ stack[c] = p
    BY <1>8 DEF forkret, Consume, WakeDone, On, switch
  <2>4. \/ pc[p] = "forkret" /\ pc'[p] = "userret"
        \/ pc[p] \in {"check", "wake"} /\ pc'[p] = "run"
    BY <1>8 DEF forkret, Consume, WakeDone, On, Goto, TypeOK
  <2>5. QED
    BY <2>1, <2>2, <2>3, <2>4 DEF RegistersRight
<1>9. CASE SleepWoken(c, p) \/ YieldResume(c, p)
  <2>1. noff[c] = 1 /\ noff'[c] = noff[c] - 1
    BY <1>9 DEF SleepWoken, YieldResume, resume, On, DepthAt, Nesting, TypeOK
  <2>2. sie'[c] = saved[p]
    BY <1>9, <2>1 DEF SleepWoken, YieldResume, resume, TypeOK
  <2>3. stack' = stack /\ stack[c] = p
    BY <1>9 DEF SleepWoken, YieldResume, On, switch
  <2>4. \/ pc[p] = "slept" /\ pc'[p] = "run"
        \/ pc[p] = "yielded" /\ pc'[p] = "trapret"
    BY <1>9 DEF SleepWoken, YieldResume, On, Goto, TypeOK
  <2>5. QED
    BY <2>1, <2>2, <2>3, <2>4 DEF RegistersRight, SavedRight
<1>10. CASE \/ SpinLk(c, p) \/ SleepSpin(c, p) \/ SleepMark(c, p) \/ SetReady(c, p)
            \/ YieldSpin(c, p)
  BY <1>10 DEF SpinLk, On, Goto, hart, switch, SleepSpin, SleepMark, SetReady, YieldSpin,
               RegistersRight, TypeOK
<1>11. CASE TimerTrap(c, p)
  BY <1>11 DEF TimerTrap, On, Goto, switch, RegistersRight, TypeOK
<1>12. CASE TrapReturn(c, p)
  <2>1. noff'[c] = 0
    BY <1>12 DEF TrapReturn, On, DepthAt, Nesting
  <2>2. QED
    BY <1>12, <2>1 DEF TrapReturn, On, Goto, switch, RegistersRight, TypeOK
<1>13. QED
  BY <1>1, <1>2, <1>3, <1>4, <1>5, <1>6, <1>7, <1>8, <1>9, <1>10, <1>11, <1>12
     DEF Step, Loop, Thread

\* sched() saves what the thread is to restore on the hart that it comes back on.
LEMMA SavedKept ==
  ASSUME SchedInv, NEW c \in Cpus, NEW p \in Procs, Step(c, p)
  PROVE  SavedRight'
<1> TypeOK /\ RegistersRight(c) /\ SavedRight /\ p # Scheduler
  BY DEF SchedInv, Restored, Procs, Scheduler
<1>1. CASE Loop(c)
  <2>1. pc' = pc /\ saved' = saved
    BY <1>1 DEF Loop, SchedTop, SchedAcquire, SchedSkip, SchedRun, hart, SchedBack
  <2>2. QED
    BY <2>1 DEF SavedRight
<1>2. CASE SleepSched(c, p)
  BY <1>2 DEF SleepSched, sched, On, Goto, TypeOK, RegistersRight, SavedRight
<1>3. CASE YieldSched(c, p)
  BY <1>3 DEF YieldSched, sched, On, Goto, TypeOK, RegistersRight, SavedRight
<1>4. CASE \/ forkret(c, p) \/ AcquireLk(c, p) \/ SpinLk(c, p) \/ Consume(c, p)
           \/ SleepAcquire(c, p) \/ SleepSpin(c, p) \/ SleepRelease(c, p) \/ SleepMark(c, p)
           \/ SleepWoken(c, p) \/ SetReady(c, p) \/ WakeAcquire(c, p) \/ WakeOne(c, p)
           \/ WakeDone(c, p) \/ TimerTrap(c, p) \/ YieldAcquire(c, p) \/ YieldSpin(c, p)
           \/ YieldResume(c, p) \/ TrapReturn(c, p)
  <2>1. saved' = saved /\ \E l \in Labels \ {"slept", "yielded"} : Goto(p, l)
    BY <1>4 DEF Labels, forkret, switch, AcquireLk, SpinLk, hart, Consume, SleepAcquire,
                SleepSpin, SleepRelease, SleepMark, SleepWoken, SetReady, WakeAcquire,
                WakeOne, WakeDone, TimerTrap, YieldAcquire, YieldSpin, YieldResume,
                TrapReturn
  <2>2. QED
    BY <2>1 DEF Goto, TypeOK, SavedRight
<1>5. QED
  BY <1>1, <1>2, <1>3, <1>4 DEF Step, Thread

\* Every hart restores what it should.
LEMMA RestoredKept ==
  ASSUME SchedInv, NEW c \in Cpus, NEW p \in Procs, Step(c, p)
  PROVE  Restored'
<1>1. OthersKept(c) /\ RegistersRight(c)'
  BY OthersUntouched, RegistersFollow
<1>2. ASSUME NEW d \in Cpus \ {c} PROVE RegistersRight(d)'
  BY <1>1 DEF SchedInv, Restored, OthersKept, RegistersRight
<1>3. QED
  BY <1>1, <1>2, SavedKept DEF Restored

\* A hart that executes a thread is at "back" with it; where no lock is taken or given
\* up, what it holds depends on the thread's place alone.
LEMMA ThreadHolds ==
  ASSUME SchedInv, NEW c \in Cpus, NEW p \in Procs, stack[c] = p
  PROVE  /\ p # Scheduler /\ spc[c] = "back" /\ scan[c] = p
         /\ LkRight(c) /\ \A d \in Cpus, q \in Procs : plock[q] = d <=> Holds(d, q)
BY DEF SchedInv, Placed, Locked, OwnRight, Procs, Scheduler

\* The condition's lock is with the hart whose thread is between acquire and release.
LEMMA LkKept ==
  ASSUME SchedInv, NEW c \in Cpus, NEW p \in Procs, Step(c, p)
  PROVE  \A d \in Cpus : LkRight(d)'
<1> TypeOK /\ Placed /\ InState /\ p # Scheduler /\ (\A d \in Cpus : LkRight(d))
     /\ NoCpu \notin Cpus
  BY CpusAssumption DEF SchedInv, Locked, Procs, Scheduler, NoCpu
<1> OthersKept(c)
  BY OthersUntouched
<1>1. ASSUME \A d \in Cpus \ {c} : lk' = d <=> lk = d, LkRight(c)'
      PROVE  \A d \in Cpus : LkRight(d)'
  BY <1>1 DEF OthersKept, LkRight
<1>2. CASE SchedTop(c) \/ SchedAcquire(c) \/ SchedSkip(c) \/ SchedBack(c)
  <2>1. lk' = lk /\ stack' = stack /\ stack[c] = Scheduler
    BY <1>2 DEF SchedTop, SchedAcquire, SchedSkip, SchedBack
  <2>2. QED
    BY <2>1, <1>1 DEF LkRight
<1>3. CASE SchedRun(c)
  <2>1. lk' = lk /\ pc' = pc /\ stack'[c] = scan[c] /\ stack[c] = Scheduler
       /\ scan[c] \in Procs
    BY <1>3 DEF SchedRun, TypeOK
  <2>2. pc[scan[c]] \in Away
    BY <1>3, <2>1, FreeThread DEF SchedRun, InState, StateFits
  <2>3. QED
    BY <2>1, <2>2, <1>1 DEF LkRight, Away, LkLocked
<1>4. CASE SleepSched(c, p) \/ YieldSched(c, p)
  <2>1. lk' = lk /\ stack[c] = p /\ pc[p] \in {"sched", "ysched"}
    BY <1>4 DEF SleepSched, YieldSched, sched, On
  <2>2. stack'[c] = Scheduler
    BY <1>4 DEF SleepSched, YieldSched, sched, TypeOK
  <2>3. QED
    BY <2>1, <2>2, <1>1 DEF LkRight, LkLocked
<1>5. CASE SpinLk(c, p)
  <2>1. lk = NoCpu /\ lk' = c /\ stack' = stack /\ stack[c] = p
       /\ pc'[p] \in {"check", "set"}
    BY <1>5 DEF SpinLk, On, Goto, switch, TypeOK
  <2>2. QED
    BY <2>1, <1>1 DEF LkRight, LkLocked
<1>6. CASE Consume(c, p) \/ SleepRelease(c, p) \/ WakeDone(c, p)
  <2>1. lk' = NoCpu /\ stack' = stack /\ stack[c] = p /\ pc[p] \in LkLocked
    BY <1>6 DEF Consume, On, switch, SleepRelease, WakeDone, LkLocked
  <2>2. pc'[p] \in {"run", "sleep"}
    BY <1>6 DEF Consume, On, Goto, SleepRelease, WakeDone, TypeOK
  <2>3. QED
    BY <2>1, <2>2, <1>1 DEF LkRight, LkLocked
<1>7. CASE \/ SleepAcquire(c, p) \/ SleepSpin(c, p) \/ SetReady(c, p) \/ WakeAcquire(c, p)
           \/ WakeOne(c, p)
  <2>1. lk' = lk /\ stack' = stack /\ stack[c] = p
    BY <1>7 DEF SleepAcquire, On, switch, SleepSpin, SetReady, WakeAcquire, WakeOne
  <2>2. pc[p] \in LkLocked /\ pc'[p] \in LkLocked
    BY <1>7 DEF SleepAcquire, On, Goto, SleepSpin, SetReady, WakeAcquire, WakeOne, LkLocked,
                TypeOK
  <2>3. QED
    BY <2>1, <2>2, <1>1 DEF LkRight
<1>8. CASE \/ forkret(c, p) \/ AcquireLk(c, p) \/ SleepMark(c, p) \/ SleepWoken(c, p)
           \/ TimerTrap(c, p) \/ YieldAcquire(c, p) \/ YieldSpin(c, p) \/ YieldResume(c, p)
           \/ TrapReturn(c, p)
  <2>1. lk' = lk /\ stack' = stack /\ stack[c] = p
    BY <1>8 DEF forkret, On, switch, AcquireLk, SleepMark, SleepWoken, TimerTrap,
                YieldAcquire, YieldSpin, YieldResume, TrapReturn
  <2>2. pc[p] \notin LkLocked /\ pc'[p] \notin LkLocked
    BY <1>8 DEF forkret, On, Goto, AcquireLk, SleepMark, SleepWoken, TimerTrap,
                YieldAcquire, YieldSpin, YieldResume, TrapReturn, LkLocked, TypeOK
  <2>3. QED
    BY <2>1, <2>2, <1>1 DEF LkRight
<1>9. QED
  BY <1>2, <1>3, <1>4, <1>5, <1>6, <1>7, <1>8 DEF Step, Loop, Thread

\* The lock of a slot is with the hart that executes its thread inside, or that has
\* switched to it or from it.
LEMMA OwnKept ==
  ASSUME SchedInv, NEW c \in Cpus, NEW p \in Procs, Step(c, p)
  PROVE  OwnRight'
<1> TypeOK /\ Placed /\ InState /\ p # Scheduler /\ OwnRight /\ NoCpu \notin Cpus
  BY CpusAssumption DEF SchedInv, Locked, Procs, Scheduler, NoCpu
<1> OthersKept(c)
  BY OthersUntouched
<1>1. ASSUME \A d \in Cpus \ {c}, q \in Procs : plock'[q] = d <=> plock[q] = d,
             \A q \in Procs : plock'[q] = c <=> Holds(c, q)'
      PROVE  OwnRight'
  <2>1. \A d \in Cpus \ {c}, q \in Procs : Holds(d, q)' <=> Holds(d, q)
    BY DEF OthersKept, Holds, Procs, Scheduler
  <2>2. QED
    BY <1>1, <2>1 DEF OwnRight
<1>2. CASE SchedTop(c) \/ SchedAcquire(c) \/ SchedSkip(c)
  <2>1. plock' = plock /\ spc[c] # "back"
    BY <1>2 DEF SchedTop, SchedAcquire, SchedSkip
  <2>2. spc'[c] # "back"
    BY <1>2, NextInTable DEF SchedTop, SchedAcquire, SchedSkip, TypeOK
  <2>3. QED
    BY <2>1, <2>2, <1>1 DEF OwnRight, Holds
<1>3. CASE SchedBack(c)
  <2>1. plock' = [plock EXCEPT ![scan[c]] = NoCpu] /\ spc[c] = "back"
       /\ stack[c] = Scheduler
    BY <1>3 DEF SchedBack
  <2>2. \A q \in Procs : plock[q] = c <=> q = scan[c]
    BY <2>1 DEF OwnRight, Holds, Procs, Scheduler
  <2>3. spc'[c] # "back"
    BY <1>3, NextInTable DEF SchedBack
  <2>4. QED
    BY <2>1, <2>2, <2>3, <1>1 DEF Holds, TypeOK
<1>4. CASE SchedRun(c)
  <2>1. /\ plock[scan[c]] = NoCpu /\ plock' = [plock EXCEPT ![scan[c]] = c]
        /\ spc[c] = "spin" /\ pc' = pc /\ scan' = scan /\ scan[c] \in Procs
    BY <1>4 DEF SchedRun, TypeOK
  <2>2. spc'[c] = "back" /\ stack'[c] = scan[c]
    BY <1>4 DEF SchedRun, TypeOK
  <2>3. pc[scan[c]] \in OwnLocked
    BY <1>4, <2>1, FreeThread DEF SchedRun, InState, StateFits, Away, OwnLocked
  <2>4. \A q \in Procs : plock[q] # c
    BY <2>1 DEF OwnRight, Holds
  <2>5. QED
    BY <2>1, <2>2, <2>3, <2>4, <1>1 DEF Holds, TypeOK
<1>5. CASE SleepSched(c, p) \/ YieldSched(c, p)
  <2>1. stack[c] = p /\ pc[p] \in OwnLocked /\ plock' = plock /\ spc' = spc /\ scan' = scan
    BY <1>5 DEF SleepSched, YieldSched, sched, On, OwnLocked
  <2>2. stack'[c] = Scheduler
    BY <1>5 DEF SleepSched, YieldSched, sched, TypeOK
  <2>3. \A q \in Procs : Holds(c, q)' <=> Holds(c, q)
    BY <2>1, <2>2, ThreadHolds DEF Holds, Procs, Scheduler
  <2>4. QED
    BY <2>1, <2>3, <1>1 DEF OwnRight
<1>6. CASE SleepSpin(c, p) \/ YieldSpin(c, p)
  <2>1. stack[c] = p /\ plock[p] = NoCpu /\ plock' = [plock EXCEPT ![p] = c]
       /\ UNCHANGED switch
    BY <1>6 DEF SleepSpin, On, YieldSpin
  <2>2. pc[p] \notin OwnLocked /\ pc'[p] \in OwnLocked
    BY <1>6 DEF SleepSpin, On, Goto, YieldSpin, OwnLocked, TypeOK
  <2>3. QED
    BY <2>1, <2>2, <1>1, ThreadHolds DEF Holds, TypeOK, switch
<1>7. CASE forkret(c, p) \/ SleepWoken(c, p) \/ YieldResume(c, p)
  <2>1. stack[c] = p /\ plock' = [plock EXCEPT ![p] = NoCpu] /\ UNCHANGED switch
    BY <1>7 DEF forkret, On, SleepWoken, resume, YieldResume
  <2>2. pc[p] \in OwnLocked /\ pc'[p] \notin OwnLocked
    BY <1>7 DEF forkret, On, Goto, SleepWoken, YieldResume, OwnLocked, TypeOK
  <2>3. QED
    BY <2>1, <2>2, <1>1, ThreadHolds DEF Holds, TypeOK, switch
<1>8. CASE SleepRelease(c, p) \/ SleepMark(c, p)
  <2>1. stack[c] = p /\ plock' = plock /\ UNCHANGED switch
    BY <1>8 DEF SleepRelease, On, SleepMark
  <2>2. pc[p] \in OwnLocked <=> pc'[p] \in OwnLocked
    BY <1>8 DEF SleepRelease, On, Goto, SleepMark, OwnLocked, TypeOK
  <2>3. QED
    BY <2>1, <2>2, <1>1, ThreadHolds DEF Holds, switch
<1>9. CASE \/ AcquireLk(c, p) \/ SpinLk(c, p) \/ Consume(c, p) \/ SleepAcquire(c, p)
           \/ SetReady(c, p) \/ WakeAcquire(c, p) \/ WakeOne(c, p) \/ WakeDone(c, p)
           \/ TimerTrap(c, p) \/ YieldAcquire(c, p) \/ TrapReturn(c, p)
  <2>1. stack[c] = p /\ plock' = plock /\ UNCHANGED switch
    BY <1>9 DEF AcquireLk, On, SpinLk, Consume, SleepAcquire, SetReady, WakeAcquire,
                WakeOne, WakeDone, TimerTrap, YieldAcquire, TrapReturn
  <2>2. pc[p] \notin OwnLocked /\ pc'[p] \notin OwnLocked
    BY <1>9 DEF AcquireLk, On, Goto, SpinLk, Consume, SleepAcquire, SetReady, WakeAcquire,
                WakeOne, WakeDone, TimerTrap, YieldAcquire, TrapReturn, OwnLocked, TypeOK
  <2>3. QED
    BY <2>1, <2>2, <1>1, ThreadHolds DEF Holds, switch
<1>10. QED
  BY <1>2, <1>3, <1>4, <1>5, <1>6, <1>7, <1>8, <1>9 DEF Step, Loop, Thread

\* A step changes the state, the place and the hart of one thread; a wakeup() besides
\* makes a sleeping one RUNNABLE.
LEMMA InStateKept ==
  ASSUME SchedInv, NEW c \in Cpus, NEW p \in Procs, Step(c, p)
  PROVE  InState'
<1> TypeOK /\ Placed /\ InState /\ p # Scheduler
  BY DEF SchedInv, Procs, Scheduler
<1>1. CASE SchedTop(c) \/ SchedAcquire(c) \/ SchedSkip(c) \/ SchedBack(c)
  <2>1. UNCHANGED <<stack, state, pc, chan, idx>>
    BY <1>1 DEF SchedTop, SchedAcquire, SchedSkip, SchedBack
  <2>2. QED
    BY <2>1 DEF InState, StateFits
<1>2. CASE SchedRun(c)
  <2>1. PICK q \in Procs : q = scan[c]
    BY DEF TypeOK
  <2>2. /\ stack[c] = Scheduler /\ stack' = [stack EXCEPT ![c] = q]
        /\ state' = [state EXCEPT ![q] = "RUNNING"] /\ UNCHANGED <<pc, chan, idx>>
    BY <1>2, <2>1 DEF SchedRun
  <2>3. ASSUME NEW r \in Procs \ {q} PROVE StateFits(r)'
    <3>1. \A d \in Cpus : stack'[d] = r <=> stack[d] = r
      BY <2>2 DEF TypeOK, Procs, Scheduler
    <3>2. state'[r] = state[r]
      BY <2>2 DEF TypeOK
    <3>3. QED
      BY <2>2, <3>1, <3>2 DEF InState, StateFits
  <2>4. StateFits(q)'
    <3>1. stack'[c] = q /\ state'[q] = "RUNNING"
      BY <2>2 DEF TypeOK
    <3>2. pc[q] \in Away
      BY <1>2, <2>1, FreeThread DEF SchedRun, InState, StateFits
    <3>3. QED
      BY <2>2, <3>1, <3>2 DEF StateFits, Away, InState
  <2>5. QED
    BY <2>3, <2>4 DEF InState
<1>3. CASE SleepSched(c, p) \/ YieldSched(c, p)
  <2>1. /\ stack[c] = p /\ stack' = [stack EXCEPT ![c] = Scheduler]
        /\ UNCHANGED <<state, chan, idx>>
    BY <1>3 DEF SleepSched, YieldSched, sched, On
  <2>2. \/ pc[p] = "sched" /\ pc' = [pc EXCEPT ![p] = "slept"]
        \/ pc[p] = "ysched" /\ pc' = [pc EXCEPT ![p] = "yielded"]
    BY <1>3 DEF SleepSched, YieldSched, sched, On, Goto
  <2>3. \A d \in Cpus : stack'[d] # p
    BY <2>1 DEF TypeOK, Placed, Procs, Scheduler
  <2>4. StateFits(p)'
    BY <2>1, <2>2, <2>3 DEF InState, StateFits, Away, TypeOK
  <2>5. ASSUME NEW q \in Procs \ {p} PROVE StateFits(q)'
    <3>1. \A d \in Cpus : stack'[d] = q <=> stack[d] = q
      BY <2>1 DEF TypeOK, Procs, Scheduler
    <3>2. pc'[q] = pc[q]
      BY <2>2 DEF TypeOK
    <3>3. QED
      BY <2>1, <3>1, <3>2 DEF InState, StateFits
  <2>6. QED
    BY <2>4, <2>5 DEF InState
<1>4. CASE SleepMark(c, p) \/ YieldSpin(c, p)
  <2>1. stack[c] = p /\ UNCHANGED <<stack, idx>>
    BY <1>4 DEF SleepMark, YieldSpin, On, switch
  <2>2. \/ state'[p] = "SLEEPING" /\ pc'[p] = "sched" /\ chan'[p]
        \/ state'[p] = "RUNNABLE" /\ pc'[p] = "ysched"
    BY <1>4 DEF SleepMark, YieldSpin, Goto, TypeOK
  <2>3. \A q \in Procs \ {p} : state'[q] = state[q] /\ pc'[q] = pc[q] /\ chan'[q] = chan[q]
    BY <1>4 DEF SleepMark, YieldSpin, Goto, TypeOK
  <2>4. QED
    BY <2>1, <2>2, <2>3 DEF InState, StateFits
<1>5. CASE WakeOne(c, p)
  <2>1. stack[c] = p /\ UNCHANGED <<stack, chan>> /\ pc[p] = "wakespin" /\ pc'[p] = "wake"
    BY <1>5 DEF WakeOne, On, Goto, switch, TypeOK
  <2>2. ASSUME NEW q \in Procs
        PROVE  \/ state'[q] = state[q]
               \/ state[q] = "SLEEPING" /\ state'[q] = "RUNNABLE"
    BY <1>5 DEF WakeOne, TypeOK
  <2>3. \A q \in Procs \ {p} : pc'[q] = pc[q] /\ idx'[q] = idx[q]
    BY <1>5 DEF WakeOne, Goto, TypeOK
  <2>4. QED
    BY <2>1, <2>2, <2>3 DEF InState, StateFits
<1>6. CASE \/ forkret(c, p) \/ AcquireLk(c, p) \/ SpinLk(c, p) \/ Consume(c, p)
           \/ SleepAcquire(c, p) \/ SleepSpin(c, p) \/ SleepRelease(c, p)
           \/ SleepWoken(c, p) \/ SetReady(c, p) \/ WakeAcquire(c, p) \/ WakeDone(c, p)
           \/ TimerTrap(c, p) \/ YieldAcquire(c, p) \/ YieldResume(c, p) \/ TrapReturn(c, p)
  <2>1. stack[c] = p /\ UNCHANGED <<stack, state>> /\ pc[p] \notin {"sched", "ysched"}
    BY <1>6 DEF forkret, On, switch, AcquireLk, SpinLk, Consume, SleepAcquire, SleepSpin,
                SleepRelease, SleepWoken, SetReady, WakeAcquire, WakeDone, TimerTrap,
                YieldAcquire, YieldResume, TrapReturn
  <2>2. /\ pc'[p] \notin {"sched", "slept", "ysched"}
        /\ pc'[p] = "wakespin" => idx'[p] \in Procs
    BY <1>6, NPROCAssumption DEF forkret, On, Goto, AcquireLk, SpinLk, Consume,
                                 SleepAcquire, SleepSpin, SleepRelease, SleepWoken,
                                 SetReady, WakeAcquire, WakeDone, TimerTrap, YieldAcquire,
                                 YieldResume, TrapReturn, TypeOK, Procs
  <2>3. \A q \in Procs \ {p} : pc'[q] = pc[q] /\ chan'[q] = chan[q] /\ idx'[q] = idx[q]
    BY <1>6 DEF forkret, Goto, AcquireLk, SpinLk, Consume, SleepAcquire, SleepSpin,
                SleepRelease, SleepWoken, SetReady, WakeAcquire, WakeDone, TimerTrap,
                YieldAcquire, YieldResume, TrapReturn, TypeOK
  <2>4. QED
    BY <2>1, <2>2, <2>3 DEF InState, StateFits
<1>7. QED
  BY <1>1, <1>2, <1>3, <1>4, <1>5, <1>6 DEF Step, Loop, Thread

\* A thread inside the condition's critical section keeps the others out.
LEMMA LkExcludes ==
  ASSUME SchedInv, NEW p \in Procs, NEW q \in Procs, pc[p] \in LkLocked, pc[q] \in LkLocked
  PROVE  p = q
<1> InState /\ p # Scheduler /\ q # Scheduler /\ \A c \in Cpus : LkRight(c)
  BY DEF SchedInv, Locked, Procs, Scheduler
<1>1. PICK c \in Cpus : stack[c] = p
  BY DEF InState, StateFits, Away, LkLocked
<1>2. PICK d \in Cpus : stack[d] = q
  BY DEF InState, StateFits, Away, LkLocked
<1>3. QED
  BY <1>1, <1>2 DEF LkRight

\* The loop of a wakeup() never finds the lock of a thread free that is about to sleep.
LEMMA SleeperLocked ==
  ASSUME SchedInv, NEW p \in Procs, pc[p] = "sleep"
  PROVE  plock[p] # NoCpu
<1> InState /\ Placed /\ p # Scheduler /\ OwnRight /\ NoCpu \notin Cpus
  BY CpusAssumption DEF SchedInv, Locked, Procs, Scheduler, NoCpu
<1>1. PICK c \in Cpus : stack[c] = p
  BY DEF InState, StateFits, Away
<1>2. QED
  BY <1>1 DEF Placed, OwnRight, Holds, OwnLocked

\* No step loses a wakeup.
LEMMA WakingKept ==
  ASSUME SchedInv, NEW c \in Cpus, NEW p \in Procs, Step(c, p)
  PROVE  Waking'
<1> TypeOK /\ InState /\ Waking
  BY DEF SchedInv
<1>1. ASSUME ~ready'
      PROVE  Waking'
  BY <1>1 DEF Waking
<1>2. ASSUME ready' = ready, idx' = idx,
             \A q \in Procs :
               /\ state'[q] = "SLEEPING" => state[q] = "SLEEPING" \/ pc[q] = "sleep"
               /\ pc[q] \in {"wake", "wakespin"} => pc'[q] \in {"wake", "wakespin"}
               /\ pc'[q] \in {"sleepspin", "sleeprel"} => pc[q] \in {"sleepspin", "sleeprel"}
               /\ pc'[q] = "sleep" => pc[q] = "sleep"
      PROVE  Waking'
  BY <1>2 DEF Waking, Coming
<1>3. CASE Loop(c)
  <2>1. UNCHANGED <<pc, idx, ready>>
    BY <1>3 DEF Loop, SchedTop, SchedAcquire, SchedSkip, SchedRun, SchedBack
  <2>2. \A q \in Procs : state'[q] = "SLEEPING" => state[q] = "SLEEPING"
    BY <1>3 DEF Loop, SchedTop, SchedAcquire, SchedSkip, SchedRun, SchedBack, TypeOK
  <2>3. QED
    BY <2>1, <2>2, <1>2
<1>4. CASE Consume(c, p) \/ SleepAcquire(c, p) \/ SleepRelease(c, p)
  BY <1>4, <1>1 DEF Consume, SleepAcquire, SleepRelease, On, Waking
<1>5. CASE \/ forkret(c, p) \/ AcquireLk(c, p) \/ SpinLk(c, p) \/ SleepSpin(c, p)
           \/ SleepMark(c, p) \/ SleepSched(c, p) \/ SleepWoken(c, p) \/ WakeAcquire(c, p)
           \/ TimerTrap(c, p) \/ YieldAcquire(c, p) \/ YieldSpin(c, p) \/ YieldSched(c, p)
           \/ YieldResume(c, p) \/ TrapReturn(c, p)
  <2>1. UNCHANGED <<idx, ready>>
    BY <1>5 DEF forkret, AcquireLk, SpinLk, SleepSpin, SleepMark, SleepSched, sched,
                SleepWoken, WakeAcquire, TimerTrap, YieldAcquire, YieldSpin, YieldSched,
                YieldResume, TrapReturn
  <2>2. /\ pc[p] \in {"wake", "wakespin"} => pc'[p] = "wakespin"
        /\ pc'[p] \in {"sleepspin", "sleeprel"} => pc[p] = "sleepspin"
        /\ pc'[p] # "sleep"
    BY <1>5 DEF forkret, AcquireLk, SpinLk, SleepSpin, SleepMark, SleepSched, sched,
                SleepWoken, WakeAcquire, TimerTrap, YieldAcquire, YieldSpin, YieldSched,
                YieldResume, TrapReturn, On, Goto, TypeOK
  <2>3. \A q \in Procs \ {p} : pc'[q] = pc[q] /\ state'[q] = state[q]
    BY <1>5 DEF forkret, AcquireLk, SpinLk, SleepSpin, SleepMark, SleepSched, sched,
                SleepWoken, WakeAcquire, TimerTrap, YieldAcquire, YieldSpin, YieldSched,
                YieldResume, TrapReturn, Goto, TypeOK
  <2>4. state'[p] = "SLEEPING" => state[p] = "SLEEPING" \/ pc[p] = "sleep"
    BY <1>5 DEF forkret, AcquireLk, SpinLk, SleepSpin, SleepMark, SleepSched, sched,
                SleepWoken, WakeAcquire, TimerTrap, YieldAcquire, YieldSpin, YieldSched,
                YieldResume, TrapReturn, On, TypeOK
  <2>5. QED
    BY <2>1, <2>2, <2>3, <2>4, <1>2
<1>6. CASE SetReady(c, p)
  <2>1. /\ pc[p] = "set" /\ pc' = [pc EXCEPT ![p] = "wake"] /\ idx' = [idx EXCEPT ![p] = 1]
    BY <1>6 DEF SetReady, On, Goto
  <2>2. \A q \in Procs : pc'[q] \notin {"sleepspin", "sleeprel"}
    BY <2>1, LkExcludes DEF LkLocked, TypeOK
  <2>3. \A q \in Procs : Coming(q)'
    BY <2>1 DEF Coming, TypeOK, Procs
  <2>4. QED
    BY <2>2, <2>3 DEF Waking
<1>7. CASE WakeOne(c, p)
  <2>1. /\ pc[p] = "wakespin" /\ pc' = [pc EXCEPT ![p] = "wake"]
        /\ idx' = [idx EXCEPT ![p] = @ + 1] /\ UNCHANGED ready /\ plock[idx[p]] = NoCpu
    BY <1>7 DEF WakeOne, On, Goto
  <2>2. ASSUME NEW q \in Procs, pc'[q] = "sleep" \/ state'[q] = "SLEEPING", ready'
        PROVE  Coming(q)'
    <3>1. pc[q] = "sleep" \/ state[q] = "SLEEPING"
      BY <1>7, <2>1, <2>2 DEF WakeOne, TypeOK
    <3>2. idx[p] <= q
      BY <2>1, <2>2, <3>1, LkExcludes DEF Waking, Coming, LkLocked
    <3>3. ASSUME idx[p] = q PROVE FALSE
      <4>1. pc[q] # "sleep"
        BY <2>1, <3>3, SleeperLocked
      <4>2. state[q] = "SLEEPING" /\ chan[q]
        BY <3>1, <4>1 DEF InState, StateFits
      <4>3. state'[q] = "RUNNABLE" /\ pc'[q] # "sleep"
        BY <1>7, <2>1, <3>3, <4>1, <4>2 DEF WakeOne, TypeOK
      <4>4. QED
        BY <2>2, <4>3
    <3>4. idx'[p] <= q
      BY <2>1, <3>2, <3>3 DEF TypeOK, Procs
    <3>5. QED
      BY <2>1, <3>4 DEF Coming, TypeOK
  <2>3. \A q \in Procs : pc'[q] \in {"sleepspin", "sleeprel"} => ~ready'
    BY <2>1 DEF Waking, TypeOK
  <2>4. QED
    BY <2>2, <2>3 DEF Waking
<1>8. CASE WakeDone(c, p)
  <2>1. /\ pc[p] = "wake" /\ idx[p] = NPROC + 1 /\ pc' = [pc EXCEPT ![p] = "run"]
        /\ UNCHANGED <<ready, state>>
    BY <1>8 DEF WakeDone, On, Goto
  <2>2. ASSUME NEW q \in Procs PROVE ~Coming(q)
    BY <2>1, LkExcludes, NPROCAssumption DEF Coming, LkLocked, Procs
  <2>3. QED
    BY <2>1, <2>2 DEF Waking, TypeOK
<1>9. QED
  BY <1>3, <1>4, <1>5, <1>6, <1>7, <1>8 DEF Step, Thread
-----------------------------------------------------------------------------
(* The invariant. *)

LEMMA SchedInitial == Init => SchedInv
<1> SUFFICES ASSUME Init PROVE SchedInv
  OBVIOUS
<1> NoCpu \notin Cpus /\ 1 \in Procs /\ Scheduler \notin Procs
  BY CpusAssumption, NPROCAssumption DEF NoCpu, Procs, Scheduler
<1>1. TypeOK
  <2>1. noff \in [Cpus -> 0..2] /\ intena \in [Cpus -> BOOLEAN] /\ sie \in [Cpus -> BOOLEAN]
    BY DEF Init
  <2>2. SwitchTypes /\ LockTypes /\ ProcTypes
    BY DEF Init, SwitchTypes, LockTypes, ProcTypes
  <2>3. 1 \in 1..(NPROC + 1)
    BY NPROCAssumption
  <2>4. ThreadTypes
    BY <2>3 DEF Init, ThreadTypes, Labels
  <2>5. QED
    BY <2>1, <2>2, <2>4 DEF TypeOK, SwitchTypes, LockTypes, ProcTypes, ThreadTypes
<1>2. Placed
  BY DEF Init, Placed
<1>3. Locked
  BY DEF Init, Locked, OwnRight, Holds, LkRight
<1>4. InState
  BY DEF Init, InState, StateFits, Away
<1>5. Depth
  BY DEF Init, Depth, DepthAt
<1>6. Restored
  BY DEF Init, Restored, RegistersRight, SavedRight
<1>7. Waking
  BY DEF Init, Waking
<1>8. QED
  BY <1>1, <1>2, <1>3, <1>4, <1>5, <1>6, <1>7 DEF SchedInv

LEMMA SchedStepKept ==
  ASSUME SchedInv, NEW c \in Cpus, NEW p \in Procs, Step(c, p)
  PROVE  SchedInv'
<1>1. HartTypes' /\ SwitchTypes' /\ LockTypes' /\ ProcTypes' /\ ThreadTypes'
  BY HartTypesKept, SwitchTypesKept, LockTypesKept, ProcTypesKept, ThreadTypesKept
<1>2. Depth'
  BY DepthKept
<1>3. noff' \in [Cpus -> 0..2]
  <2>1. ASSUME NEW d \in Cpus PROVE noff'[d] \in 0..2
    BY <1>2 DEF Depth, DepthAt, Nesting
  <2>2. QED
    BY <1>1, <2>1 DEF HartTypes
<1>4. TypeOK'
  BY <1>1, <1>3 DEF TypeOK, HartTypes, SwitchTypes, LockTypes, ProcTypes, ThreadTypes
<1>5. Placed' /\ Locked'
  BY PlacedKept, OwnKept, LkKept DEF Locked
<1>6. InState' /\ Restored' /\ Waking'
  BY InStateKept, RestoredKept, WakingKept
<1>7. QED
  BY <1>2, <1>4, <1>5, <1>6 DEF SchedInv

LEMMA SchedNextKept == SchedInv /\ [Next]_vars => SchedInv'
<1> SUFFICES ASSUME SchedInv, [Next]_vars PROVE SchedInv'
  OBVIOUS
<1>1. CASE Next
  <2>1. 1 \in Procs
    BY NPROCAssumption DEF Procs
  <2>2. \E c \in Cpus, p \in Procs : Step(c, p)
    BY <1>1, <2>1 DEF Next, Hart, Timer, Step
  <2>3. QED
    BY <2>2, SchedStepKept
<1>2. CASE UNCHANGED vars
  <2>1. TypeOK' /\ Waking'
    BY <1>2 DEF vars, SchedInv, TypeOK, Waking, Coming
  <2>2. Placed' /\ Locked' /\ InState'
    BY <1>2 DEF vars, SchedInv, Placed, Locked, OwnRight, Holds, LkRight, InState, StateFits
  <2>3. Depth' /\ Restored'
    BY <1>2 DEF vars, SchedInv, Depth, DepthAt, Restored, RegistersRight, SavedRight
  <2>4. QED
    BY <2>1, <2>2, <2>3 DEF SchedInv
<1>3. QED
  BY <1>1, <1>2

\* Whatever the harts do, a hart's place says which locks it holds, how deep its
\* push_off()s nest, and what they restore.
THEOREM SchedInvariance == Spec => []SchedInv
<1>1. Init => SchedInv
  BY SchedInitial
<1>2. SchedInv /\ [Next]_vars => SchedInv'
  BY SchedNextKept
<1>3. QED
  BY <1>1, <1>2, PTL DEF Spec
-----------------------------------------------------------------------------
(* What follows from it. *)

\* Every variable keeps to its values; in particular push_off() never nests deeper
\* than two.
THEOREM SchedTypeCorrect == Spec => []TypeOK
<1>1. SchedInv => TypeOK
  BY DEF SchedInv
<1>2. QED
  BY <1>1, SchedInvariance, PTL

\* No two harts execute on one kernel stack, and myproc() is whose stack it is.
THEOREM StackHasOneHart == Spec => []OneStackOneHart
<1>1. SchedInv => OneStackOneHart
  BY DEF SchedInv, Placed, OneStackOneHart
<1>2. QED
  BY <1>1, SchedInvariance, PTL

\* sched() is never called in a way that makes it panic.
THEOREM SchedPanicsNever == Spec => []SchedNeverPanics
<1>1. ASSUME SchedInv PROVE SchedNeverPanics
  <2> SUFFICES ASSUME NEW c \in Cpus, NEW p \in Procs,
                      On(c, p, "sched") \/ On(c, p, "ysched")
               PROVE  SchedAllowed(c, p)
    BY DEF SchedNeverPanics
  <2>1. stack[c] = p /\ pc[p] \in {"sched", "ysched"} /\ p # Scheduler
    BY DEF On, Procs, Scheduler
  <2>2. plock[p] = c
    BY <1>1, <2>1, ThreadHolds DEF Holds, OwnLocked
  <2>3. noff[c] = 1
    BY <1>1, <2>1 DEF SchedInv, Depth, DepthAt, Nesting
  <2>4. state[p] # "RUNNING"
    BY <1>1, <2>1 DEF SchedInv, InState, StateFits
  <2>5. ~sie[c]
    BY <1>1, <2>3 DEF SchedInv, Restored, RegistersRight
  <2>6. QED
    BY <2>2, <2>3, <2>4, <2>5 DEF SchedAllowed
<1>2. QED
  BY <1>1, SchedInvariance, PTL

\* The locks a hart holds: those of its thread's place, or the one it switched with.
LEMMA LocksCounted ==
  ASSUME SchedInv, NEW c \in Cpus
  PROVE  noff[c] = Cardinality({p \in Procs : plock[p] = c})
                   + (IF lk = c THEN 1 ELSE 0) + (IF Spinning(c) THEN 1 ELSE 0)
<1> DEFINE Own == {p \in Procs : plock[p] = c}
<1> TypeOK /\ Placed /\ OwnRight /\ LkRight(c) /\ DepthAt(c)
  BY DEF SchedInv, Locked, Depth
<1>1. CASE stack[c] = Scheduler
  <2>1. lk # c /\ (Spinning(c) <=> spc[c] = "spin")
    BY <1>1 DEF LkRight, Spinning
  <2>2. CASE spc[c] = "back"
    <3>1. Own = {scan[c]}
      BY <1>1, <2>2 DEF OwnRight, Holds, TypeOK, Procs, Scheduler
    <3>2. Cardinality(Own) = 1
      BY <3>1, FS_Singleton
    <3>3. QED
      BY <1>1, <2>1, <2>2, <3>2 DEF DepthAt
  <2>3. CASE spc[c] # "back"
    <3>1. Own = {}
      BY <2>3 DEF OwnRight, Holds
    <3>2. Cardinality(Own) = 0
      BY <3>1, FS_EmptySet
    <3>3. QED
      BY <1>1, <2>1, <2>3, <3>2 DEF DepthAt, TypeOK
  <2>4. QED
    BY <2>2, <2>3
<1>2. CASE stack[c] # Scheduler
  <2>1. PICK p \in Procs : stack[c] = p /\ spc[c] = "back" /\ scan[c] = p
    BY <1>2 DEF TypeOK, Placed
  <2>2. /\ lk = c <=> pc[p] \in LkLocked
        /\ Spinning(c) <=> pc[p] \in Spins
        /\ noff[c] = Nesting(pc[p])
    BY <1>2, <2>1 DEF LkRight, Spinning, Spins, DepthAt
  <2>3. Own = IF pc[p] \in OwnLocked THEN {p} ELSE {}
    BY <2>1 DEF OwnRight, Holds
  <2>4. Cardinality(Own) = IF pc[p] \in OwnLocked THEN 1 ELSE 0
    BY <2>3, FS_Singleton, FS_EmptySet
  <2>5. pc[p] \in Labels
    BY DEF TypeOK
  <2>6. QED
    BY <2>2, <2>4, <2>5 DEF Nesting, OwnLocked, LkLocked, Spins, Labels
<1>3. QED
  BY <1>1, <1>2

\* noff counts the spinlocks of its hart, interrupts are off while there is one, and a
\* thread finds its own interrupt state again on every hart.
THEOREM InterruptsRight == Spec => []InterruptsFollowLocks
<1>1. ASSUME SchedInv PROVE NoffCountsLocks
  <2>1. \A c \in Cpus : noff[c] > 0 => ~sie[c]
    BY <1>1 DEF SchedInv, Restored, RegistersRight
  <2>2. QED
    BY <1>1, <2>1, LocksCounted DEF NoffCountsLocks
<1>2. ASSUME SchedInv PROVE IntrFollowsThread
  BY <1>2 DEF SchedInv, Restored, RegistersRight, IntrFollowsThread, On, Procs, Scheduler
<1>3. QED
  BY <1>1, <1>2, SchedInvariance, PTL DEF InterruptsFollowLocks

\* A thread that sleeps although the condition holds is still to be reached by the loop of
\* a wakeup().
THEOREM SleepMissesNoWakeup == Spec => []NoLostWakeup
<1>1. SchedInv => NoLostWakeup
  BY DEF SchedInv, Waking, Coming, NoLostWakeup
<1>2. QED
  BY <1>1, SchedInvariance, PTL
=============================================================================
