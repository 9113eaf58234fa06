-------------------------------- MODULE Traps --------------------------------
(***************************************************************************)
(* Interrupts and time (xv6-labs/kernel/trap.c: devintr, clockintr; plic.c;    *)
(* timervec in kernelvec.S; sysproc.c: sys_sleep).  A hart that has trapped    *)
(* has supervisor interrupts off until it returns, but a machine-mode timer    *)
(* interrupt is always taken.                                                 *)
(*                                                                           *)
(* clockintr() and what sys_sleep() does between two sleeps hold tickslock     *)
(* all the time.  kill() does not take it, so the test of killed and the sleep() *)
(* that follows are two steps; from sleep()'s acquire() of p->lock on, kill()   *)
(* and wakeup() wait.  That sleep() misses no wakeup is shown in Sched.        *)
(***************************************************************************)
EXTENDS Integers, FiniteSets

CONSTANTS Harts, Hart0,       \* Hart0 counts the ticks: cpuid() == 0
          Irqs, NoIrq,        \* what the PLIC knows of; NoIrq is its 0
          Sleepers,           \* processes that call sleep()
          TickWrap,           \* ticks is a uint: this is 2^32
          Durations,          \* bound: the ints that sleep() is given
          MaxFires            \* bound: timer interrupts of Hart0

ASSUME TrapsAssumption ==
  /\ Hart0 \in Harts /\ NoIrq \notin Irqs
  /\ TickWrap \in Nat \ {0} /\ Durations \subseteq Int /\ MaxFires \in Nat
  /\ \A n \in Durations : n < TickWrap    \* an int is below 2^32

VARIABLES
  ssip,      \* the hart's software interrupt is pending (sip)
  trapAt,    \* where in kerneltrap() or usertrap() the hart is
  irqOf,     \* irq of its devintr()
  line,      \* the device wants to be served
  raised, inService,   \* the PLIC's gateways
  ticks,
  sleeper,   \* of a process: where in sys_sleep(), n, ticks0, killed
  fires,     \* bound: how often Hart0's timer has fired
  slept      \* history: ticks and timer interrupts since the call of sys_sleep(), and
             \* the ticks there were when the process was killed

trapVars == <<ssip, trapAt, irqOf, line, raised, inService, ticks, sleeper, fires, slept>>
timeVars == <<ticks, sleeper, slept>>
plicVars == <<irqOf, line, raised, inService>>

Unslept == [ticks |-> 0, fires |-> 0, killed |-> 0]
Awake == [at |-> "out", n |-> 0, ticks0 |-> 0, killed |-> FALSE]

TrapsInit ==
  /\ ssip = [h \in Harts |-> FALSE] /\ trapAt = [h \in Harts |-> "run"]
  /\ irqOf = [h \in Harts |-> NoIrq]
  /\ line = {} /\ raised = {} /\ inService = {}
  /\ ticks \in {0, TickWrap - 1}
  /\ sleeper = [p \in Sleepers |-> Awake]
  /\ fires = 0 /\ slept = [p \in Sleepers |-> Unslept]

GoesTo(h, a, b) == trapAt[h] = a /\ trapAt' = [trapAt EXCEPT ![h] = b]

-----------------------------------------------------------------------------
\* timervec: the next interrupt is set up, a software interrupt raised.
TimerFires(h) ==
  /\ h = Hart0 => fires < MaxFires
  /\ ssip' = [ssip EXCEPT ![h] = TRUE]
  /\ IF h = Hart0
     THEN /\ fires' = fires + 1
          /\ slept' = [p \in Sleepers |-> [slept[p] EXCEPT !.fires = @ + 1]]
     ELSE ~ssip[h] /\ UNCHANGED <<fires, slept>>
  /\ UNCHANGED <<trapAt, plicVars, ticks, sleeper>>

SoftwareTrap(h) ==
  /\ ssip[h] /\ GoesTo(h, "run", "soft")
  /\ UNCHANGED <<ssip, plicVars, timeVars, fires>>

\* wakeup(&ticks)
WokenUp(s) == IF s.at = "asleep" THEN [s EXCEPT !.at = "runnable"] ELSE s

\* Mutant of Wakes: only a process whose time is over is woken.
WakesOnlyDue(s) == IF s.at = "asleep" /\ ticks - s.ticks0 >= s.n THEN [s EXCEPT !.at = "runnable"] ELSE s
Wakes(s) == WokenUp(s)

\* Nobody is between the test in sys_sleep() and the sleep() that gives the lock up.
TickslockFree == \A p \in Sleepers : sleeper[p].at # "tested"

\* clockintr() on Hart0; the other harts only acknowledge.
Clock(h) ==
  /\ GoesTo(h, "soft", "softack")
  /\ IF h = Hart0
     THEN /\ TickslockFree
          /\ ticks' = (ticks + 1) % TickWrap
          /\ sleeper' = [p \in Sleepers |-> Wakes(sleeper[p])]
          /\ slept' = [p \in Sleepers |-> [slept[p] EXCEPT !.ticks = @ + 1]]
     ELSE UNCHANGED timeVars
  /\ UNCHANGED <<ssip, plicVars, fires>>

\* w_sip(): an interrupt that fired after clockintr() is forgotten with the others.
AckSoftware(h) ==
  /\ GoesTo(h, "softack", "run")
  /\ ssip' = [ssip EXCEPT ![h] = FALSE]
  /\ UNCHANGED <<plicVars, timeVars, fires>>

-----------------------------------------------------------------------------
\* A device raises its interrupt; the PLIC passes one at a time.
DeviceRaises(i) ==
  /\ i \notin line /\ line' = line \cup {i}
  /\ raised' = IF i \in inService THEN raised ELSE raised \cup {i}
  /\ UNCHANGED <<ssip, trapAt, irqOf, inService, timeVars, fires>>

\* Every hart that has interrupts on may trap for it.
ExternalTrap(h) ==
  /\ raised # {} /\ GoesTo(h, "run", "claim")
  /\ UNCHANGED <<ssip, plicVars, timeVars, fires>>

\* plic_claim(): the interrupt, or 0 when another hart was faster.
Claim(h) ==
  /\ \/ \E i \in raised :
          /\ GoesTo(h, "claim", "handle")
          /\ irqOf' = [irqOf EXCEPT ![h] = i]
          /\ raised' = raised \ {i} /\ inService' = inService \cup {i}
     \/ /\ raised = {} /\ GoesTo(h, "claim", "run")
        /\ UNCHANGED <<irqOf, raised, inService>>
  /\ UNCHANGED <<ssip, line, timeVars, fires>>

\* uartintr() or virtio_disk_intr() tells the device that it was served, and goes on.
Serve1(h) ==
  /\ GoesTo(h, "handle", "complete")
  /\ line' = line \ {irqOf[h]}
  /\ UNCHANGED <<ssip, irqOf, raised, inService, timeVars, fires>>

\* Mutant of CompleteIrq: plic_complete() is left out.
CompleteIrqNot(h) ==
  /\ GoesTo(h, "complete", "run")
  /\ irqOf' = [irqOf EXCEPT ![h] = NoIrq]
  /\ UNCHANGED <<ssip, line, raised, inService, timeVars, fires>>

\* plic_complete(): the device may interrupt again, and does if it has more.
CompleteIrq(h) ==
  /\ GoesTo(h, "complete", "run")
  /\ irqOf' = [irqOf EXCEPT ![h] = NoIrq]
  /\ inService' = inService \ {irqOf[h]}
  /\ raised' = raised \cup (line \cap {irqOf[h]})
  /\ UNCHANGED <<ssip, line, timeVars, fires>>

-----------------------------------------------------------------------------
\* The loop of sys_sleep() up to the call of sleep(): n is converted to a uint.
Elapsed(s) == (ticks - s.ticks0) % TickWrap
SleepLoop(s) ==
  IF Elapsed(s) < s.n % TickWrap
  THEN IF s.killed THEN [s EXCEPT !.at = "minus1"] ELSE [s EXCEPT !.at = "tested"]
  ELSE [s EXCEPT !.at = "zero"]

SleepCall(p) ==
  /\ sleeper[p].at = "out" /\ TickslockFree
  /\ \E n \in Durations :
       sleeper' = [sleeper EXCEPT ![p] = SleepLoop([@ EXCEPT !.n = n, !.ticks0 = ticks])]
  /\ slept' = [slept EXCEPT ![p] = Unslept]
  /\ UNCHANGED <<ssip, trapAt, plicVars, ticks, fires>>

\* sleep(&ticks, &tickslock), whether or not it was killed since the test.
FallsAsleep(p) ==
  /\ sleeper[p].at = "tested"
  /\ sleeper' = [sleeper EXCEPT ![p].at = "asleep"]
  /\ UNCHANGED <<ssip, trapAt, plicVars, ticks, fires, slept>>

SleepGoesOn(p) ==
  /\ sleeper[p].at = "runnable" /\ TickslockFree
  /\ sleeper' = [sleeper EXCEPT ![p] = SleepLoop(@)]
  /\ UNCHANGED <<ssip, trapAt, plicVars, ticks, fires, slept>>

\* kill() makes a sleeping process runnable.
KillSleeper(p) ==
  /\ ~sleeper[p].killed
  /\ sleeper' = [sleeper EXCEPT ![p] = [WokenUp(@) EXCEPT !.killed = TRUE]]
  /\ slept' = [slept EXCEPT ![p].killed = slept[p].ticks]
  /\ UNCHANGED <<ssip, trapAt, plicVars, ticks, fires>>

\* It returns to the program, or exits if it was killed.
SleepReturns(p) ==
  /\ sleeper[p].at \in {"zero", "minus1"}
  /\ sleeper' = [sleeper EXCEPT ![p] = IF @.killed THEN [@ EXCEPT !.at = "exited"] ELSE Awake]
  /\ UNCHANGED <<ssip, trapAt, plicVars, ticks, fires, slept>>

TrapsNext ==
  \/ \E h \in Harts : \/ TimerFires(h) \/ SoftwareTrap(h) \/ Clock(h) \/ AckSoftware(h)
                      \/ ExternalTrap(h) \/ Claim(h) \/ Serve1(h) \/ CompleteIrq(h)
  \/ \E i \in Irqs : DeviceRaises(i)
  \/ \E p \in Sleepers : \/ SleepCall(p) \/ FallsAsleep(p) \/ SleepGoesOn(p)
                         \/ KillSleeper(p) \/ SleepReturns(p)

TrapsSpec == TrapsInit /\ [][TrapsNext]_trapVars

-----------------------------------------------------------------------------
\* A device's interrupt is served by one hart at a time, and one that wants to be
\* served is seen: it is raised to the harts, or a hart that has claimed it is still to complete.
IrqsServed ==
  /\ \A g, h \in Harts : g # h /\ irqOf[g] # NoIrq => irqOf[g] # irqOf[h]
  /\ inService = {irqOf[h] : h \in Harts} \ {NoIrq}
  /\ \A i \in line : i \in raised \/ \E h \in Harts : irqOf[h] = i
  /\ raised \cap inService = {}

\* sleep(n) returns 0 only after n ticks, each of them a timer interrupt of its own
\* save the one that may have been pending when the call was made; nobody sleeps on
\* when its time is over; -1 is only for the killed.  A kill that falls between the
\* test and the sleep() is overlooked (sysproc.c:66-70), but not beyond the next tick.
SleepsExact ==
  \A p \in Sleepers : LET s == sleeper[p] IN
    /\ s.at = "zero" /\ s.n >= 0 => slept[p].ticks >= s.n /\ slept[p].fires >= s.n - 1
    /\ s.at = "asleep" => slept[p].ticks % TickWrap < s.n % TickWrap
    /\ s.at = "asleep" /\ s.killed => slept[p].killed = slept[p].ticks
    /\ s.at = "minus1" => s.killed

TicksSound == IrqsServed /\ SleepsExact
=============================================================================
