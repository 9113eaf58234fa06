----------------------------- MODULE ProcProofs -----------------------------
(***************************************************************************)
(* Proofs about Proc, for every NPROC, MaxPid and MemFail.                 *)
(*                                                                         *)
(* IInv is inductive.  One lemma per conjunct says that a step of a thread *)
(* keeps it, with one step of the proof per action; the theorems at the    *)
(* end put them together.  NoLockCycle is false (run proc_stale_parent);   *)
(* what is proved is that nothing but a stale original_parent breaks it.   *)
(***************************************************************************)
EXTENDS Proc, WellFoundedInduction, TLAPS

\* Slots are numbered from 1, initproc is one of them and Null is none.
LEMMA SlotsType ==
  /\ InitProc \in Slots /\ Null \notin Slots
  /\ Slots \subseteq Nat /\ NPROC \in Nat
  /\ \A s \in Slots : 1 <= s /\ s < NPROC + 1
BY NPROCAssumption DEF Slots, InitProc, Null

-----------------------------------------------------------------------------

\* Types: every scan index stays at most one past the last slot.
LEMMA TypeOKStep ==
  ASSUME IInv, NEW p \in Slots, Call(p) \/ Kernel(p)
  PROVE  TypeOK'
<1> TypeOK /\ PcState /\ LockPairing /\ ExitFacts /\ InitAlive
    /\ ParentStable /\ ParentAlive /\ ReparentScan /\ WaitScan /\ NoLostWakeup
  BY DEF IInv
<1>1. CASE Dispatch(p)
  BY <1>1, SlotsType DEF Dispatch, Acquired, locals, TypeOK, procstate, Labels
<1>2. CASE SwitchedOut(p)
  BY <1>2, SlotsType DEF SwitchedOut, Released, table, locals, TypeOK,
    procstate, Labels
<1>3. CASE forkret(p)
  BY <1>3, SlotsType DEF forkret, At, Goto, Released, table, locals, TypeOK,
    procstate, Labels
<1>4. CASE ForkCall(p)
  BY <1>4, SlotsType DEF ForkCall, At, Goto, Scan, table, TypeOK, procstate,
    Labels
<1>5. CASE AllocNext(p)
  <2>1. idx[p] + 1 \in 1..(NPROC + 1)
    BY <1>5, SlotsType DEF AllocNext, At, TypeOK, PcState, Slots
  <2>2. QED
    BY <1>5, <2>1, SlotsType DEF AllocNext, At, Scan, table, TypeOK,
      procstate, Labels
<1>6. CASE AllocNone(p)
  BY <1>6, SlotsType DEF AllocNone, At, Goto, Scan, table, TypeOK, procstate,
    Labels
<1>7. CASE AllocFound(p)
  BY <1>7, SlotsType DEF AllocFound, At, Goto, Acquired, locals, TypeOK,
    procstate, Labels
<1>8. CASE AllocNoTrapframe(p)
  BY <1>8, SlotsType DEF AllocNoTrapframe, At, Goto, Scan, Released, table,
    TypeOK, PcState, procstate, Labels
<1>9. CASE ForkNoMemory(p)
  BY <1>9, SlotsType DEF ForkNoMemory, At, Goto, Scan, Released, freeproc,
    TypeOK, PcState, procstate, Labels
<1>10. CASE ForkDone(p)
  BY <1>10, SlotsType DEF ForkDone, At, Scan, Released, TypeOK, PcState,
    procstate, Labels
<1>11. CASE ExitCall(p)
  BY <1>11, SlotsType DEF ExitCall, At, Goto, locals, wakeup1, TypeOK,
    procstate, Labels
<1>12. CASE ExitReadParent(p)
  BY <1>12, SlotsType DEF ExitReadParent, At, Goto, table, TypeOK, procstate,
    Labels
<1>13. CASE ExitLockParent(p)
  BY <1>13, SlotsType DEF ExitLockParent, At, Goto, Acquired, table, locals,
    TypeOK, procstate, Labels
<1>14. CASE ExitLockSelf(p)
  BY <1>14, SlotsType DEF ExitLockSelf, At, Goto, Scan, Acquired, table,
    TypeOK, procstate, Labels
<1>15. CASE ReparentCheck(p)
  <2>1. CASE parent[idx[p]] = p
    BY <1>15, <2>1, SlotsType DEF ReparentCheck, At, Goto, Scan, table,
      TypeOK, PcState, procstate, Labels
  <2>2. CASE parent[idx[p]] # p
    <3>1. idx[p] + 1 \in 1..(NPROC + 1)
      BY <1>15, SlotsType DEF ReparentCheck, Slots
    <3>2. QED
      BY <1>15, <2>2, <3>1, SlotsType DEF ReparentCheck, At, Goto, Scan,
        table, TypeOK, PcState, procstate, Labels
  <2>3. QED BY <2>1, <2>2
<1>16. CASE ReparentGive(p)
  <2>0. idx[p] \in Slots
    BY <1>16 DEF ReparentGive, At, PcState
  <2>1. idx[p] + 1 \in 1..(NPROC + 1)
    BY <2>0, SlotsType DEF Slots
  <2>2. QED
    BY <1>16, <2>1, SlotsType DEF ReparentGive, At, Goto, Scan, TypeOK,
      procstate, Labels
<1>17. CASE ExitZombie(p)
  BY <1>17, SlotsType DEF ExitZombie, At, Goto, Scan, Released, wakeup1,
    TypeOK, ExitFacts, Exiting, procstate, Labels
<1>18. CASE WaitCall(p)
  BY <1>18, SlotsType DEF WaitCall, At, Goto, Scan, Acquired, table, TypeOK,
    procstate, Labels
<1>19. CASE WaitCheck(p)
  <2>1. CASE parent[idx[p]] = p
    BY <1>19, <2>1, SlotsType DEF WaitCheck, At, Goto, Scan, table, TypeOK,
      PcState, procstate, Labels
  <2>2. CASE parent[idx[p]] # p
    <3>1. idx[p] + 1 \in 1..(NPROC + 1)
      BY <1>19, SlotsType DEF WaitCheck, Slots
    <3>2. QED
      BY <1>19, <2>2, <3>1, SlotsType DEF WaitCheck, At, Goto, Scan, table,
        TypeOK, PcState, procstate, Labels
  <2>3. QED BY <2>1, <2>2
<1>20. CASE WaitAlive(p)
  <2>1. idx[p] + 1 \in 1..(NPROC + 1)
    BY <1>20, SlotsType DEF WaitAlive, At, TypeOK, PcState, Slots
  <2>2. QED
    BY <1>20, <2>1, SlotsType DEF WaitAlive, At, Goto, Scan, table, TypeOK,
      procstate, Labels
<1>21. CASE WaitReap(p)
  BY <1>21, SlotsType DEF WaitReap, At, freeproc, WaitReturns, Released, Goto,
    Scan, TypeOK, PcState, procstate, Labels
<1>22. CASE WaitBadAddress(p)
  BY <1>22, SlotsType DEF WaitBadAddress, At, table, WaitReturns, Released,
    Goto, Scan, TypeOK, procstate, Labels
<1>23. CASE WaitNoKids(p)
  BY <1>23, SlotsType DEF WaitNoKids, At, table, WaitReturns, Released, Goto,
    Scan, TypeOK, procstate, Labels
<1>24. CASE WaitSleep(p)
  BY <1>24, SlotsType DEF WaitSleep, At, Goto, locals, TypeOK, procstate,
    Labels
<1>25. CASE WaitWoken(p)
  BY <1>25, SlotsType DEF WaitWoken, At, Goto, Scan, TypeOK, procstate, Labels
<1>26. CASE KillCall(p)
  BY <1>26, SlotsType, MaxPidAssumption DEF KillCall, At, Goto, Scan, table,
    TypeOK, procstate, Labels, PidOfInit
<1>27. CASE KillNext(p)
  <2>1. idx[p] + 1 \in 1..(NPROC + 1)
    BY <1>27, SlotsType DEF KillNext, At, TypeOK, PcState, Slots
  <2>2. QED
    BY <1>27, <2>1, SlotsType DEF KillNext, At, Scan, table, TypeOK,
      procstate, Labels
<1>28. CASE KillHit(p)
  BY <1>28, SlotsType DEF KillHit, At, KillReturns, Goto, Scan, TypeOK,
    procstate, Labels
<1>29. CASE KillMiss(p)
  BY <1>29, SlotsType DEF KillMiss, At, table, KillReturns, Goto, Scan,
    TypeOK, procstate, Labels
<1>30. QED
  BY <1>1, <1>2, <1>3, <1>4, <1>5, <1>6, <1>7, <1>8, <1>9, <1>10, <1>11,
    <1>12, <1>13, <1>14, <1>15, <1>16, <1>17, <1>18, <1>19, <1>20, <1>21,
    <1>22, <1>23, <1>24, <1>25, <1>26, <1>27, <1>28, <1>29 DEF Call, Kernel,
    Fork, Exit, Wait, Kill

\* A thread's position goes with its process's state.
LEMMA PcStateStep ==
  ASSUME IInv, NEW p \in Slots, Call(p) \/ Kernel(p)
  PROVE  PcState'
<1> TypeOK /\ PcState /\ LockPairing /\ ExitFacts /\ InitAlive
    /\ ParentStable /\ ParentAlive /\ ReparentScan /\ WaitScan /\ NoLostWakeup
  BY DEF IInv
<1>1. CASE Dispatch(p)
  BY <1>1, SlotsType DEF Dispatch, Acquired, locals, PcState
<1>2. CASE SwitchedOut(p)
  BY <1>2, SlotsType DEF SwitchedOut, Released, table, locals, PcState
<1>3. CASE forkret(p)
  BY <1>3, SlotsType DEF forkret, At, Goto, Released, table, locals, PcState
<1>4. CASE ForkCall(p)
  BY <1>4, SlotsType DEF ForkCall, At, Goto, Scan, table, PcState
<1>5. CASE AllocNext(p)
  BY <1>5, SlotsType DEF AllocNext, At, Scan, table, PcState, TypeOK
<1>6. CASE AllocNone(p)
  BY <1>6, SlotsType DEF AllocNone, At, Goto, Scan, table, PcState
<1>7. CASE AllocFound(p)
  BY <1>7, SlotsType DEF AllocFound, At, Goto, Acquired, locals, PcState
<1>8. CASE AllocNoTrapframe(p)
  BY <1>8, SlotsType DEF AllocNoTrapframe, At, Goto, Scan, Released, table,
    PcState, TypeOK
<1>9. CASE ForkNoMemory(p)
  BY <1>9, SlotsType DEF ForkNoMemory, At, Goto, Scan, Released, freeproc,
    PcState, TypeOK
<1>10. CASE ForkDone(p)
  BY <1>10, SlotsType DEF ForkDone, At, Scan, Released, PcState, TypeOK,
    LockPairing, Holds
<1>11. CASE ExitCall(p)
  BY <1>11, SlotsType DEF ExitCall, At, Goto, locals, wakeup1, PcState
<1>12. CASE ExitReadParent(p)
  BY <1>12, SlotsType DEF ExitReadParent, At, Goto, table, PcState
<1>13. CASE ExitLockParent(p)
  BY <1>13, SlotsType DEF ExitLockParent, At, Goto, Acquired, table, locals,
    PcState
<1>14. CASE ExitLockSelf(p)
  BY <1>14, SlotsType DEF ExitLockSelf, At, Goto, Scan, Acquired, table,
    PcState
<1>15. CASE ReparentCheck(p)
  <2>1. CASE parent[idx[p]] = p
    BY <1>15, <2>1, SlotsType DEF ReparentCheck, At, Goto, Scan, table,
      PcState, TypeOK
  <2>2. CASE parent[idx[p]] # p
    BY <1>15, <2>2, SlotsType DEF ReparentCheck, At, Goto, Scan, table,
      PcState, TypeOK
  <2>3. QED BY <2>1, <2>2
<1>16. CASE ReparentGive(p)
  BY <1>16, SlotsType DEF ReparentGive, At, Goto, Scan, PcState, TypeOK,
    ParentStable, InitAlive
<1>17. CASE ExitZombie(p)
  BY <1>17, SlotsType DEF ExitZombie, At, Goto, Scan, Released, wakeup1,
    PcState, TypeOK
<1>18. CASE WaitCall(p)
  BY <1>18, SlotsType DEF WaitCall, At, Goto, Scan, Acquired, table, PcState
<1>19. CASE WaitCheck(p)
  <2>1. CASE parent[idx[p]] = p
    BY <1>19, <2>1, SlotsType DEF WaitCheck, At, Goto, Scan, table, PcState,
      TypeOK
  <2>2. CASE parent[idx[p]] # p
    BY <1>19, <2>2, SlotsType DEF WaitCheck, At, Goto, Scan, table, PcState,
      TypeOK
  <2>3. QED BY <2>1, <2>2
<1>20. CASE WaitAlive(p)
  BY <1>20, SlotsType DEF WaitAlive, At, Goto, Scan, table, PcState, TypeOK
<1>21. CASE WaitReap(p)
  BY <1>21, SlotsType DEF WaitReap, At, freeproc, WaitReturns, Released, Goto,
    Scan, PcState, TypeOK, LockPairing, Holds
<1>22. CASE WaitBadAddress(p)
  BY <1>22, SlotsType DEF WaitBadAddress, At, table, WaitReturns, Released,
    Goto, Scan, PcState, TypeOK
<1>23. CASE WaitNoKids(p)
  BY <1>23, SlotsType DEF WaitNoKids, At, table, WaitReturns, Released, Goto,
    Scan, PcState
<1>24. CASE WaitSleep(p)
  BY <1>24, SlotsType DEF WaitSleep, At, Goto, locals, PcState, TypeOK
<1>25. CASE WaitWoken(p)
  BY <1>25, SlotsType DEF WaitWoken, At, Goto, Scan, PcState
<1>26. CASE KillCall(p)
  BY <1>26, SlotsType DEF KillCall, At, Goto, Scan, table, PcState
<1>27. CASE KillNext(p)
  BY <1>27, SlotsType DEF KillNext, At, Scan, table, PcState, TypeOK
<1>28. CASE KillHit(p)
  BY <1>28, SlotsType DEF KillHit, At, KillReturns, Goto, Scan, PcState
<1>29. CASE KillMiss(p)
  BY <1>29, SlotsType DEF KillMiss, At, table, KillReturns, Goto, Scan,
    PcState
<1>30. QED
  BY <1>1, <1>2, <1>3, <1>4, <1>5, <1>6, <1>7, <1>8, <1>9, <1>10, <1>11,
    <1>12, <1>13, <1>14, <1>15, <1>16, <1>17, <1>18, <1>19, <1>20, <1>21,
    <1>22, <1>23, <1>24, <1>25, <1>26, <1>27, <1>28, <1>29 DEF Call, Kernel,
    Fork, Exit, Wait, Kill

\* acquire() and release() pair up on every path.
LEMMA LockPairingStep ==
  ASSUME IInv, NEW p \in Slots, Call(p) \/ Kernel(p)
  PROVE  LockPairing'
<1> TypeOK /\ PcState /\ LockPairing /\ ExitFacts /\ InitAlive
    /\ ParentStable /\ ParentAlive /\ ReparentScan /\ WaitScan /\ NoLostWakeup
  BY DEF IInv
<1>1. CASE Dispatch(p)
  BY <1>1, SlotsType DEF Dispatch, Acquired, locals, LockPairing, Holds,
    TypeOK, PcState
<1>2. CASE SwitchedOut(p)
  BY <1>2, SlotsType DEF SwitchedOut, Released, table, locals, LockPairing,
    Holds, TypeOK
<1>3. CASE forkret(p)
  BY <1>3, SlotsType DEF forkret, At, Goto, Released, table, locals,
    LockPairing, Holds, TypeOK
<1>4. CASE ForkCall(p)
  BY <1>4, SlotsType DEF ForkCall, At, Goto, Scan, table, LockPairing, Holds
<1>5. CASE AllocNext(p)
  BY <1>5, SlotsType DEF AllocNext, At, Scan, table, LockPairing, Holds,
    TypeOK
<1>6. CASE AllocNone(p)
  BY <1>6, SlotsType DEF AllocNone, At, Goto, Scan, table, LockPairing, Holds
<1>7. CASE AllocFound(p)
  BY <1>7, SlotsType DEF AllocFound, At, Goto, Acquired, locals, LockPairing,
    Holds, TypeOK
<1>8. CASE AllocNoTrapframe(p)
  BY <1>8, SlotsType DEF AllocNoTrapframe, At, Goto, Scan, Released, table,
    LockPairing, Holds, TypeOK
<1>9. CASE ForkNoMemory(p)
  BY <1>9, SlotsType DEF ForkNoMemory, At, Goto, Scan, Released, freeproc,
    LockPairing, Holds, TypeOK
<1>10. CASE ForkDone(p)
  BY <1>10, SlotsType DEF ForkDone, At, Scan, Released, LockPairing, Holds,
    TypeOK, PcState
<1>11. CASE ExitCall(p)
  BY <1>11, SlotsType DEF ExitCall, At, Goto, locals, wakeup1, LockPairing,
    Holds
<1>12. CASE ExitReadParent(p)
  BY <1>12, SlotsType DEF ExitReadParent, At, Goto, table, LockPairing, Holds
<1>13. CASE ExitLockParent(p)
  BY <1>13, SlotsType DEF ExitLockParent, At, Goto, Acquired, table, locals,
    LockPairing, Holds, TypeOK
<1>14. CASE ExitLockSelf(p)
  BY <1>14, SlotsType DEF ExitLockSelf, At, Goto, Scan, Acquired, table,
    LockPairing, Holds, TypeOK
<1>15. CASE ReparentCheck(p)
  <2>1. CASE parent[idx[p]] = p
    BY <1>15, <2>1, SlotsType DEF ReparentCheck, At, Goto, Scan, table,
      LockPairing, Holds, TypeOK
  <2>2. CASE parent[idx[p]] # p
    BY <1>15, <2>2, SlotsType DEF ReparentCheck, At, Goto, Scan, table,
      LockPairing, Holds, TypeOK
  <2>3. QED BY <2>1, <2>2
<1>16. CASE ReparentGive(p)
  BY <1>16, SlotsType DEF ReparentGive, At, Goto, Scan, LockPairing, Holds
<1>17. CASE ExitZombie(p)
  BY <1>17, SlotsType DEF ExitZombie, At, Goto, Scan, Released, wakeup1,
    LockPairing, Holds, TypeOK, PcState, ExitFacts, Exiting
<1>18. CASE WaitCall(p)
  BY <1>18, SlotsType DEF WaitCall, At, Goto, Scan, Acquired, table,
    LockPairing, Holds, TypeOK
<1>19. CASE WaitCheck(p)
  <2>1. CASE parent[idx[p]] = p
    BY <1>19, <2>1, SlotsType DEF WaitCheck, At, Goto, Scan, table,
      LockPairing, Holds, TypeOK
  <2>2. CASE parent[idx[p]] # p
    BY <1>19, <2>2, SlotsType DEF WaitCheck, At, Goto, Scan, table,
      LockPairing, Holds, TypeOK
  <2>3. QED BY <2>1, <2>2
<1>20. CASE WaitAlive(p)
  BY <1>20, SlotsType DEF WaitAlive, At, Goto, Scan, table, LockPairing, Holds
<1>21. CASE WaitReap(p)
  BY <1>21, SlotsType DEF WaitReap, At, freeproc, WaitReturns, Released, Goto,
    Scan, LockPairing, Holds, TypeOK
<1>22. CASE WaitBadAddress(p)
  BY <1>22, SlotsType DEF WaitBadAddress, At, table, WaitReturns, Released,
    Goto, Scan, LockPairing, Holds, TypeOK
<1>23. CASE WaitNoKids(p)
  BY <1>23, SlotsType DEF WaitNoKids, At, table, WaitReturns, Released, Goto,
    Scan, LockPairing, Holds, TypeOK
<1>24. CASE WaitSleep(p)
  BY <1>24, SlotsType DEF WaitSleep, At, Goto, locals, LockPairing, Holds
<1>25. CASE WaitWoken(p)
  BY <1>25, SlotsType DEF WaitWoken, At, Goto, Scan, LockPairing, Holds
<1>26. CASE KillCall(p)
  BY <1>26, SlotsType DEF KillCall, At, Goto, Scan, table, LockPairing, Holds
<1>27. CASE KillNext(p)
  BY <1>27, SlotsType DEF KillNext, At, Scan, table, LockPairing, Holds,
    TypeOK
<1>28. CASE KillHit(p)
  BY <1>28, SlotsType DEF KillHit, At, KillReturns, Goto, Scan, LockPairing,
    Holds
<1>29. CASE KillMiss(p)
  BY <1>29, SlotsType DEF KillMiss, At, table, KillReturns, Goto, Scan,
    LockPairing, Holds
<1>30. QED
  BY <1>1, <1>2, <1>3, <1>4, <1>5, <1>6, <1>7, <1>8, <1>9, <1>10, <1>11,
    <1>12, <1>13, <1>14, <1>15, <1>16, <1>17, <1>18, <1>19, <1>20, <1>21,
    <1>22, <1>23, <1>24, <1>25, <1>26, <1>27, <1>28, <1>29 DEF Call, Kernel,
    Fork, Exit, Wait, Kill

\* An exiting thread's original_parent is its parent, or that was initproc.
LEMMA ExitFactsStep ==
  ASSUME IInv, NEW p \in Slots, Call(p) \/ Kernel(p)
  PROVE  ExitFacts'
<1> TypeOK /\ PcState /\ LockPairing /\ ExitFacts /\ InitAlive
    /\ ParentStable /\ ParentAlive /\ ReparentScan /\ WaitScan /\ NoLostWakeup
  BY DEF IInv
<1>1. CASE Dispatch(p)
  BY <1>1, SlotsType DEF Dispatch, Acquired, locals, ExitFacts, Exiting
<1>2. CASE SwitchedOut(p)
  BY <1>2, SlotsType DEF SwitchedOut, Released, table, locals, ExitFacts,
    Exiting
<1>3. CASE forkret(p)
  BY <1>3, SlotsType DEF forkret, At, Goto, Released, table, locals,
    ExitFacts, Exiting
<1>4. CASE ForkCall(p)
  BY <1>4, SlotsType DEF ForkCall, At, Goto, Scan, table, ExitFacts, Exiting
<1>5. CASE AllocNext(p)
  BY <1>5, SlotsType DEF AllocNext, At, Scan, table, ExitFacts, Exiting,
    TypeOK
<1>6. CASE AllocNone(p)
  BY <1>6, SlotsType DEF AllocNone, At, Goto, Scan, table, ExitFacts, Exiting
<1>7. CASE AllocFound(p)
  BY <1>7, SlotsType DEF AllocFound, At, Goto, Acquired, locals, ExitFacts,
    Exiting
<1>8. CASE AllocNoTrapframe(p)
  BY <1>8, SlotsType DEF AllocNoTrapframe, At, Goto, Scan, Released, table,
    ExitFacts, Exiting
<1>9. CASE ForkNoMemory(p)
  BY <1>9, SlotsType DEF ForkNoMemory, At, Goto, Scan, Released, freeproc,
    ExitFacts, Exiting, TypeOK, PcState
<1>10. CASE ForkDone(p)
  BY <1>10, SlotsType DEF ForkDone, At, Scan, Released, ExitFacts, Exiting,
    TypeOK
<1>11. CASE ExitCall(p)
  BY <1>11, SlotsType DEF ExitCall, At, Goto, locals, wakeup1, ExitFacts,
    Exiting
<1>12. CASE ExitReadParent(p)
  BY <1>12, SlotsType DEF ExitReadParent, At, Goto, table, ExitFacts, Exiting,
    TypeOK, PcState, ParentAlive, InitAlive
<1>13. CASE ExitLockParent(p)
  BY <1>13, SlotsType DEF ExitLockParent, At, Goto, Acquired, table, locals,
    ExitFacts, Exiting
<1>14. CASE ExitLockSelf(p)
  BY <1>14, SlotsType DEF ExitLockSelf, At, Goto, Scan, Acquired, table,
    ExitFacts, Exiting
<1>15. CASE ReparentCheck(p)
  <2>1. CASE parent[idx[p]] = p
    BY <1>15, <2>1, SlotsType DEF ReparentCheck, At, Goto, Scan, table,
      ExitFacts, Exiting, TypeOK
  <2>2. CASE parent[idx[p]] # p
    BY <1>15, <2>2, SlotsType DEF ReparentCheck, At, Goto, Scan, table,
      ExitFacts, Exiting, TypeOK
  <2>3. QED BY <2>1, <2>2
<1>16. CASE ReparentGive(p)
  BY <1>16, SlotsType DEF ReparentGive, At, Goto, Scan, ExitFacts, Exiting,
    TypeOK, PcState, ParentAlive, InitAlive, ParentStable
<1>17. CASE ExitZombie(p)
  BY <1>17, SlotsType DEF ExitZombie, At, Goto, Scan, Released, wakeup1,
    ExitFacts, Exiting, TypeOK
<1>18. CASE WaitCall(p)
  BY <1>18, SlotsType DEF WaitCall, At, Goto, Scan, Acquired, table,
    ExitFacts, Exiting
<1>19. CASE WaitCheck(p)
  <2>1. CASE parent[idx[p]] = p
    BY <1>19, <2>1, SlotsType DEF WaitCheck, At, Goto, Scan, table, ExitFacts,
      Exiting, TypeOK
  <2>2. CASE parent[idx[p]] # p
    BY <1>19, <2>2, SlotsType DEF WaitCheck, At, Goto, Scan, table, ExitFacts,
      Exiting, TypeOK
  <2>3. QED BY <2>1, <2>2
<1>20. CASE WaitAlive(p)
  BY <1>20, SlotsType DEF WaitAlive, At, Goto, Scan, table, ExitFacts, Exiting
<1>21. CASE WaitReap(p)
  BY <1>21, SlotsType DEF WaitReap, At, freeproc, WaitReturns, Released, Goto,
    Scan, ExitFacts, Exiting, TypeOK, PcState
<1>22. CASE WaitBadAddress(p)
  BY <1>22, SlotsType DEF WaitBadAddress, At, table, WaitReturns, Released,
    Goto, Scan, ExitFacts, Exiting
<1>23. CASE WaitNoKids(p)
  BY <1>23, SlotsType DEF WaitNoKids, At, table, WaitReturns, Released, Goto,
    Scan, ExitFacts, Exiting
<1>24. CASE WaitSleep(p)
  BY <1>24, SlotsType DEF WaitSleep, At, Goto, locals, ExitFacts, Exiting
<1>25. CASE WaitWoken(p)
  BY <1>25, SlotsType DEF WaitWoken, At, Goto, Scan, ExitFacts, Exiting
<1>26. CASE KillCall(p)
  BY <1>26, SlotsType DEF KillCall, At, Goto, Scan, table, ExitFacts, Exiting
<1>27. CASE KillNext(p)
  BY <1>27, SlotsType DEF KillNext, At, Scan, table, ExitFacts, Exiting,
    TypeOK
<1>28. CASE KillHit(p)
  BY <1>28, SlotsType DEF KillHit, At, KillReturns, Goto, Scan, ExitFacts,
    Exiting
<1>29. CASE KillMiss(p)
  BY <1>29, SlotsType DEF KillMiss, At, table, KillReturns, Goto, Scan,
    ExitFacts, Exiting
<1>30. QED
  BY <1>1, <1>2, <1>3, <1>4, <1>5, <1>6, <1>7, <1>8, <1>9, <1>10, <1>11,
    <1>12, <1>13, <1>14, <1>15, <1>16, <1>17, <1>18, <1>19, <1>20, <1>21,
    <1>22, <1>23, <1>24, <1>25, <1>26, <1>27, <1>28, <1>29 DEF Call, Kernel,
    Fork, Exit, Wait, Kill

\* initproc neither exits nor gets a parent.
LEMMA InitAliveStep ==
  ASSUME IInv, NEW p \in Slots, Call(p) \/ Kernel(p)
  PROVE  InitAlive'
<1> TypeOK /\ PcState /\ LockPairing /\ ExitFacts /\ InitAlive
    /\ ParentStable /\ ParentAlive /\ ReparentScan /\ WaitScan /\ NoLostWakeup
  BY DEF IInv
<1>1. CASE SwitchedOut(p) \/ forkret(p) \/ ForkCall(p) \/ AllocNext(p)
           \/ AllocNone(p) \/ AllocFound(p) \/ AllocNoTrapframe(p)
           \/ ExitReadParent(p) \/ ExitLockParent(p) \/ ExitLockSelf(p)
           \/ ReparentCheck(p) \/ WaitCall(p) \/ WaitCheck(p) \/ WaitAlive(p)
           \/ WaitBadAddress(p) \/ WaitNoKids(p) \/ WaitWoken(p)
           \/ KillCall(p) \/ KillNext(p) \/ KillMiss(p)
  BY <1>1 DEF SwitchedOut, forkret, ForkCall, AllocNext, AllocNone,
    AllocFound, AllocNoTrapframe, ExitReadParent, ExitLockParent,
    ExitLockSelf, ReparentCheck, WaitCall, WaitCheck, WaitAlive,
    WaitBadAddress, WaitNoKids, WaitWoken, KillCall, KillNext, KillMiss,
    table, locals, WaitReturns, KillReturns, InitAlive
<1>2. CASE Dispatch(p)
  BY <1>2, SlotsType DEF Dispatch, Acquired, locals, InitAlive
<1>3. CASE ForkNoMemory(p)
  BY <1>3, SlotsType DEF ForkNoMemory, At, Goto, Scan, Released, freeproc,
    InitAlive, TypeOK, PcState
<1>4. CASE ForkDone(p)
  BY <1>4, SlotsType DEF ForkDone, At, Scan, Released, InitAlive, TypeOK,
    PcState
<1>5. CASE ExitCall(p)
  BY <1>5, SlotsType DEF ExitCall, At, Goto, locals, wakeup1, InitAlive
<1>6. CASE ReparentGive(p)
  BY <1>6, SlotsType DEF ReparentGive, At, Goto, Scan, InitAlive, TypeOK,
    PcState, ParentStable
<1>7. CASE ExitZombie(p)
  BY <1>7, SlotsType DEF ExitZombie, At, Goto, Scan, Released, wakeup1,
    InitAlive, TypeOK, ExitFacts, Exiting
<1>8. CASE WaitReap(p)
  BY <1>8, SlotsType DEF WaitReap, At, freeproc, WaitReturns, Released, Goto,
    Scan, InitAlive
<1>9. CASE WaitSleep(p)
  BY <1>9, SlotsType DEF WaitSleep, At, Goto, locals, InitAlive
<1>10. CASE KillHit(p)
  BY <1>10, SlotsType DEF KillHit, At, KillReturns, Goto, Scan, InitAlive
<1>11. QED
  BY <1>1, <1>2, <1>3, <1>4, <1>5, <1>6, <1>7, <1>8, <1>9, <1>10 DEF Call,
    Kernel, Fork, Exit, Wait, Kill

\* A parent changes only by the parent's own exit, so that what the unlocked
\* test saw stays true.
LEMMA ParentStableStep ==
  ASSUME IInv, NEW p \in Slots, Call(p) \/ Kernel(p)
  PROVE  ParentStable'
<1> TypeOK /\ PcState /\ LockPairing /\ ExitFacts /\ InitAlive
    /\ ParentStable /\ ParentAlive /\ ReparentScan /\ WaitScan /\ NoLostWakeup
  BY DEF IInv
<1>1. CASE Dispatch(p)
  BY <1>1, SlotsType DEF Dispatch, Acquired, locals, ParentStable
<1>2. CASE SwitchedOut(p)
  BY <1>2, SlotsType DEF SwitchedOut, Released, table, locals, ParentStable
<1>3. CASE forkret(p)
  BY <1>3, SlotsType DEF forkret, At, Goto, Released, table, locals,
    ParentStable
<1>4. CASE ForkCall(p)
  BY <1>4, SlotsType DEF ForkCall, At, Goto, Scan, table, ParentStable
<1>5. CASE AllocNext(p)
  BY <1>5, SlotsType DEF AllocNext, At, Scan, table, ParentStable, TypeOK
<1>6. CASE AllocNone(p)
  BY <1>6, SlotsType DEF AllocNone, At, Goto, Scan, table, ParentStable
<1>7. CASE AllocFound(p)
  BY <1>7, SlotsType DEF AllocFound, At, Goto, Acquired, locals, ParentStable
<1>8. CASE AllocNoTrapframe(p)
  BY <1>8, SlotsType DEF AllocNoTrapframe, At, Goto, Scan, Released, table,
    ParentStable
<1>9. CASE ForkNoMemory(p)
  BY <1>9, SlotsType DEF ForkNoMemory, At, Goto, Scan, Released, freeproc,
    ParentStable, TypeOK, PcState
<1>10. CASE ForkDone(p)
  BY <1>10, SlotsType DEF ForkDone, At, Scan, Released, ParentStable, TypeOK,
    PcState
<1>11. CASE ExitCall(p)
  BY <1>11, SlotsType DEF ExitCall, At, Goto, locals, wakeup1, ParentStable,
    TypeOK
<1>12. CASE ExitReadParent(p)
  BY <1>12, SlotsType DEF ExitReadParent, At, Goto, table, ParentStable
<1>13. CASE ExitLockParent(p)
  BY <1>13, SlotsType DEF ExitLockParent, At, Goto, Acquired, table, locals,
    ParentStable
<1>14. CASE ExitLockSelf(p)
  BY <1>14, SlotsType DEF ExitLockSelf, At, Goto, Scan, Acquired, table,
    ParentStable
<1>15. CASE ReparentCheck(p)
  <2>1. CASE parent[idx[p]] = p
    BY <1>15, <2>1, SlotsType DEF ReparentCheck, At, Goto, Scan, table,
      ParentStable, TypeOK
  <2>2. CASE parent[idx[p]] # p
    BY <1>15, <2>2, SlotsType DEF ReparentCheck, At, Goto, Scan, table,
      ParentStable, TypeOK
  <2>3. QED BY <2>1, <2>2
<1>16. CASE ReparentGive(p)
  BY <1>16, SlotsType DEF ReparentGive, At, Goto, Scan, ParentStable, TypeOK
<1>17. CASE ExitZombie(p)
  BY <1>17, SlotsType DEF ExitZombie, At, Goto, Scan, Released, wakeup1,
    ParentStable
<1>18. CASE WaitCall(p)
  BY <1>18, SlotsType DEF WaitCall, At, Goto, Scan, Acquired, table,
    ParentStable
<1>19. CASE WaitCheck(p)
  <2>1. CASE parent[idx[p]] = p
    BY <1>19, <2>1, SlotsType DEF WaitCheck, At, Goto, Scan, table,
      ParentStable, TypeOK
  <2>2. CASE parent[idx[p]] # p
    BY <1>19, <2>2, SlotsType DEF WaitCheck, At, Goto, Scan, table,
      ParentStable, TypeOK
  <2>3. QED BY <2>1, <2>2
<1>20. CASE WaitAlive(p)
  BY <1>20, SlotsType DEF WaitAlive, At, Goto, Scan, table, ParentStable,
    TypeOK
<1>21. CASE WaitReap(p)
  BY <1>21, SlotsType DEF WaitReap, At, freeproc, WaitReturns, Released, Goto,
    Scan, ParentStable, TypeOK
<1>22. CASE WaitBadAddress(p)
  BY <1>22, SlotsType DEF WaitBadAddress, At, table, WaitReturns, Released,
    Goto, Scan, ParentStable, TypeOK
<1>23. CASE WaitNoKids(p)
  BY <1>23, SlotsType DEF WaitNoKids, At, table, WaitReturns, Released, Goto,
    Scan, ParentStable
<1>24. CASE WaitSleep(p)
  BY <1>24, SlotsType DEF WaitSleep, At, Goto, locals, ParentStable
<1>25. CASE WaitWoken(p)
  BY <1>25, SlotsType DEF WaitWoken, At, Goto, Scan, ParentStable
<1>26. CASE KillCall(p)
  BY <1>26, SlotsType DEF KillCall, At, Goto, Scan, table, ParentStable
<1>27. CASE KillNext(p)
  BY <1>27, SlotsType DEF KillNext, At, Scan, table, ParentStable, TypeOK
<1>28. CASE KillHit(p)
  BY <1>28, SlotsType DEF KillHit, At, KillReturns, Goto, Scan, ParentStable
<1>29. CASE KillMiss(p)
  BY <1>29, SlotsType DEF KillMiss, At, table, KillReturns, Goto, Scan,
    ParentStable
<1>30. QED
  BY <1>1, <1>2, <1>3, <1>4, <1>5, <1>6, <1>7, <1>8, <1>9, <1>10, <1>11,
    <1>12, <1>13, <1>14, <1>15, <1>16, <1>17, <1>18, <1>19, <1>20, <1>21,
    <1>22, <1>23, <1>24, <1>25, <1>26, <1>27, <1>28, <1>29 DEF Call, Kernel,
    Fork, Exit, Wait, Kill

\* A parent has given its children away when it becomes a zombie.
LEMMA ParentAliveStep ==
  ASSUME IInv, NEW p \in Slots, Call(p) \/ Kernel(p)
  PROVE  ParentAlive'
<1> TypeOK /\ PcState /\ LockPairing /\ ExitFacts /\ InitAlive
    /\ ParentStable /\ ParentAlive /\ ReparentScan /\ WaitScan /\ NoLostWakeup
  BY DEF IInv
<1>1. CASE SwitchedOut(p) \/ forkret(p) \/ ForkCall(p) \/ AllocNext(p)
           \/ AllocNone(p) \/ AllocFound(p) \/ AllocNoTrapframe(p)
           \/ ExitReadParent(p) \/ ExitLockParent(p) \/ ExitLockSelf(p)
           \/ ReparentCheck(p) \/ WaitCall(p) \/ WaitCheck(p) \/ WaitAlive(p)
           \/ WaitBadAddress(p) \/ WaitNoKids(p) \/ WaitWoken(p)
           \/ KillCall(p) \/ KillNext(p) \/ KillMiss(p)
  BY <1>1 DEF SwitchedOut, forkret, ForkCall, AllocNext, AllocNone,
    AllocFound, AllocNoTrapframe, ExitReadParent, ExitLockParent,
    ExitLockSelf, ReparentCheck, WaitCall, WaitCheck, WaitAlive,
    WaitBadAddress, WaitNoKids, WaitWoken, KillCall, KillNext, KillMiss,
    table, locals, WaitReturns, KillReturns, ParentAlive
<1>2. CASE Dispatch(p)
  BY <1>2, SlotsType DEF Dispatch, Acquired, locals, ParentAlive
<1>3. CASE ForkNoMemory(p)
  BY <1>3, SlotsType DEF ForkNoMemory, At, Goto, Scan, Released, freeproc,
    ParentAlive, TypeOK, PcState
<1>4. CASE ForkDone(p)
  BY <1>4, SlotsType DEF ForkDone, At, Scan, Released, ParentAlive, TypeOK
<1>5. CASE ExitCall(p)
  BY <1>5, SlotsType DEF ExitCall, At, Goto, locals, wakeup1, ParentAlive
<1>6. CASE ReparentGive(p)
  BY <1>6, SlotsType DEF ReparentGive, At, Goto, Scan, ParentAlive, TypeOK,
    PcState, ParentStable, InitAlive
<1>7. CASE ExitZombie(p)
  <2>1. p # InitProc /\ \A q \in Slots : parent[q] # p
    BY <1>7, SlotsType DEF ExitZombie, At, TypeOK, ExitFacts, Exiting,
      ReparentScan
  <2>2. \A s \in Slots \ {p} : state'[s] \in {"UNUSED", "ZOMBIE"}
                                 => state[s] = state'[s]
    BY <1>7 DEF ExitZombie, wakeup1, TypeOK
  <2>3. \A s \in Slots \ {p} : state[s] = "UNUSED" => state'[s] = "UNUSED"
    BY <1>7 DEF ExitZombie, wakeup1, TypeOK
  <2>4. state[p] = "RUNNING" /\ parent' = parent
    BY <1>7 DEF ExitZombie, At
  <2>5. QED
    BY <2>1, <2>2, <2>3, <2>4 DEF ParentAlive
<1>8. CASE WaitReap(p)
  BY <1>8, SlotsType DEF WaitReap, At, freeproc, WaitReturns, Released, Goto,
    Scan, ParentAlive, TypeOK
<1>9. CASE WaitSleep(p)
  BY <1>9, SlotsType DEF WaitSleep, At, Goto, locals, ParentAlive
<1>10. CASE KillHit(p)
  BY <1>10, SlotsType DEF KillHit, At, KillReturns, Goto, Scan, ParentAlive
<1>11. QED
  BY <1>1, <1>2, <1>3, <1>4, <1>5, <1>6, <1>7, <1>8, <1>9, <1>10 DEF Call,
    Kernel, Fork, Exit, Wait, Kill

\* reparent() leaves no child behind in the part of the table it has passed:
\* only p itself could fork a new one.
LEMMA ReparentScanStep ==
  ASSUME IInv, NEW p \in Slots, Call(p) \/ Kernel(p)
  PROVE  ReparentScan'
<1> TypeOK /\ PcState /\ LockPairing /\ ExitFacts /\ InitAlive
    /\ ParentStable /\ ParentAlive /\ ReparentScan /\ WaitScan /\ NoLostWakeup
  BY DEF IInv
<1>1. CASE Dispatch(p)
  BY <1>1, SlotsType DEF Dispatch, Acquired, locals, ReparentScan
<1>2. CASE SwitchedOut(p)
  BY <1>2, SlotsType DEF SwitchedOut, Released, table, locals, ReparentScan
<1>3. CASE forkret(p)
  BY <1>3, SlotsType DEF forkret, At, Goto, Released, table, locals,
    ReparentScan
<1>4. CASE ForkCall(p)
  BY <1>4, SlotsType DEF ForkCall, At, Goto, Scan, table, ReparentScan
<1>5. CASE AllocNext(p)
  BY <1>5, SlotsType DEF AllocNext, At, Scan, table, ReparentScan, TypeOK
<1>6. CASE AllocNone(p)
  BY <1>6, SlotsType DEF AllocNone, At, Goto, Scan, table, ReparentScan
<1>7. CASE AllocFound(p)
  BY <1>7, SlotsType DEF AllocFound, At, Goto, Acquired, locals, ReparentScan
<1>8. CASE AllocNoTrapframe(p)
  BY <1>8, SlotsType DEF AllocNoTrapframe, At, Goto, Scan, Released, table,
    ReparentScan
<1>9. CASE ForkNoMemory(p)
  BY <1>9, SlotsType DEF ForkNoMemory, At, Goto, Scan, Released, freeproc,
    ReparentScan
<1>10. CASE ForkDone(p)
  BY <1>10, SlotsType DEF ForkDone, At, Scan, Released, ReparentScan, TypeOK
<1>11. CASE ExitCall(p)
  BY <1>11, SlotsType DEF ExitCall, At, Goto, locals, wakeup1, ReparentScan
<1>12. CASE ExitReadParent(p)
  BY <1>12, SlotsType DEF ExitReadParent, At, Goto, table, ReparentScan
<1>13. CASE ExitLockParent(p)
  BY <1>13, SlotsType DEF ExitLockParent, At, Goto, Acquired, table, locals,
    ReparentScan
<1>14. CASE ExitLockSelf(p)
  BY <1>14, SlotsType DEF ExitLockSelf, At, Goto, Scan, Acquired, table,
    ReparentScan, TypeOK
<1>15. CASE ReparentCheck(p)
  <2>1. CASE parent[idx[p]] = p
    BY <1>15, <2>1, SlotsType DEF ReparentCheck, At, Goto, Scan, table,
      ReparentScan, TypeOK
  <2>2. CASE parent[idx[p]] # p
    BY <1>15, <2>2, SlotsType DEF ReparentCheck, At, Goto, Scan, table,
      ReparentScan, TypeOK
  <2>3. QED BY <2>1, <2>2
<1>16. CASE ReparentGive(p)
  BY <1>16, SlotsType DEF ReparentGive, At, Goto, Scan, ReparentScan, TypeOK,
    ExitFacts, Exiting
<1>17. CASE ExitZombie(p)
  BY <1>17, SlotsType DEF ExitZombie, At, Goto, Scan, Released, wakeup1,
    ReparentScan
<1>18. CASE WaitCall(p)
  BY <1>18, SlotsType DEF WaitCall, At, Goto, Scan, Acquired, table,
    ReparentScan
<1>19. CASE WaitCheck(p)
  <2>1. CASE parent[idx[p]] = p
    BY <1>19, <2>1, SlotsType DEF WaitCheck, At, Goto, Scan, table,
      ReparentScan, TypeOK
  <2>2. CASE parent[idx[p]] # p
    BY <1>19, <2>2, SlotsType DEF WaitCheck, At, Goto, Scan, table,
      ReparentScan, TypeOK
  <2>3. QED BY <2>1, <2>2
<1>20. CASE WaitAlive(p)
  BY <1>20, SlotsType DEF WaitAlive, At, Goto, Scan, table, ReparentScan
<1>21. CASE WaitReap(p)
  BY <1>21, SlotsType DEF WaitReap, At, freeproc, WaitReturns, Released, Goto,
    Scan, ReparentScan
<1>22. CASE WaitBadAddress(p)
  BY <1>22, SlotsType DEF WaitBadAddress, At, table, WaitReturns, Released,
    Goto, Scan, ReparentScan
<1>23. CASE WaitNoKids(p)
  BY <1>23, SlotsType DEF WaitNoKids, At, table, WaitReturns, Released, Goto,
    Scan, ReparentScan
<1>24. CASE WaitSleep(p)
  BY <1>24, SlotsType DEF WaitSleep, At, Goto, locals, ReparentScan
<1>25. CASE WaitWoken(p)
  BY <1>25, SlotsType DEF WaitWoken, At, Goto, Scan, ReparentScan
<1>26. CASE KillCall(p)
  BY <1>26, SlotsType DEF KillCall, At, Goto, Scan, table, ReparentScan
<1>27. CASE KillNext(p)
  BY <1>27, SlotsType DEF KillNext, At, Scan, table, ReparentScan, TypeOK
<1>28. CASE KillHit(p)
  BY <1>28, SlotsType DEF KillHit, At, KillReturns, Goto, Scan, ReparentScan
<1>29. CASE KillMiss(p)
  BY <1>29, SlotsType DEF KillMiss, At, table, KillReturns, Goto, Scan,
    ReparentScan
<1>30. QED
  BY <1>1, <1>2, <1>3, <1>4, <1>5, <1>6, <1>7, <1>8, <1>9, <1>10, <1>11,
    <1>12, <1>13, <1>14, <1>15, <1>16, <1>17, <1>18, <1>19, <1>20, <1>21,
    <1>22, <1>23, <1>24, <1>25, <1>26, <1>27, <1>28, <1>29 DEF Call, Kernel,
    Fork, Exit, Wait, Kill

\* A child cannot become a zombie behind wait()'s back: exit() would have to
\* hold the parent's lock.
LEMMA WaitScanStep ==
  ASSUME IInv, NEW p \in Slots, Call(p) \/ Kernel(p)
  PROVE  WaitScan'
<1> TypeOK /\ PcState /\ LockPairing /\ ExitFacts /\ InitAlive
    /\ ParentStable /\ ParentAlive /\ ReparentScan /\ WaitScan /\ NoLostWakeup
  BY DEF IInv
<1>1. CASE Dispatch(p)
  BY <1>1, SlotsType DEF Dispatch, Acquired, locals, WaitScan
<1>2. CASE SwitchedOut(p)
  BY <1>2, SlotsType DEF SwitchedOut, Released, table, locals, WaitScan
<1>3. CASE forkret(p)
  BY <1>3, SlotsType DEF forkret, At, Goto, Released, table, locals, WaitScan
<1>4. CASE ForkCall(p)
  BY <1>4, SlotsType DEF ForkCall, At, Goto, Scan, table, WaitScan
<1>5. CASE AllocNext(p)
  BY <1>5, SlotsType DEF AllocNext, At, Scan, table, WaitScan, TypeOK
<1>6. CASE AllocNone(p)
  BY <1>6, SlotsType DEF AllocNone, At, Goto, Scan, table, WaitScan
<1>7. CASE AllocFound(p)
  BY <1>7, SlotsType DEF AllocFound, At, Goto, Acquired, locals, WaitScan
<1>8. CASE AllocNoTrapframe(p)
  BY <1>8, SlotsType DEF AllocNoTrapframe, At, Goto, Scan, Released, table,
    WaitScan
<1>9. CASE ForkNoMemory(p)
  BY <1>9, SlotsType DEF ForkNoMemory, At, Goto, Scan, Released, freeproc,
    WaitScan
<1>10. CASE ForkDone(p)
  BY <1>10, SlotsType DEF ForkDone, At, Scan, Released, WaitScan, TypeOK
<1>11. CASE ExitCall(p)
  BY <1>11, SlotsType DEF ExitCall, At, Goto, locals, wakeup1, WaitScan
<1>12. CASE ExitReadParent(p)
  BY <1>12, SlotsType DEF ExitReadParent, At, Goto, table, WaitScan
<1>13. CASE ExitLockParent(p)
  BY <1>13, SlotsType DEF ExitLockParent, At, Goto, Acquired, table, locals,
    WaitScan
<1>14. CASE ExitLockSelf(p)
  BY <1>14, SlotsType DEF ExitLockSelf, At, Goto, Scan, Acquired, table,
    WaitScan
<1>15. CASE ReparentCheck(p)
  <2>1. CASE parent[idx[p]] = p
    BY <1>15, <2>1, SlotsType DEF ReparentCheck, At, Goto, Scan, table,
      WaitScan, TypeOK
  <2>2. CASE parent[idx[p]] # p
    BY <1>15, <2>2, SlotsType DEF ReparentCheck, At, Goto, Scan, table,
      WaitScan, TypeOK
  <2>3. QED BY <2>1, <2>2
<1>16. CASE ReparentGive(p)
  BY <1>16, SlotsType DEF ReparentGive, At, Goto, Scan, WaitScan
<1>17. CASE ExitZombie(p)
  BY <1>17, SlotsType DEF ExitZombie, At, Goto, Scan, Released, wakeup1,
    WaitScan, TypeOK, PcState, LockPairing, Holds, ExitFacts, Exiting
<1>18. CASE WaitCall(p)
  BY <1>18, SlotsType DEF WaitCall, At, Goto, Scan, Acquired, table, WaitScan,
    TypeOK, PcState
<1>19. CASE WaitCheck(p)
  <2>1. CASE parent[idx[p]] = p
    BY <1>19, <2>1, SlotsType DEF WaitCheck, At, Goto, Scan, table, WaitScan,
      TypeOK
  <2>2. CASE parent[idx[p]] # p
    BY <1>19, <2>2, SlotsType DEF WaitCheck, At, Goto, Scan, table, WaitScan,
      TypeOK
  <2>3. QED BY <2>1, <2>2
<1>20. CASE WaitAlive(p)
  BY <1>20, SlotsType DEF WaitAlive, At, Goto, Scan, table, WaitScan, TypeOK
<1>21. CASE WaitReap(p)
  BY <1>21, SlotsType DEF WaitReap, At, freeproc, WaitReturns, Released, Goto,
    Scan, WaitScan, TypeOK
<1>22. CASE WaitBadAddress(p)
  BY <1>22, SlotsType DEF WaitBadAddress, At, table, WaitReturns, Released,
    Goto, Scan, WaitScan, TypeOK
<1>23. CASE WaitNoKids(p)
  BY <1>23, SlotsType DEF WaitNoKids, At, table, WaitReturns, Released, Goto,
    Scan, WaitScan
<1>24. CASE WaitSleep(p)
  BY <1>24, SlotsType DEF WaitSleep, At, Goto, locals, WaitScan
<1>25. CASE WaitWoken(p)
  BY <1>25, SlotsType DEF WaitWoken, At, Goto, Scan, WaitScan, TypeOK, PcState
<1>26. CASE KillCall(p)
  BY <1>26, SlotsType DEF KillCall, At, Goto, Scan, table, WaitScan
<1>27. CASE KillNext(p)
  BY <1>27, SlotsType DEF KillNext, At, Scan, table, WaitScan, TypeOK
<1>28. CASE KillHit(p)
  BY <1>28, SlotsType DEF KillHit, At, KillReturns, Goto, Scan, WaitScan
<1>29. CASE KillMiss(p)
  BY <1>29, SlotsType DEF KillMiss, At, table, KillReturns, Goto, Scan,
    WaitScan
<1>30. QED
  BY <1>1, <1>2, <1>3, <1>4, <1>5, <1>6, <1>7, <1>8, <1>9, <1>10, <1>11,
    <1>12, <1>13, <1>14, <1>15, <1>16, <1>17, <1>18, <1>19, <1>20, <1>21,
    <1>22, <1>23, <1>24, <1>25, <1>26, <1>27, <1>28, <1>29 DEF Call, Kernel,
    Fork, Exit, Wait, Kill

\* wait() goes to sleep only after a scan that found no zombie, and a child
\* that exits later wakes it up.
LEMMA NoLostWakeupStep ==
  ASSUME IInv, NEW p \in Slots, Call(p) \/ Kernel(p)
  PROVE  NoLostWakeup'
<1> TypeOK /\ PcState /\ LockPairing /\ ExitFacts /\ InitAlive
    /\ ParentStable /\ ParentAlive /\ ReparentScan /\ WaitScan /\ NoLostWakeup
  BY DEF IInv
<1>1. CASE SwitchedOut(p) \/ forkret(p) \/ ForkCall(p) \/ AllocNext(p)
           \/ AllocNone(p) \/ AllocFound(p) \/ AllocNoTrapframe(p)
           \/ ExitReadParent(p) \/ ExitLockParent(p) \/ ExitLockSelf(p)
           \/ ReparentCheck(p) \/ WaitCall(p) \/ WaitCheck(p) \/ WaitAlive(p)
           \/ WaitBadAddress(p) \/ WaitNoKids(p) \/ WaitWoken(p)
           \/ KillCall(p) \/ KillNext(p) \/ KillMiss(p)
  BY <1>1 DEF SwitchedOut, forkret, ForkCall, AllocNext, AllocNone,
    AllocFound, AllocNoTrapframe, ExitReadParent, ExitLockParent,
    ExitLockSelf, ReparentCheck, WaitCall, WaitCheck, WaitAlive,
    WaitBadAddress, WaitNoKids, WaitWoken, KillCall, KillNext, KillMiss,
    table, locals, WaitReturns, KillReturns, NoLostWakeup, MissedZombie
<1>2. CASE Dispatch(p)
  BY <1>2, SlotsType DEF Dispatch, Acquired, locals, NoLostWakeup,
    MissedZombie
<1>3. CASE ForkNoMemory(p)
  BY <1>3, SlotsType DEF ForkNoMemory, At, Goto, Scan, Released, freeproc,
    NoLostWakeup, MissedZombie
<1>4. CASE ForkDone(p)
  BY <1>4, SlotsType DEF ForkDone, At, Scan, Released, NoLostWakeup,
    MissedZombie
<1>5. CASE ExitCall(p)
  BY <1>5, SlotsType DEF ExitCall, At, Goto, locals, wakeup1, NoLostWakeup,
    MissedZombie
<1>6. CASE ReparentGive(p)
  BY <1>6, SlotsType DEF ReparentGive, At, Goto, Scan, NoLostWakeup,
    MissedZombie
<1>7. CASE ExitZombie(p)
  BY <1>7, SlotsType DEF ExitZombie, At, Goto, Scan, Released, wakeup1,
    NoLostWakeup, MissedZombie, TypeOK, PcState, ExitFacts, Exiting
<1>8. CASE WaitReap(p)
  BY <1>8, SlotsType DEF WaitReap, At, freeproc, WaitReturns, Released, Goto,
    Scan, NoLostWakeup, MissedZombie
<1>9. CASE WaitSleep(p)
  BY <1>9, SlotsType DEF WaitSleep, At, Goto, locals, NoLostWakeup,
    MissedZombie, TypeOK, PcState, LockPairing, Holds, ExitFacts, Exiting,
    WaitScan
<1>10. CASE KillHit(p)
  BY <1>10, SlotsType DEF KillHit, At, KillReturns, Goto, Scan, NoLostWakeup,
    MissedZombie
<1>11. QED
  BY <1>1, <1>2, <1>3, <1>4, <1>5, <1>6, <1>7, <1>8, <1>9, <1>10 DEF Call,
    Kernel, Fork, Exit, Wait, Kill

-----------------------------------------------------------------------------
\* Pids order the processes, parent before child: allocproc() hands out a larger
\* one every time, and initproc, who gets the orphans, has the first.
LEMMA PidOrderStep ==
  ASSUME IInv, PidOrder, NEW p \in Slots, Call(p) \/ Kernel(p)
  PROVE  PidOrder'
<1> TypeOK /\ PcState /\ LockPairing /\ InitAlive /\ ParentStable /\ ParentAlive
  BY DEF IInv
<1> USE SlotsType DEF PidOfInit
<1>1. CASE SwitchedOut(p) \/ forkret(p) \/ ForkCall(p) \/ AllocNext(p)
           \/ AllocNone(p) \/ AllocNoTrapframe(p)
           \/ ExitReadParent(p) \/ ExitLockParent(p) \/ ExitLockSelf(p)
           \/ ReparentCheck(p) \/ WaitCall(p) \/ WaitCheck(p) \/ WaitAlive(p)
           \/ WaitBadAddress(p) \/ WaitNoKids(p) \/ WaitWoken(p)
           \/ KillCall(p) \/ KillNext(p) \/ KillMiss(p)
  <2>1. UNCHANGED <<pid, nextpid, state, parent>>
    BY <1>1 DEF SwitchedOut, forkret, ForkCall, AllocNext, AllocNone, AllocNoTrapframe,
      ExitReadParent, ExitLockParent, ExitLockSelf, ReparentCheck, WaitCall, WaitCheck,
      WaitAlive, WaitBadAddress, WaitNoKids, WaitWoken, KillCall, KillNext, KillMiss, table
  <2>2. \A q \in Slots : pc'[q] = "copy" => pc[q] = "copy" /\ idx'[q] = idx[q]
    BY <1>1 DEF SwitchedOut, forkret, ForkCall, AllocNext, AllocNone, AllocNoTrapframe,
      ExitReadParent, ExitLockParent, ExitLockSelf, ReparentCheck, WaitCall, WaitCheck,
      WaitAlive, WaitBadAddress, WaitNoKids, WaitWoken, KillCall, KillNext, KillMiss, table,
      locals, WaitReturns, KillReturns, At, Goto, Scan, TypeOK
  <2>3. QED
    BY <2>1, <2>2 DEF PidOrder
<1>2. CASE Dispatch(p)
  BY <1>2 DEF Dispatch, locals, PidOrder, TypeOK
<1>3. CASE AllocFound(p)
  <2>1. /\ idx[p] \in Slots \ {InitProc} /\ state[idx[p]] = "UNUSED" /\ lock[idx[p]] = Null
        /\ pid' = [pid EXCEPT ![idx[p]] = nextpid] /\ nextpid' = nextpid + 1
        /\ pc' = [pc EXCEPT ![p] = "copy"] /\ UNCHANGED <<state, parent, idx>>
    BY <1>3 DEF AllocFound, At, Goto, Acquired, locals, InitAlive
  <2>2. \A q \in Slots : pid'[q] = IF q = idx[p] THEN nextpid ELSE pid[q]
    BY <2>1 DEF TypeOK
  <2>3. \A q \in Slots : state[q] # "UNUSED" => q # idx[p] /\ parent[q] # idx[p]
    BY <2>1 DEF ParentAlive, InitAlive
  <2>4. \A q \in Slots : pc[q] = "copy" => idx[q] # idx[p] /\ q # idx[p] /\ idx[q] \in Slots
    <3> SUFFICES ASSUME NEW q \in Slots, pc[q] = "copy"
                 PROVE  idx[q] # idx[p] /\ q # idx[p] /\ idx[q] \in Slots
      OBVIOUS
    <3>1. idx[q] \in Slots /\ lock[idx[q]] = q
      BY DEF LockPairing, Holds, PcState
    <3>2. q # idx[p]
      BY <2>1 DEF PcState
    <3>3. QED
      BY <2>1, <3>1, <3>2
  <2>5. p # idx[p] /\ pc' = [pc EXCEPT ![p] = "copy"]
    BY <1>3, <2>1 DEF AllocFound, At
  <2>6. pid'[InitProc] = PidOfInit /\ (\A q \in Slots : pid'[q] < nextpid')
    BY <2>1, <2>2 DEF PidOrder, TypeOK
  <2>7. \A q \in Slots \ {InitProc} : state'[q] # "UNUSED" =>
          pid'[q] > PidOfInit /\ pid'[q] > pid'[parent'[q]]
    BY <2>1, <2>2, <2>3 DEF PidOrder, ParentAlive
  <2>8. \A q \in Slots : pc'[q] = "copy" => pid'[idx'[q]] > PidOfInit /\ pid'[idx'[q]] > pid'[q]
    BY <2>1, <2>2, <2>4, <2>5 DEF PidOrder, TypeOK
  <2>9. QED
    BY <2>6, <2>7, <2>8 DEF PidOrder
<1>4. CASE ForkNoMemory(p) \/ WaitReap(p)
  <2>1. /\ idx[p] \in Slots \ {InitProc} /\ state' = [state EXCEPT ![idx[p]] = "UNUSED"]
        /\ state[idx[p]] \in {"UNUSED", "ZOMBIE"}
        /\ pid' = [pid EXCEPT ![idx[p]] = 0] /\ parent' = [parent EXCEPT ![idx[p]] = Null]
        /\ nextpid' = nextpid /\ pc' = [pc EXCEPT ![p] = "user"] /\ idx' = [idx EXCEPT ![p] = 1]
    BY <1>4 DEF ForkNoMemory, WaitReap, WaitReturns, At, Goto, Scan, freeproc, PcState, InitAlive
  <2>2. \A q \in Slots \ {InitProc} : state'[q] # "UNUSED" =>
          q # idx[p] /\ parent[q] # idx[p] /\ state[q] # "UNUSED" /\ parent[q] \in Slots
    BY <2>1 DEF ParentAlive, TypeOK
  <2>3. \A q \in Slots : pc[q] = "copy" /\ q # p => idx[q] # idx[p] /\ q # idx[p] /\ idx[q] \in Slots
    <3>1. CASE ForkNoMemory(p)
      <4> SUFFICES ASSUME NEW q \in Slots, pc[q] = "copy", q # p
                   PROVE  idx[q] # idx[p] /\ q # idx[p] /\ idx[q] \in Slots
        OBVIOUS
      <4>1. idx[q] \in Slots /\ lock[idx[q]] = q
        BY DEF LockPairing, Holds, PcState
      <4>0. pc[p] = "copy"
        BY <3>1 DEF ForkNoMemory, At
      <4>2. lock[idx[p]] = p /\ state[idx[p]] = "UNUSED"
        <5>1. Holds(p, idx[p])
          BY <4>0 DEF Holds
        <5>2. QED
          BY <2>1, <4>0, <5>1 DEF LockPairing, PcState
      <4>3. q # idx[p]
        BY <4>2 DEF PcState
      <4>4. QED
        BY <4>1, <4>2, <4>3
    <3>2. CASE WaitReap(p)
      BY <2>1, <3>2 DEF WaitReap, At, PcState
    <3>3. QED
      BY <1>4, <3>1, <3>2
  <2>4. \A q \in Slots : pid'[q] = IF q = idx[p] THEN 0 ELSE pid[q]
    BY <2>1 DEF TypeOK
  <2>5. nextpid > 0
    BY DEF PidOrder, TypeOK
  <2>6. pid'[InitProc] = PidOfInit /\ (\A q \in Slots : pid'[q] < nextpid')
    BY <2>1, <2>4, <2>5 DEF PidOrder, TypeOK
  <2>7. \A q \in Slots \ {InitProc} : state'[q] # "UNUSED" =>
          pid'[q] > PidOfInit /\ pid'[q] > pid'[parent'[q]]
    BY <2>1, <2>2, <2>4 DEF PidOrder, TypeOK
  <2>8. \A q \in Slots : pc'[q] = "copy" => pid'[idx'[q]] > PidOfInit /\ pid'[idx'[q]] > pid'[q]
    BY <2>1, <2>3, <2>4 DEF PidOrder, TypeOK
  <2>9. QED
    BY <2>6, <2>7, <2>8 DEF PidOrder
<1>5. CASE ForkDone(p)
  <2>1. /\ idx[p] \in Slots /\ pc[p] = "copy" /\ UNCHANGED <<pid, nextpid>>
        /\ parent' = [parent EXCEPT ![idx[p]] = p] /\ state' = [state EXCEPT ![idx[p]] = "RUNNABLE"]
        /\ pc' = [pc EXCEPT ![p] = "user", ![idx[p]] = "forkret"] /\ idx' = [idx EXCEPT ![p] = 1]
    BY <1>5 DEF ForkDone, At, Scan, PcState
  <2>2. \A q \in Slots : pc'[q] = "copy" => pc[q] = "copy" /\ idx'[q] = idx[q]
    BY <2>1 DEF TypeOK
  <2>3. \A q \in Slots \ {InitProc} : state'[q] # "UNUSED" =>
          \/ q = idx[p] /\ parent'[q] = p
          \/ state[q] # "UNUSED" /\ parent'[q] = parent[q]
    BY <2>1 DEF TypeOK
  <2>4. QED
    BY <2>1, <2>2, <2>3 DEF PidOrder
<1>6. CASE ExitCall(p) \/ ExitZombie(p) \/ WaitSleep(p) \/ KillHit(p)
  <2>1. UNCHANGED <<pid, nextpid, parent>>
    BY <1>6 DEF ExitCall, ExitZombie, WaitSleep, KillHit
  <2>2. \A q \in Slots : pc'[q] = "copy" => pc[q] = "copy" /\ idx'[q] = idx[q]
    BY <1>6 DEF ExitCall, ExitZombie, WaitSleep, KillHit, KillReturns, locals, At, Goto, Scan, TypeOK
  <2>3. \A q \in Slots : state'[q] # "UNUSED" => state[q] # "UNUSED"
    BY <1>6 DEF ExitCall, ExitZombie, WaitSleep, KillHit, At, wakeup1, TypeOK
  <2>4. QED
    BY <2>1, <2>2, <2>3 DEF PidOrder
<1>7. CASE ReparentGive(p)
  <2>1. /\ UNCHANGED <<pid, nextpid, state>> /\ parent' = [parent EXCEPT ![idx[p]] = InitProc]
        /\ \A q \in Slots : pc'[q] = "copy" => pc[q] = "copy" /\ idx'[q] = idx[q]
    BY <1>7 DEF ReparentGive, At, Goto, Scan, TypeOK
  <2>2. \A q \in Slots : parent'[q] \in {parent[q], InitProc}
    BY <2>1 DEF TypeOK
  <2>3. QED
    BY <2>1, <2>2 DEF PidOrder
<1>8. QED
  BY <1>1, <1>2, <1>3, <1>4, <1>5, <1>6, <1>7 DEF Call, Kernel, Fork, Exit, Wait, Kill

\* A thread that holds a lock and spins on another holds the older process's lock,
\* unless its original_parent is stale.
LEMMA WantsYounger ==
  ASSUME IInv, PidOrder, NEW q \in Slots, NEW s \in Slots, lock[s] = q,
         Wants(q) \in Slots, ~Stale(q)
  PROVE  pid[Wants(q)] > pid[s]
<1> TypeOK /\ PcState /\ LockPairing /\ ExitFacts /\ InitAlive /\ ParentStable /\ ParentAlive
  BY DEF IInv
<1> USE SlotsType
<1>1. state[q] = "RUNNING" /\ Holds(q, s)
  BY DEF Wants, LockPairing
<1>2. q # InitProc => pid[q] > pid[parent[q]] /\ parent[q] \in Slots
  BY <1>1 DEF PidOrder, ParentAlive
<1>3. CASE pc[q] = "exitself"
  BY <1>1, <1>2, <1>3 DEF Wants, Holds, Stale, ExitFacts, Exiting
<1>4. CASE pc[q] \in {"reparentlock", "waitlock"}
  <2>1. /\ Wants(q) = idx[q] /\ idx[q] \in Slots /\ parent[idx[q]] = q
    BY <1>1, <1>4 DEF Wants, PcState, ParentStable
  <2>2. state[idx[q]] # "UNUSED" /\ idx[q] # InitProc
    BY <2>1 DEF PcState, InitAlive
  <2>3. pid[idx[q]] > pid[q]
    BY <2>1, <2>2 DEF PidOrder
  <2>4. s = q \/ (q # InitProc /\ s = parent[q])
    BY <1>1, <1>4 DEF Holds, Stale, ExitFacts, Exiting
  <2>5. pid[q] \in Nat /\ pid[s] \in Nat /\ pid[idx[q]] \in Nat
    BY <2>1 DEF TypeOK
  <2>6. QED
    BY <1>2, <2>1, <2>3, <2>4, <2>5
<1>5. QED
  BY <1>1, <1>3, <1>4 DEF Wants, Holds

\* A circle would have a thread that spins on the youngest process's lock.
LEMMA CirclesAreStale == IInv /\ PidOrder => OnlyStaleParentsDeadlock
<1> SUFFICES ASSUME IInv, PidOrder, NEW S \in (SUBSET Slots) \ {{}},
                    \A p \in S : ~Stale(p) /\ \E q \in S : Blocked(p, q)
             PROVE  FALSE
  BY DEF OnlyStaleParentsDeadlock
<1> DEFINE Age(p) == nextpid - pid[Wants(p)]
<1>1. \A p \in S : Wants(p) \in Slots
  BY DEF Blocked
<1>2. \A p \in S : Age(p) \in Nat
  BY <1>1 DEF PidOrder, IInv, TypeOK
<1>3. {Age(p) : p \in S} \in SUBSET Nat /\ {Age(p) : p \in S} # {}
  BY <1>2
<1>4. PICK m \in {Age(p) : p \in S} : \A n \in {Age(p) : p \in S} : ~(<<n, m>> \in OpToRel(<, Nat))
  BY <1>3, NatLessThanWellFounded, WFMin
<1>5. PICK p \in S : m = Age(p)
  BY <1>4
<1>6. PICK q \in S : Blocked(p, q)
  OBVIOUS
<1>7. pid[Wants(q)] > pid[Wants(p)]
  BY <1>1, <1>6, WantsYounger DEF Blocked
<1>8. Age(q) < m /\ m \in Nat /\ Age(q) \in Nat
  BY <1>1, <1>2, <1>5, <1>7 DEF IInv, TypeOK
<1>9. <<Age(q), m>> \in OpToRel(<, Nat)
  BY <1>8 DEF OpToRel
<1>10. QED
  BY <1>4, <1>9

-----------------------------------------------------------------------------
\* What userinit() leaves satisfies the invariant.
THEOREM InitInv == Init => IInv
<1> SUFFICES ASSUME Init PROVE IInv
  OBVIOUS
<1> USE SlotsType
<1>1. TypeOK
  BY DEF Init, TypeOK, procstate, Labels, PidOfInit
<1>2. PcState /\ InitAlive /\ ExitFacts /\ ReparentScan /\ ParentStable
  BY DEF Init, PcState, InitAlive, ExitFacts, Exiting, ReparentScan,
    ParentStable
<1>3. LockPairing
  BY DEF Init, LockPairing, Holds, Null
<1>4. ParentAlive /\ WaitScan /\ NoLostWakeup
  BY DEF Init, ParentAlive, WaitScan, NoLostWakeup, MissedZombie
<1>5. QED
  BY <1>1, <1>2, <1>3, <1>4 DEF IInv

\* Every step of the kernel keeps the invariant.
THEOREM NextInv == IInv /\ [Next]_vars => IInv'
<1> SUFFICES ASSUME IInv, [Next]_vars PROVE IInv'
  OBVIOUS
<1>1. ASSUME NEW p \in Slots, Call(p) \/ Kernel(p) PROVE IInv'
  BY <1>1, TypeOKStep, PcStateStep, LockPairingStep, ExitFactsStep,
    InitAliveStep, ParentStableStep, ParentAliveStep, ReparentScanStep,
    WaitScanStep, NoLostWakeupStep DEF IInv
<1>2. CASE UNCHANGED vars
  BY <1>2 DEF vars, IInv, TypeOK, PcState, LockPairing, Holds, ExitFacts,
    Exiting, InitAlive, ParentStable, ParentAlive, ReparentScan, WaitScan,
    NoLostWakeup, MissedZombie
<1>3. QED
  BY <1>1, <1>2 DEF Next

\* The invariant holds at all times.
THEOREM Invariance == Spec => []IInv
BY InitInv, NextInv, PTL DEF Spec

\* Type correctness.
THEOREM TypeCorrect == Spec => []TypeOK
<1>1. IInv => TypeOK
  BY DEF IInv
<1>2. QED
  BY <1>1, Invariance, PTL

\* Every p->lock is held by the thread that is inside its critical section and
\* by nobody else, along every path of fork, exit and wait, failing ones too.
THEOREM LocksPair == Spec => []LockPairing
<1>1. IInv => LockPairing
  BY DEF IInv
<1>2. QED
  BY <1>1, Invariance, PTL

\* The unlocked reads of pp->parent in reparent() and wait() are safe: what
\* they found still holds when the child's lock has been acquired.
THEOREM ParentReadSafe == Spec => []ParentStable
<1>1. IInv => ParentStable
  BY DEF IInv
<1>2. QED
  BY <1>1, Invariance, PTL

\* No process is left with a parent that has exited or been freed.
THEOREM NoOrphans == Spec => []ParentAlive
<1>1. IInv => ParentAlive
  BY DEF IInv
<1>2. QED
  BY <1>1, Invariance, PTL

\* No process but initproc sleeps in wait() over a zombie child.
THEOREM WaitMissesNoExit == Spec => []NoLostWakeup
<1>1. IInv => NoLostWakeup
  BY DEF IInv
<1>2. QED
  BY <1>1, Invariance, PTL

\* A slot is free only when its last process is off the kernel stack.
THEOREM StackIsFree == Spec => []StackLeft
<1>1. IInv => StackLeft
  BY DEF IInv, PcState, StackLeft
<1>2. QED
  BY <1>1, Invariance, PTL

\* Where threads wait for each other's locks in a circle, one of them has locked, or
\* is about to lock, an original_parent that is its parent no more.
THEOREM DeadlocksAreStale == Spec => []OnlyStaleParentsDeadlock
<1>1. Init => PidOrder
  <2> SUFFICES ASSUME Init PROVE PidOrder
    OBVIOUS
  <2>1. QED
    BY SlotsType DEF Init, PidOrder, PidOfInit
<1>2. IInv /\ PidOrder /\ [Next]_vars => PidOrder'
  <2> SUFFICES ASSUME IInv, PidOrder, [Next]_vars PROVE PidOrder'
    OBVIOUS
  <2>1. CASE UNCHANGED vars
    BY <2>1 DEF vars, PidOrder
  <2>2. QED
    BY <2>1, PidOrderStep DEF Next
<1>3. QED
  BY <1>1, <1>2, CirclesAreStale, Invariance, PTL DEF Spec
=============================================================================
