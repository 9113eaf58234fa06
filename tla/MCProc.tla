------------------------------- MODULE MCProc -------------------------------
(***************************************************************************)
(* Model checking of Proc.  FamilySpec is Proc's specification started in  *)
(* the family initproc > P > C > D, one process per slot, with a program   *)
(* for each of them, so that the interleavings of three exits with a fork  *)
(* that reuses the slot of P are within reach of a breadth-first search.   *)
(***************************************************************************)
EXTENDS Proc

\* initproc forked P, P forked C, C forked D, and all of them are in user
\* space: what four forks in a row lead to.
FamilyInit ==
  /\ NPROC = 4
  /\ lock = [s \in Slots |-> Null]
  /\ state = [s \in Slots |-> "RUNNING"]
  /\ parent = [s \in Slots |-> s - 1]
  /\ chan = [s \in Slots |-> Null]
  /\ killed = [s \in Slots |-> FALSE]
  /\ pid = [s \in Slots |-> s]
  /\ nextpid = NPROC + 1
  /\ pc = [s \in Slots |-> "user"]
  /\ idx = [s \in Slots |-> 1]
  /\ opar = [s \in Slots |-> Null]
  /\ kids = [s \in Slots |-> FALSE]
  /\ target = [s \in Slots |-> 0]

\* initproc waits, D forks once, P, C and D exit.
FamilyNext ==
  \E p \in Slots :
    \/ Kernel(p)
    \/ p = InitProc /\ WaitCall(p)
    \/ p = NPROC /\ ForkCall(p)
    \/ ExitCall(p)

FamilySpec == FamilyInit /\ [][FamilyNext]_vars
=============================================================================
