-------------------------------- MODULE Signals --------------------------------
(***************************************************************************)
(* A parent that reads its terminal while its children end (course code,      *)
(* ecf/signal1.c to signal4.c).  A SIGCHLD handler runs on top of main() and    *)
(* may interrupt its read(); errno is one variable for both.                  *)
(***************************************************************************)
EXTENDS Integers, FiniteSets

CONSTANTS Kids4    \* the children that main() forks

VARIABLES
  program,    \* 1 to 4
  restarts,   \* read() goes on after the handler
  kids,        \* of each child: "none", "running", "zombie" or "reaped"
  chld,       \* SIGCHLD is pending
  mainAt,     \* where main() is
  handlerAt,  \* where the handler is; "off": it does not run
  errno

signalVars == <<program, restarts, kids, chld, mainAt, handlerAt, errno>>

\* signal() restarts a call on some systems and not on others, Signal() does.
SignalsInit ==
  /\ program \in 1..4 /\ restarts \in BOOLEAN /\ (program = 4 => restarts)
  /\ kids = [k \in Kids4 |-> "none"] /\ chld = FALSE
  /\ mainAt = "fork" /\ handlerAt = "off" /\ errno = "none"

InState(s) == {k \in Kids4 : kids[k] = s}
MainAt(at) == mainAt = at /\ handlerAt = "off"
-----------------------------------------------------------------------------
ForkKid ==
  /\ MainAt("fork")
  /\ IF InState("none") = {} THEN mainAt' = "read" /\ UNCHANGED kids
     ELSE /\ \E k \in InState("none") : kids' = [kids EXCEPT ![k] = "running"]
          /\ UNCHANGED mainAt
  /\ UNCHANGED <<program, restarts, chld, handlerAt, errno>>

\* The user has typed something.
ReadReturns ==
  /\ MainAt("read") /\ mainAt' = "work"
  /\ UNCHANGED <<program, restarts, kids, chld, handlerAt, errno>>

\* An interrupted read() is over once the handlers have run: then errno is set.
ReadInterrupted ==
  /\ MainAt("interrupted") /\ ~chld
  /\ errno' = "EINTR" /\ mainAt' = "test"
  /\ UNCHANGED <<program, restarts, kids, chld, handlerAt>>

\* signal3.c: while(read() < 0) if(errno != EINTR) unix_error()
ReadAgain == IF program = 3 /\ errno = "EINTR" THEN "read" ELSE "unix_error"

TestErrno ==
  /\ MainAt("test") /\ mainAt' = ReadAgain
  /\ UNCHANGED <<program, restarts, kids, chld, handlerAt, errno>>

-----------------------------------------------------------------------------
KidEnds(k) ==
  /\ kids[k] = "running"
  /\ kids' = [kids EXCEPT ![k] = "zombie"] /\ chld' = TRUE
  /\ UNCHANGED <<program, restarts, mainAt, handlerAt, errno>>

\* It is blocked while its handler runs.
DeliverChld ==
  /\ chld /\ handlerAt = "off" /\ mainAt # "unix_error"
  /\ chld' = FALSE /\ handlerAt' = "waitpid"
  /\ mainAt' = IF mainAt = "read" /\ ~restarts THEN "interrupted" ELSE mainAt
  /\ UNCHANGED <<program, restarts, kids, errno>>

\* Mutant of Waits1: every handler takes one child, like handler1().
Waits1Once == TRUE

\* handler1() takes one child, handler2() one after the other.
Waits1 == program = 1

WaitpidReaps(k) ==
  /\ handlerAt = "waitpid" /\ kids[k] = "zombie"
  /\ kids' = [kids EXCEPT ![k] = "reaped"]
  /\ handlerAt' = IF Waits1 THEN "off" ELSE "waitpid"
  /\ UNCHANGED <<program, restarts, chld, mainAt, errno>>

\* waitpid() fails: it is the end of handler2(), and an error in handler1().
WaitpidFails ==
  /\ handlerAt = "waitpid" /\ InState("running") \cup InState("zombie") = {}
  /\ errno' = "ECHILD" /\ handlerAt' = "off"
  /\ mainAt' = IF Waits1 THEN "unix_error" ELSE mainAt
  /\ UNCHANGED <<program, restarts, kids, chld>>

SignalsNext ==
  \/ ForkKid \/ ReadReturns \/ ReadInterrupted \/ TestErrno
  \/ DeliverChld \/ WaitpidFails
  \/ \E k \in Kids4 : KidEnds(k) \/ WaitpidReaps(k)

SignalsSpec == SignalsInit /\ [][SignalsNext]_signalVars

-----------------------------------------------------------------------------
\* The loop of signal2.c to signal4.c leaves no zombie that no signal stands for, and
\* signal1.c at most all but one; signal3.c and signal4.c get their input, whenever the
\* children end, though the handler sets errno behind main()'s back.
SignalsSound ==
  /\ InState("zombie") # {} /\ ~chld /\ handlerAt = "off" /\ mainAt # "unix_error" =>
       program = 1 /\ InState("reaped") # {}
  /\ mainAt = "unix_error" => program \in {1, 2} /\ ~restarts
  /\ program = 1 => ~(handlerAt = "waitpid" /\ InState("zombie") = {})
=============================================================================
