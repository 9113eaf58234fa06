------------------------------- MODULE Reaper -------------------------------
(***************************************************************************)
(* A shell's job list and its SIGCHLD handler (course code,                  *)
(* ecf/procmask2.c; the handler is that of signal2.c to signal4.c as well).   *)
(* Signals of a kind do not queue: one is pending or none.  The handler runs  *)
(* on top of main() wherever the signal is not blocked, and blocks it.        *)
(***************************************************************************)
EXTENDS Integers

CONSTANTS Children, \* pids; one is used again once its process was reaped
          NoChild

ASSUME ReaperAssumption == NoChild \notin Children

VARIABLES
  child,    \* of each pid: "none", "running" or "zombie"
  pending,  \* SIGCHLD was sent and not delivered
  blocked,  \* main() has SIGCHLD in its mask
  main, forked,       \* where main() is, and its pid
  handler2, reaped,   \* where handler() is, and its pid
  jobs

reaperVars == <<child, pending, blocked, main, forked, handler2, reaped, jobs>>

ReaperInit ==
  /\ child = [c \in Children |-> "none"]
  /\ pending = FALSE /\ blocked = FALSE
  /\ main = "block" /\ forked = NoChild
  /\ handler2 = "off" /\ reaped = NoChild /\ jobs = {}

-----------------------------------------------------------------------------
MainRuns(from) == main = from /\ handler2 = "off"

\* Mutant of BlockSignal, as in procmask1.c: SIGCHLD is not blocked.
BlockSignalNot ==
  /\ MainRuns("block") /\ main' = "fork"
  /\ UNCHANGED <<child, pending, blocked, forked, handler2, reaped, jobs>>

\* Sigprocmask(SIG_BLOCK)
BlockSignal ==
  /\ MainRuns("block") /\ main' = "fork"
  /\ blocked' = TRUE
  /\ UNCHANGED <<child, pending, forked, handler2, reaped, jobs>>

ForkChild ==
  /\ MainRuns("fork") /\ main' = "add"
  /\ \E c \in Children : /\ child[c] = "none"
                         /\ child' = [child EXCEPT ![c] = "running"]
                         /\ forked' = c
  /\ UNCHANGED <<pending, blocked, handler2, reaped, jobs>>

AddJob ==
  /\ MainRuns("add") /\ main' = "unblock"
  /\ jobs' = jobs \cup {forked} /\ forked' = NoChild
  /\ UNCHANGED <<child, pending, blocked, handler2, reaped>>

UnblockSignal ==
  /\ MainRuns("unblock") /\ main' = "block"
  /\ blocked' = FALSE
  /\ UNCHANGED <<child, pending, forked, handler2, reaped, jobs>>

\* The child ends; the kernel sends SIGCHLD.
ChildExits(c) ==
  /\ child[c] = "running"
  /\ child' = [child EXCEPT ![c] = "zombie"]
  /\ pending' = TRUE
  /\ UNCHANGED <<blocked, main, forked, handler2, reaped, jobs>>

Deliver ==
  /\ pending /\ ~blocked /\ handler2 = "off"
  /\ pending' = FALSE /\ handler2' = "wait"
  /\ UNCHANGED <<child, blocked, main, forked, reaped, jobs>>

\* waitpid(-1, NULL, 0): it waits for a child to end, while there are any.
WaitPid(c) ==
  /\ handler2 = "wait" /\ child[c] = "zombie"
  /\ child' = [child EXCEPT ![c] = "none"]
  /\ handler2' = "delete" /\ reaped' = c
  /\ UNCHANGED <<pending, blocked, main, forked, jobs>>

\* Mutant of DeleteJob, as in signal1.c: one child per signal.
DeleteJobOnce ==
  /\ handler2 = "delete"
  /\ jobs' = jobs \ {reaped} /\ reaped' = NoChild
  /\ handler2' = "off"
  /\ UNCHANGED <<child, pending, blocked, main, forked>>

DeleteJob ==
  /\ handler2 = "delete"
  /\ jobs' = jobs \ {reaped} /\ reaped' = NoChild
  /\ handler2' = "wait"
  /\ UNCHANGED <<child, pending, blocked, main, forked>>

\* ECHILD: no child is left.
HandlerReturns ==
  /\ handler2 = "wait" /\ \A c \in Children : child[c] = "none"
  /\ handler2' = "off"
  /\ UNCHANGED <<child, pending, blocked, main, forked, reaped, jobs>>

ReaperNext ==
  \/ BlockSignal \/ ForkChild \/ AddJob \/ UnblockSignal
  \/ Deliver \/ DeleteJob \/ HandlerReturns
  \/ \E c \in Children : ChildExits(c) \/ WaitPid(c)

ReaperSpec == ReaperInit /\ [][ReaperNext]_reaperVars

-----------------------------------------------------------------------------
ReaperTypeOK ==
  /\ child \in [Children -> {"none", "running", "zombie"}]
  /\ pending \in BOOLEAN /\ blocked \in BOOLEAN
  /\ main \in {"block", "fork", "add", "unblock"} /\ forked \in Children \cup {NoChild}
  /\ handler2 \in {"off", "wait", "delete"} /\ reaped \in Children \cup {NoChild}
  /\ jobs \subseteq Children

\* The job list names the children that were not reaped, but for the one that
\* main() is about to add and the one that handler() is about to delete.
JobsExact == jobs = ({c \in Children : child[c] # "none"} \ {forked}) \cup ({reaped} \ {NoChild})

\* A zombie is seen, though the signals of two children may be one.
ZombiesSeen == (\E c \in Children : child[c] = "zombie") => pending \/ handler2 # "off"

\* The list is exact, and every zombie is going to be reaped.
ReaperSound == ReaperTypeOK /\ JobsExact /\ ZombiesSeen
=============================================================================
