-------------------------------- MODULE Shellex --------------------------------
(***************************************************************************)
(* The course's simple shell (ecf/shellex.c): parseline() cuts a line into     *)
(* arguments, eval() forks a job and awaits it unless it is to run behind.      *)
(***************************************************************************)
EXTENDS Integers, Sequences, SequencesExt, FiniteSets, FiniteSetsExt

CONSTANTS Pids,      \* processes; the shell's jobs get theirs
          NoPid,
          MaxLine    \* bound: characters of a line, without its newline

ASSUME ShellexAssumption == NoPid \notin Pids /\ MaxLine \in Nat

VARIABLES
  job,      \* of each pid: "none", "runs" or "zombie"
  behind,   \* the pids of jobs that were printed, and run behind
  waitsFor, \* the job eval() waits for, or NoPid
  shellAt,  \* "read", "wait" or "exited"
  typedLine, \* the line typed last
  argv, bg  \* what parseline() made of it

shellexVars == <<job, behind, waitsFor, shellAt, typedLine, argv, bg>>

ShellexInit ==
  /\ job = [p \in Pids |-> "none"] /\ behind = {}
  /\ waitsFor = NoPid /\ shellAt = "read"
  /\ typedLine = <<>> /\ argv = <<>> /\ bg = TRUE

TypedText == UNION {[1..n -> {"c", "&", "_"}] : n \in 0..MaxLine}
-----------------------------------------------------------------------------
\* Where the spaces before buf end.
RECURSIVE SkipSpaces(_)
SkipSpaces(buf) == IF buf # <<>> /\ Head(buf) = "_" THEN SkipSpaces(Tail(buf)) ELSE buf

\* The newline has become a space: every argument is followed by one.
RECURSIVE Args1(_)
Args1(buf) ==
  IF buf = <<>> THEN <<>>
  ELSE LET delim == CHOOSE i \in 1..Len(buf) : buf[i] = "_" /\ \A j \in 1..(i - 1) : buf[j] # "_"
       IN <<SubSeq(buf, 1, delim - 1)>> \o Args1(SkipSpaces(SubSeq(buf, delim + 1, Len(buf))))

\* A last argument that begins with & sends the job behind; a blank line does, too.
Behind(args) == args = <<>> \/ Head(Last(args)) = "&"
parseline(buf) ==
  LET args == Args1(SkipSpaces(Append(buf, "_")))
  IN [bg |-> Behind(args),
      argv |-> IF args # <<>> /\ Behind(args) THEN Front(args) ELSE args]

\* Fgets() and eval().  A line without arguments, and one that begins with the argument
\* & (builtin_command()), is ignored.
Ignored(a) == a = <<>> \/ Head(a) = <<"&">>

Typed ==
  /\ shellAt = "read"
  /\ \E l \in TypedText :
       LET parsed == parseline(l) IN
       /\ typedLine' = l /\ argv' = parsed.argv /\ bg' = parsed.bg
       /\ IF Ignored(parsed.argv) THEN UNCHANGED <<job, behind, waitsFor, shellAt>>
          ELSE \E p \in Pids :
                 /\ job[p] = "none"
                 /\ job' = [job EXCEPT ![p] = "runs"]
                 /\ IF parsed.bg THEN behind' = behind \cup {p} /\ UNCHANGED <<waitsFor, shellAt>>
                    ELSE waitsFor' = p /\ shellAt' = "wait" /\ UNCHANGED behind

\* The program ends, or could not be executed.
JobEnds(p) ==
  /\ job[p] = "runs" /\ job' = [job EXCEPT ![p] = "zombie"]
  /\ UNCHANGED <<behind, waitsFor, shellAt, typedLine, argv, bg>>

\* Mutant of Awaited: waitpid(-1), any child.
AwaitedAny(p) == job[p] = "zombie"

Awaited(p) == p = waitsFor /\ job[p] = "zombie"

WaitpidReturns(p) ==
  /\ shellAt = "wait" /\ Awaited(p)
  /\ job' = [job EXCEPT ![p] = "none"]
  /\ shellAt' = "read" /\ waitsFor' = NoPid
  /\ UNCHANGED <<behind, typedLine, argv, bg>>

\* The command quit, or the end of the input: exit(), and init reaps what is left.
ShellQuits ==
  /\ shellAt = "read" /\ shellAt' = "exited"
  /\ job' = [p \in Pids |-> IF job[p] = "zombie" THEN "none" ELSE job[p]]
  /\ UNCHANGED <<behind, waitsFor, typedLine, argv, bg>>

ShellexNext == Typed \/ ShellQuits \/ \E p \in Pids : JobEnds(p) \/ WaitpidReturns(p)
ShellexSpec == ShellexInit /\ [][ShellexNext]_shellexVars

-----------------------------------------------------------------------------
\* The words of a line.
WordsOf(l) ==
  LET starts == {i \in 1..Len(l) : l[i] # "_" /\ (i = 1 \/ l[i - 1] = "_")}
      ends == {j \in 1..Len(l) : l[j] # "_" /\ (j = Len(l) \/ l[j + 1] = "_")}
      word(i) == SubSeq(l, i, Min({j \in ends : j >= i}))
  IN [n \in 1..Cardinality(starts) |-> word(SetToSortSeq(starts, <)[n])]

\* The arguments are the typedLine's words, without a last one that begins with &.  While the
\* shell asks, no job is left but those behind, whichever of them have ended meanwhile;
\* those are never reaped.
ShellexExact ==
  /\ LET words == WordsOf(typedLine) IN
     argv = IF words # <<>> /\ Head(Last(words)) = "&" THEN Front(words) ELSE words
  /\ shellAt # "exited" =>
       {p \in Pids : job[p] # "none"} = behind \cup (IF shellAt = "wait" THEN {waitsFor} ELSE {})
=============================================================================
