------------------------------ MODULE ShellRun ------------------------------
(***************************************************************************)
(* The shell runs a line (xv6-labs/user/sh.c: main, runcmd), over        *)
(* descriptors, the table of open files and pipes                        *)
(* (xv6-labs/kernel/sysfile.c, file.c, pipe.c).                          *)
(*                                                                       *)
(* A program is its argv: it reads its standard input to the end, or     *)
(* writes to its standard output, or one after the other.  A step is a   *)
(* system call; the calls that exit() makes of close() are one step.     *)
(***************************************************************************)
EXTENDS ShellParser, FiniteSets

CONSTANTS NSHPROC,        \* processes
          NFILES, NFDS,   \* NFILE, NOFILE (param.h)
          Lines           \* bound: the commands that are typed

SH == 1
ShProcs == 1..NSHPROC
Fds == 0..(NFDS - 1)
OpenFile == 1..NFILES
Console1 == 1            \* the struct file that init opened and the shell inherits

ASSUME ShellRunAssumption ==
  NSHPROC \in Nat \ {0} /\ NFDS \in Nat /\ NFDS >= 3 /\ NFILES \in Nat \ {0}

VARIABLES
  pcof,      \* where a process is; "unused" and "zombie" are states of its slot
  running,   \* the command it runs, or what its program has still to do
  mother,    \* its parent; 0: init
  fds,       \* p->ofile
  pfd,       \* p[2] of runcmd()
  ftable,    \* the struct files: ref, and the end of a pipe it is
  pipetab,     \* readopen, writeopen, and whether there is data
  want,      \* history: the files its place in the line gives it
  dropped    \* history: a process that runs the line gave up without wait()

runVars == <<pcof, running, mother, fds, pfd, ftable, pipetab, want, dropped>>

Nothing == [fd \in Fds |-> 0]
Std(f) == [fd \in Fds |-> IF fd <= 2 THEN f ELSE 0]
NoFile == [ref |-> 0, pipe |-> 0, writable |-> FALSE]
NoPipe == [readopen |-> FALSE, writeopen |-> FALSE, data |-> FALSE]

RunInit ==
  /\ pcof = [p \in ShProcs |-> IF p = SH THEN "main" ELSE "unused"]
  /\ \E line \in Lines : running = [p \in ShProcs |-> line]
  /\ mother = [p \in ShProcs |-> 0]
  /\ fds = [p \in ShProcs |-> IF p = SH THEN Std(Console1) ELSE Nothing]
  /\ pfd = [p \in ShProcs |-> <<0, 0>>]
  /\ ftable = [f \in OpenFile |-> IF f = Console1 THEN [NoFile EXCEPT !.ref = 3] ELSE NoFile]
  /\ pipetab = [i \in OpenFile |-> NoPipe]
  /\ want = [p \in ShProcs |-> Std(Console1)]
  /\ dropped = FALSE

-----------------------------------------------------------------------------
(* The file table and pipetab: t is [file, pipe]. *)

Table == [file |-> ftable, pipe |-> pipetab]
SetTable(t) == ftable' = t.file /\ pipetab' = t.pipe

FilesLeft(t) == {f \in OpenFile : t.file[f].ref = 0}
FdsLeft(p) == {fd \in Fds : fds[p][fd] = 0}
Lowest(S) == CHOOSE x \in S : \A y \in S : x <= y

\* filealloc(), and what the caller makes of the file.
filealloc(t, pipe, writable) ==
  [t EXCEPT !.file[Lowest(FilesLeft(t))] = [ref |-> 1, pipe |-> pipe, writable |-> writable]]

filedup(t, f) == [t EXCEPT !.file[f].ref = @ + 1]

\* pipeclose(): the pipe is freed with its second end.
pipeclose(t, i, writable) ==
  IF writable
  THEN [t EXCEPT !.pipe[i] = IF @.readopen THEN [@ EXCEPT !.writeopen = FALSE] ELSE NoPipe]
  ELSE [t EXCEPT !.pipe[i] = IF @.writeopen THEN [@ EXCEPT !.readopen = FALSE] ELSE NoPipe]

fileclose(t, f) ==
  LET ff == t.file[f] IN
  IF ff.ref > 1 THEN [t EXCEPT !.file[f].ref = @ - 1]
  ELSE IF ff.pipe = 0 THEN [t EXCEPT !.file[f] = NoFile]
  ELSE pipeclose([t EXCEPT !.file[f] = NoFile], ff.pipe, ff.writable)

\* One close, or dup, for every descriptor in ds that p has.
ForAll(op(_, _), t, p, ds) ==
  FoldLeft(LAMBDA u, fd : op(u, fds[p][fd]), t,
           SetToSortSeq({fd \in ds : fds[p][fd] # 0}, <))

-----------------------------------------------------------------------------
(* System calls of p, which goes on at l. *)

Goto1(p, l) == pcof' = [pcof EXCEPT ![p] = l]

\* close(fd)
CloseFd(p, fd, l) ==
  /\ Goto1(p, l)
  /\ SetTable(fileclose(Table, fds[p][fd]))
  /\ fds' = [fds EXCEPT ![p][fd] = 0]
  /\ UNCHANGED <<running, mother, pfd, want, dropped>>

\* exit(): all descriptors are closed, the children are init's.
ExitProc(p) ==
  /\ Goto1(p, "zombie")
  /\ SetTable(ForAll(fileclose, Table, p, Fds))
  /\ fds' = [fds EXCEPT ![p] = Nothing]
  /\ mother' = [q \in ShProcs |-> IF mother[q] = p THEN 0 ELSE mother[q]]
  /\ UNCHANGED <<running, pfd, want>>

\* panic() or exit(1): the rest of the command is not run.
GiveUp(p) == ExitProc(p) /\ dropped' = TRUE

\* fork1(): the child c runs cmd from l on, its files are the parent's.
ForkTo(p, c, cmd, l, files) ==
  /\ pcof[c] = "unused"
  /\ \A d \in 1..(c - 1) : pcof[d] # "unused"
  /\ running' = [running EXCEPT ![c] = cmd]
  /\ mother' = [mother EXCEPT ![c] = p]
  /\ SetTable(ForAll(filedup, Table, p, Fds))
  /\ fds' = [fds EXCEPT ![c] = fds[p]]
  /\ pfd' = [pfd EXCEPT ![c] = pfd[p]]
  /\ want' = [want EXCEPT ![c] = files]
  /\ UNCHANGED dropped

Forks(p, from, to, cmd, l, files) ==
  /\ pcof[p] = from
  /\ \/ \E c \in ShProcs : /\ ForkTo(p, c, cmd, l, files)
                           /\ pcof' = [pcof EXCEPT ![p] = to, ![c] = l]
     \/ GiveUp(p)   \* no process, or no memory: panic()

\* wait(0): a child that has ended, or -1.
Waits(p, from, to) ==
  /\ pcof[p] = from
  /\ \/ \E c \in ShProcs : /\ mother[c] = p /\ pcof[c] = "zombie"
                           /\ pcof' = [pcof EXCEPT ![p] = to, ![c] = "unused"]
                           /\ mother' = [mother EXCEPT ![c] = 0]
     \/ /\ \A c \in ShProcs : mother[c] # p
        /\ Goto1(p, to) /\ UNCHANGED mother
  /\ UNCHANGED <<running, fds, pfd, ftable, pipetab, want, dropped>>

InitReaps(c) ==
  /\ pcof[c] = "zombie" /\ mother[c] = 0
  /\ Goto1(c, "unused")
  /\ UNCHANGED <<running, mother, fds, pfd, ftable, pipetab, want, dropped>>

-----------------------------------------------------------------------------
\* main(): a process for the line, and wait() for it; without one the shell ends.
MainForks == Forks(SH, "main", "mainwait", running[SH], "run", want[SH])
MainWaits == Waits(SH, "mainwait", "prompt")

Runs(p, type) == pcof[p] = "run" /\ running[p].type = type

\* exec(): from here on p is the program.
RunExec(p) ==
  /\ Runs(p, "EXEC")
  /\ Goto1(p, "program")
  /\ running' = [running EXCEPT ![p] = @.argv]
  /\ UNCHANGED <<mother, fds, pfd, ftable, pipetab, want, dropped>>

\* exec() fails: a message, and exit(0).
RunExecFails(p) == Runs(p, "EXEC") /\ ExitProc(p) /\ UNCHANGED dropped

RedirFd(cmd) == IF cmd.op = "<" THEN 0 ELSE 1
RunRedir(p) == Runs(p, "REDIR") /\ CloseFd(p, RedirFd(running[p]), "open")

\* open() of the file: it is the lowest free descriptor, as it was just closed.
RedirOpens(p) ==
  /\ pcof[p] = "open" /\ FilesLeft(Table) # {}
  /\ LET f == Lowest(FilesLeft(Table))  fd == Lowest(FdsLeft(p)) IN
       /\ SetTable(filealloc(Table, 0, FALSE))
       /\ fds' = [fds EXCEPT ![p][fd] = f]
       /\ want' = [want EXCEPT ![p][RedirFd(running[p])] = f]
  /\ Goto1(p, "run")
  /\ running' = [running EXCEPT ![p] = @.cmd]
  /\ UNCHANGED <<mother, pfd, dropped>>

\* No such file, no struct file: exit(1).
RedirFails(p) == pcof[p] = "open" /\ GiveUp(p)

RunList(p) == Runs(p, "LIST") /\ Forks(p, "run", "listwait", running[p].left, "run", want[p])
ListWaits(p) == Waits(p, "listwait", "right")
ListGoesOn(p) ==
  /\ pcof[p] = "right"
  /\ Goto1(p, "run")
  /\ running' = [running EXCEPT ![p] = @.right]
  /\ UNCHANGED <<mother, fds, pfd, ftable, pipetab, want, dropped>>

RunBack(p) == Runs(p, "BACK") /\ Forks(p, "run", "exit", running[p].cmd, "run", want[p])

\* pipealloc() and fdalloc() in sys_pipe(); t is the table with both ends.
WithPipe(i) ==
  LET t == [Table EXCEPT !.pipe[i] = [readopen |-> TRUE, writeopen |-> TRUE, data |-> FALSE]]
  IN filealloc(filealloc(t, i, FALSE), i, TRUE)

RunPipe(p) ==
  /\ Runs(p, "PIPE")
  /\ Cardinality(FilesLeft(Table)) >= 2 /\ Cardinality(FdsLeft(p)) >= 2
  /\ LET i == Lowest({j \in OpenFile : pipetab[j] = NoPipe})
         rf == Lowest(FilesLeft(Table))
         wf == Lowest(FilesLeft(Table) \ {rf})
         fd0 == Lowest(FdsLeft(p))
         fd1 == Lowest(FdsLeft(p) \ {fd0})
     IN /\ SetTable(WithPipe(i))
        /\ fds' = [fds EXCEPT ![p][fd0] = rf, ![p][fd1] = wf]
        /\ pfd' = [pfd EXCEPT ![p] = <<fd0, fd1>>]
  /\ Goto1(p, "forkleft")
  /\ UNCHANGED <<running, mother, want, dropped>>

\* pipe() fails: whatever it had is given back, the shell panics.
PipeFails(p) == Runs(p, "PIPE") /\ GiveUp(p)

PipeEnd(p, k) == fds[p][pfd[p][k]]
ForkLeft(p) == Forks(p, "forkleft", "forkright", running[p].left, "left",
                     [want[p] EXCEPT ![1] = PipeEnd(p, 2)])
ForkRight(p) == Forks(p, "forkright", "close0", running[p].right, "right0",
                      [want[p] EXCEPT ![0] = PipeEnd(p, 1)])

\* close(1) of the left child, close(0) of the right one; dup() of the pipe's end.
LeftCloses(p) == pcof[p] = "left" /\ CloseFd(p, 1, "dup1")
RightCloses(p) == pcof[p] = "right0" /\ CloseFd(p, 0, "dup0")
Dups(p, from, k) ==
  /\ pcof[p] = from
  /\ SetTable(filedup(Table, PipeEnd(p, k)))
  /\ fds' = [fds EXCEPT ![p][Lowest(FdsLeft(p))] = PipeEnd(p, k)]
  /\ Goto1(p, "childclose0")
  /\ UNCHANGED <<running, mother, pfd, want, dropped>>

\* Mutant of ChildCloses1: the child forgets close(p[1]).
ChildCloses1Not(p) ==
  /\ pcof[p] = "childclose1" /\ Goto1(p, "run")
  /\ UNCHANGED <<running, mother, fds, pfd, ftable, pipetab, want, dropped>>

\* close(p[0]), close(p[1]): the child runs its command, the parent waits.
ChildCloses0(p) == pcof[p] = "childclose0" /\ CloseFd(p, pfd[p][1], "childclose1")
ChildCloses1(p) == pcof[p] = "childclose1" /\ CloseFd(p, pfd[p][2], "run")
ParentCloses0(p) == pcof[p] = "close0" /\ CloseFd(p, pfd[p][1], "close1")
ParentCloses1(p) == pcof[p] = "close1" /\ CloseFd(p, pfd[p][2], "wait1")

RunEnds(p) == pcof[p] = "exit" /\ ExitProc(p) /\ UNCHANGED dropped

-----------------------------------------------------------------------------
(* A program. *)

Doing(p, what) == pcof[p] = "program" /\ running[p] # <<>> /\ Head(running[p]) = what
Done1(p) == running' = [running EXCEPT ![p] = Tail(@)]
InputOf(p) == ftable[fds[p][0]]
OutputOf(p) == ftable[fds[p][1]]

\* read() of bytes; the next read() comes after.
ReadSome(p) ==
  /\ Doing(p, "read") /\ InputOf(p).pipe # 0 /\ pipetab[InputOf(p).pipe].data
  /\ pipetab' = [pipetab EXCEPT ![InputOf(p).pipe].data = FALSE]
  /\ UNCHANGED <<pcof, running, mother, fds, pfd, ftable, want, dropped>>

\* The end of a file, of the console's input, or of a pipe that nobody can write to.
ReadsEof(p) ==
  /\ Doing(p, "read")
  /\ InputOf(p).pipe # 0 => LET pi == pipetab[InputOf(p).pipe] IN ~pi.data /\ ~pi.writeopen
  /\ Done1(p)
  /\ UNCHANGED <<pcof, mother, fds, pfd, ftable, pipetab, want, dropped>>

\* write(): it waits for room in a pipe, and fails if nobody can read.
WriteSome(p) ==
  /\ Doing(p, "write")
  /\ LET i == OutputOf(p).pipe IN
       IF i = 0 \/ ~pipetab[i].readopen THEN UNCHANGED pipetab
       ELSE ~pipetab[i].data /\ pipetab' = [pipetab EXCEPT ![i].data = TRUE]
  /\ Done1(p)
  /\ UNCHANGED <<pcof, mother, fds, pfd, ftable, want, dropped>>

ProgramEnds(p) == pcof[p] = "program" /\ running[p] = <<>> /\ ExitProc(p) /\ UNCHANGED dropped

RunNext ==
  \/ MainForks \/ MainWaits
  \/ \E p \in ShProcs \ {SH} :
       \/ RunExec(p) \/ RunExecFails(p) \/ RunRedir(p) \/ RedirOpens(p) \/ RedirFails(p)
       \/ RunList(p) \/ ListWaits(p) \/ ListGoesOn(p) \/ RunBack(p)
       \/ RunPipe(p) \/ PipeFails(p) \/ ForkLeft(p) \/ ForkRight(p)
       \/ LeftCloses(p) \/ Dups(p, "dup1", 2) \/ RightCloses(p) \/ Dups(p, "dup0", 1)
       \/ ChildCloses0(p) \/ ChildCloses1(p) \/ ParentCloses0(p) \/ ParentCloses1(p)
       \/ Waits(p, "wait1", "wait2") \/ Waits(p, "wait2", "exit")
       \/ RunEnds(p) \/ InitReaps(p)
       \/ ReadSome(p) \/ ReadsEof(p) \/ WriteSome(p) \/ ProgramEnds(p)

RunSpec == RunInit /\ [][RunNext]_runVars

-----------------------------------------------------------------------------
\* A struct file counts the descriptors that name it; an end of a pipe is open
\* while a file in use is that end.
RefsCountFds ==
  /\ \A f \in OpenFile :
       ftable[f].ref = Cardinality({x \in ShProcs \X Fds : fds[x[1]][x[2]] = f})
  /\ \A i \in OpenFile :
       LET ends(w) == \E f \in OpenFile : ftable[f].pipe = i /\ ftable[f].writable = w
       IN pipetab[i].readopen = ends(FALSE) /\ pipetab[i].writeopen = ends(TRUE)

\* A program finds the files that its place in the line gives it, and no other.
WiredAsWritten ==
  \A p \in ShProcs : pcof[p] = "program" => fds[p] = want[p]

\* With the prompt comes the end of what was not put in the background; the shell
\* itself ends only before it has a process for the line; and when nothing can move
\* any more, every process has ended and every file is closed.
MayLeaveJobs == running[SH].type \in {"BACK", "LIST"}
LineEnds1 ==
  /\ pcof[SH] = "prompt" /\ ~dropped /\ ~MayLeaveJobs =>
       \A p \in ShProcs \ {SH} : pcof[p] \in {"unused", "zombie"} /\ mother[p] = 0
  /\ pcof[SH] = "zombie" => dropped /\ \A p \in ShProcs \ {SH} : pcof[p] = "unused"
  /\ ~ENABLED RunNext =>
       /\ pcof[SH] \in {"prompt", "zombie"}
       /\ \A p \in ShProcs \ {SH} : pcof[p] = "unused"
       /\ \A f \in OpenFile \ {Console1} : ftable[f].ref = 0

ShellSound == RefsCountFds /\ WiredAsWritten /\ LineEnds1
=============================================================================
