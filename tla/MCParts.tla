------------------------------- MODULE MCParts -------------------------------
(***************************************************************************)
(* Components that share no state, checked side by side in one run: Init      *)
(* chooses the one that runs, the others stay where they start.              *)
(***************************************************************************)
EXTENDS VirtioDisk, Console, Memory, Heap, UserMalloc, Sbuf, Reaper, ShellRun, MkFs,
        UserCopy, Primes, Strings, Find, Filters, Traps, Echo, EchoPool, Tiny,
        Signals, Shellex

VARIABLE part

\* Proc's variables, in the run of four processes that MCProc starts.
VARIABLES pLock, pState, pParent, pChan, pKilled, pPid, pNextpid, pPc, pIdx, pOpar, pKids, pTarget
familyVars == <<pLock, pState, pParent, pChan, pKilled, pPid, pNextpid, pPc, pIdx, pOpar, pKids,
                pTarget>>

Family == INSTANCE MCProc WITH
  NPROC <- 4, MaxPid <- 5, MemFail <- FALSE,
  lock <- pLock, state <- pState, parent <- pParent, chan <- pChan, killed <- pKilled, pid <- pPid,
  nextpid <- pNextpid, pc <- pPc, idx <- pIdx, opar <- pOpar, kids <- pKids, target <- pTarget

PartNames == {"family", "disk", "console", "memory", "heap", "malloc", "sbuf", "reaper", "parser", "shell",
              "file", "image", "copy", "grep", "sieve", "traps", "echo", "pool", "tiny",
              "text", "find", "filters", "signals", "shellex"}

DeepTree == [n \in Nodes |-> [parent |-> IF n = 1 THEN 1 ELSE n - 1, type |-> "T_DIR", name |-> "a"]]
NoCall == [f |-> "path", path |-> <<>>]

\* Where a part has several initial states, the others see one of them.
Init ==
  /\ part \in PartNames
  /\ Family!FamilyInit
  /\ DiskInit /\ ConsInit /\ MemInit /\ HeapInit /\ UMInit /\ SbufInit /\ ReaperInit
  /\ FileInit /\ ImageInit /\ EchoInit /\ PoolInit
  /\ ShellInit
  /\ RunInit /\ (part = "shell" \/ running[SH] = CHOOSE l \in Lines : TRUE)
  /\ CopyInit /\ (part = "copy" \/ (/\ mem2 = [pages |-> {}, nul |-> NoNul, sz |-> 0]
                                   /\ request = [f |-> "copy", addr |-> 0, len |-> 0]))
  /\ GrepInit /\ (part = "grep" \/ (gfile = <<>> /\ re = CHOOSE any \in Patterns : TRUE))
  /\ SieveInit /\ (part = "sieve" \/ top = MaxNum)
  /\ TrapsInit /\ (part = "traps" \/ ticks = 0)
  /\ TinyInit /\ (part = "tiny" \/ \A b \in Browsers : asked[b] = [kind |-> "cgi", lines |-> 2])
  /\ IF part = "text" THEN TextInit ELSE TextStarts({NoCall})
  /\ IF part = "find" THEN FindInit ELSE FindStarts({DeepTree}) /\ target = "a"
  /\ IF part = "filters" THEN FiltersInit ELSE FiltersStarts({<<>>})
  /\ SignalsInit /\ (part = "signals" \/ program = 4)
  /\ ShellexInit

Rest ==
  /\ part # "family" => UNCHANGED familyVars
  /\ part # "disk" => UNCHANGED diskVars
  /\ part # "console" => UNCHANGED consVars
  /\ part # "memory" => UNCHANGED memVars
  /\ part # "heap" => UNCHANGED heapVars
  /\ part # "malloc" => UNCHANGED umVars
  /\ part # "sbuf" => UNCHANGED sbufVars
  /\ part # "reaper" => UNCHANGED reaperVars
  /\ part # "parser" => UNCHANGED tokens
  /\ part # "shell" => UNCHANGED runVars
  /\ part # "file" => UNCHANGED fileVars
  /\ part # "image" => UNCHANGED imageVars
  /\ part # "copy" => UNCHANGED copyVars
  /\ part # "grep" => UNCHANGED grepVars
  /\ part # "sieve" => UNCHANGED sieveVars
  /\ part # "traps" => UNCHANGED trapVars
  /\ part # "echo" => UNCHANGED echoVars
  /\ part # "pool" => UNCHANGED poolVars
  /\ part # "tiny" => UNCHANGED tinyVars
  /\ part # "text" => UNCHANGED textVars
  /\ part # "find" => UNCHANGED findVars
  /\ part # "filters" => UNCHANGED filterVars
  /\ part # "signals" => UNCHANGED signalVars
  /\ part # "shellex" => UNCHANGED shellexVars
  /\ UNCHANGED part

Next ==
  \/ part = "family" /\ Family!FamilyNext /\ Rest
  \/ part = "disk" /\ DiskNext /\ Rest
  \/ part = "console" /\ ConsNext /\ Rest
  \/ part = "memory" /\ MemNext /\ Rest
  \/ part = "heap" /\ HeapNext /\ Rest
  \/ part = "malloc" /\ UMNext /\ Rest
  \/ part = "sbuf" /\ SbufNext /\ Rest
  \/ part = "reaper" /\ ReaperNext /\ Rest
  \/ part = "parser" /\ ShellNext /\ Rest
  \/ part = "shell" /\ RunNext /\ Rest
  \/ part = "file" /\ FileNext /\ Rest
  \/ part = "image" /\ ImageNext /\ Rest
  \/ part = "copy" /\ CopyNext /\ Rest
  \/ part = "grep" /\ GrepNext /\ Rest
  \/ part = "sieve" /\ SieveNext /\ Rest
  \/ part = "traps" /\ TrapsNext /\ Rest
  \/ part = "echo" /\ EchoNext /\ Rest
  \/ part = "pool" /\ PoolNext /\ Rest
  \/ part = "tiny" /\ TinyNext /\ Rest
  \/ part = "text" /\ TextNext /\ Rest
  \/ part = "find" /\ FindNext /\ Rest
  \/ part = "filters" /\ FiltersNext /\ Rest
  \/ part = "signals" /\ SignalsNext /\ Rest
  \/ part = "shellex" /\ ShellexNext /\ Rest

vars == <<diskVars, consVars, memVars, heapVars, umVars, sbufVars, reaperVars, tokens, runVars,
          fileVars, imageVars, copyVars, grepVars, sieveVars, trapVars, echoVars, poolVars,
          tinyVars, textVars, findVars, filterVars, signalVars, shellexVars,
          familyVars, part>>
Spec == Init /\ [][Next]_vars

-----------------------------------------------------------------------------
(* What is typed into the shell, and what grep looks for. *)

Reads2 == EXEC(<<"read">>)
Writes == EXEC(<<"write">>)
Filters == EXEC(<<"read", "write">>)
TypedLines == {PIPE(Writes, PIPE(Filters, Reads2)), LIST(BACK(Reads2), PIPE(Writes, Reads2)),
               PIPE(Writes, REDIR(Reads2, "<", "a")),
               PIPE(LIST(Writes, Writes), REDIR(Filters, ">", "a"))}

SomePatterns == {<<"a">>, <<"^", "a", "$">>, <<"a", "*", "b">>, <<"^", "b", "*", "$">>,
                 <<"a", ".", "*", "$">>, <<"$">>, <<".", "*", "a", "b">>}

Naps == {2, -1}

\* Every format of up to four characters.
SomeFormats == UNION {[1..n -> {"%", "d", "x", "c", "q"}] : n \in 0..4}
-----------------------------------------------------------------------------
(* A part's properties are about the behaviours in which it runs; DiskServes,  *)
(* ConsoleServes, TicksSound, MemorySound, ReaperSound, FileSound and            *)
(* OnlyStaleParentsDeadlock hold when it rests.                                 *)

\* Four processes that exit while the youngest forks into a slot that has become free:
\* where they wait for each other's locks in a circle, one of them has a stale
\* original_parent (proc.c:363-375).
OnlyStaleParentsDeadlock == Family!OnlyStaleParentsDeadlock

\* Both allocators of user memory keep their lists and their blocks in order.
AllocatorsSound ==
  /\ part = "heap" => HeapTypeOK /\ HeapSound
  /\ part = "malloc" => UserHeapSound

\* The servers of the course lose nothing of what clients that wait send or get, and
\* their threads keep out of each other's way.
ServersSound ==
  /\ part = "sbuf" => SbufSound
  /\ part = "echo" => EchoSound
  /\ part = "pool" => PoolSound
  /\ part = "tiny" => TinySound

\* What parses, copies, searches and sieves does it as its definition says, and mkfs
\* makes the image that the kernel reads.
ProgramsExact ==
  /\ part = "parser" => ParserExact
  /\ part = "image" => ImageSound
  /\ part = "copy" => CopyExact
  /\ part = "grep" => GrepExact
  /\ part = "sieve" => PrimesExact
  /\ part = "text" => TextExact
  /\ part = "find" => FindExact
  /\ part = "filters" => FiltersExact

\* What waits for children that end gets its input, and reaps those it is to reap; the
\* shell gives every program of a line its files, and awaits it.
ChildrenReaped ==
  /\ part = "shell" => ShellSound
  /\ part = "signals" => SignalsSound
  /\ part = "shellex" => ShellexExact
=============================================================================
