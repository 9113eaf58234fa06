--------------------------------- MODULE Find ---------------------------------
(***************************************************************************)
(* find (xv6-labs/user/find.c) over a tree from which another process removes  *)
(* a file or a directory meanwhile.  find() calls itself for every directory,  *)
(* and its user stack is one page: exec() (kernel/exec.c) puts none below it. *)
(***************************************************************************)
EXTENDS Integers, Sequences, SequencesExt, FiniteSets

CONSTANTS MaxNodes,    \* bound: inodes; 1 is the current directory
          FindNames,   \* names of files
          STACKFRAMES, \* calls of find() for which the stack page has room (find.asm: 640 bytes each)
          MaxRemoved   \* bound: how many are removed while find runs

ASSUME FindAssumption == /\ MaxNodes \in Nat \ {0}
                         /\ STACKFRAMES \in Nat \ {0} /\ MaxRemoved \in Nat

VARIABLES
  tree,        \* of each node: its parent, type and name
  removed,     \* the nodes that were unlinked
  target,      \* argv[1]
  frames,      \* the calls of find(): a directory, and how many of its entries were read
  found,       \* what was printed
  finding      \* "runs", "done" or "killed"

findVars == <<tree, removed, target, frames, found, finding>>

-----------------------------------------------------------------------------
Nodes == 1..MaxNodes   \* every directory before what it contains
Kids(d) == {n \in Nodes \ {1} : tree[n].parent = d}
RECURSIVE Above(_)
Above(n) == IF n = 1 THEN {1} ELSE {n} \cup Above(tree[n].parent)
Depth(n) == Cardinality(Above(n))

\* The entries of a directory, in the order of its slots: a slot that was given up has
\* inum 0.  No file is made meanwhile, and . and .. are first.
EntriesOf(d) ==
  <<[name |-> ".", inum |-> d], [name |-> "..", inum |-> tree[d].parent]>>
  \o [k \in 1..Cardinality(Kids(d)) |->
        LET n == SetToSortSeq(Kids(d), <)[k]
        IN [name |-> tree[n].name, inum |-> IF n \in removed THEN 0 ELSE n]]

Parents == {p \in [2..MaxNodes -> Nodes] : \A n \in 2..MaxNodes : p[n] < n}
Tree(p, type, name) ==
  [n \in Nodes |-> IF n = 1 THEN [parent |-> 1, type |-> "T_DIR", name |-> CHOOSE a \in FindNames : TRUE]
                   ELSE [parent |-> p[n], type |-> type[n], name |-> name[n]]]

Trees ==
  {t \in {Tree(p, type, name) : p \in Parents, type \in [2..MaxNodes -> {"T_DIR", "T_FILE"}],
                               name \in [2..MaxNodes -> FindNames]} :
     \A n \in 2..MaxNodes :
        /\ t[t[n].parent].type = "T_DIR"
        /\ \A k \in 2..(n - 1) : t[k].parent = t[n].parent => t[k].name # t[n].name}

FindStarts(trees) ==
  /\ tree \in trees /\ removed = {} /\ target \in FindNames
  /\ frames = <<[dir |-> 1, read |-> 0]>> /\ found = <<>> /\ finding = "runs"

FindInit == FindStarts(Trees)

-----------------------------------------------------------------------------
Running2 == finding = "runs" /\ frames # <<>>
Top1 == frames[Len(frames)]
Advanced == [frames EXCEPT ![Len(frames)].read = @ + 1]
MoreEntries == Top1.read < Len(EntriesOf(Top1.dir))
Entry == EntriesOf(Top1.dir)[Top1.read + 1]

\* stat(buf) walks the path: it fails when any directory on it is gone.
StatWorks(n) == Above(Top1.dir) \cap removed = {} /\ n \notin removed

\* A slot that is free, or a file that cannot be stat'ed: continue.
SkipEntry ==
  /\ Running2 /\ MoreEntries
  /\ Entry.inum = 0 \/ ~StatWorks(Entry.inum)
  /\ frames' = Advanced
  /\ UNCHANGED <<tree, removed, target, found, finding>>

\* Mutant of Descends: .. is not left out.
DescendsUp(e) == tree[e.inum].type = "T_DIR" /\ e.name # "."

Descends(e) == tree[e.inum].type = "T_DIR" /\ e.name \notin {".", ".."}

Prints(e) == IF e.name = target THEN Append(found, e.inum) ELSE found

ReadEntry ==
  /\ Running2 /\ MoreEntries
  /\ Entry.inum # 0 /\ StatWorks(Entry.inum) /\ ~Descends(Entry)
  /\ found' = Prints(Entry)
  /\ frames' = Advanced
  /\ UNCHANGED <<tree, removed, target, finding>>

\* find() calls itself; a call for which the stack page has no room faults, and
\* usertrap() kills the process.
Descend ==
  /\ Running2 /\ MoreEntries
  /\ Entry.inum # 0 /\ StatWorks(Entry.inum) /\ Descends(Entry)
  /\ found' = Prints(Entry)
  /\ IF Len(frames) < STACKFRAMES
     THEN /\ frames' = Append(Advanced, [dir |-> Entry.inum, read |-> 0])
          /\ UNCHANGED finding
     ELSE finding' = "killed" /\ UNCHANGED frames
  /\ UNCHANGED <<tree, removed, target>>

\* read() returns 0, or open() has failed as the directory is gone: find() returns.
FindReturns ==
  /\ Running2
  /\ ~MoreEntries \/ (Top1.read = 0 /\ Above(Top1.dir) \cap removed # {})
  /\ frames' = Front(frames)
  /\ finding' = IF Len(frames) = 1 THEN "done" ELSE "runs"
  /\ UNCHANGED <<tree, removed, target, found>>

\* rm, of a file or of a directory that is empty.
Unlinked(n) ==
  /\ n # 1 /\ n \notin removed /\ Cardinality(removed) < MaxRemoved
  /\ Kids(n) \subseteq removed
  /\ removed' = removed \cup {n}
  /\ UNCHANGED <<tree, target, frames, found, finding>>

FindNext ==
  \/ SkipEntry \/ ReadEntry \/ Descend \/ FindReturns
  \/ \E n \in Nodes : Unlinked(n)

FindSpec == FindInit /\ [][FindNext]_findVars

-----------------------------------------------------------------------------
\* find prints only files of the name it looks for, none twice, and by its end all of
\* those that stayed where they were; only a tree too deep for its stack has it killed.
FindExact ==
  /\ IsInjective(found)
  /\ \A n \in Range(found) : n # 1 /\ tree[n].name = target
  /\ finding = "done" =>
       \A n \in Nodes \ (removed \cup {1}) : tree[n].name = target => n \in Range(found)
  /\ finding = "killed" =>
       \E n \in Nodes : tree[n].type = "T_DIR" /\ Depth(n) > STACKFRAMES
=============================================================================
