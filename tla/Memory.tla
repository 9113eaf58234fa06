------------------------------- MODULE Memory -------------------------------
(***************************************************************************)
(* Physical pages and user address spaces: kalloc() and kfree() (kalloc.c),  *)
(* page tables (vm.c), and the calls that build, change and destroy address  *)
(* spaces: sbrk, fork, exec, exit (proc.c, exec.c, sysfile.c, sysproc.c).    *)
(*                                                                           *)
(* Processes run these calls side by side and compete for the last page, so  *)
(* a kalloc() fails here exactly when no page is left; a step allocates one   *)
(* page and maps it.  A page is known by the place that points to it: a page  *)
(* that kalloc() gave out has just one until kfree().                        *)
(***************************************************************************)
EXTENDS Integers, FiniteSets

CONSTANTS Procs,      \* 1..NPROC; process 1 is init
          NPAGES,     \* pages on the free list after boot, before userinit()
          PGSIZE,
          FANOUT,     \* stands for the 512 entries of a page table
          UserTop,    \* bound: the addresses that calls ask for
          SizeWrap,   \* stands for 2^32: growproc() computes sizes as uints
          MaxArgs, MaxPipes

VIRTUALS == 0..(FANOUT * FANOUT * FANOUT - 1)  \* page numbers below MAXVA
TRAMPOLINE == FANOUT * FANOUT * FANOUT - 1
TRAPFRAME == TRAMPOLINE - 1
PageUp(n) == (n + PGSIZE - 1) \div PGSIZE      \* PGROUNDUP(n) / PGSIZE
Pages(n) == 0..(PageUp(n) - 1)

ASSUME MemoryAssumption ==
  /\ IsFiniteSet(Procs) /\ 1 \in Procs /\ Procs = 1..Cardinality(Procs)
  /\ {PGSIZE, FANOUT, SizeWrap} \subseteq Nat \ {0}
  /\ {NPAGES, UserTop, MaxArgs, MaxPipes} \subseteq Nat
  /\ NPAGES >= 9    \* userinit() finds its pages
  /\ PageUp(UserTop) + 2 < TRAPFRAME /\ UserTop + 3 * PGSIZE < SizeWrap

VARIABLES
  nfree,    \* pages on kmem.freelist
  pstate,   \* p->state: "unused", "made" (fork() holds its lock), "live", "zombie"
  trapframe,\* p->trapframe is a page
  pt, sz,   \* p->pagetable, p->sz
  newpt, newsz, \* pagetable and sz of a running exec()
  op,       \* the call that p is in, and where
  at, goal, \* a and newsz of its uvmalloc(), i of its uvmcopy()
  seg,      \* ph.vaddr of the segment that exec() loads
  kid,      \* np of its fork()
  args,     \* the pages of sys_exec()'s argv
  pipes,    \* pages that pipes use
  memPanic  \* the kernel stopped in panic()

memVars == <<nfree, pstate, trapframe, pt, sz, newpt, newsz, op, at, goal, seg, kid,
             args, pipes, memPanic>>

-----------------------------------------------------------------------------
(* Page tables: whether there is a root page, the page-table pages below it,  *)
(* the valid leaves, and those of them without PTE_U.                         *)

NoTable == [root |-> FALSE, dirs |-> {}, leaves |-> {}, guard |-> {}]
Root == [NoTable EXCEPT !.root = TRUE]

\* The page-table pages on the way to va; level 1 is walked before level 0.
DirsOf(va) == {[level |-> 1, index |-> va \div (FANOUT * FANOUT)],
               [level |-> 0, index |-> va \div FANOUT]}

\* mappages() of one page while n pages are free: walk() allocates what is missing
\* on the way, and what it allocated stays when it fails.
Mapped(table, va, n) ==
  LET missing == DirsOf(va) \ table.dirs
      ok == Cardinality(missing) <= n
      got == IF ok THEN missing ELSE {d \in missing : d.level >= 2 - n}
  IN [table |-> [table EXCEPT !.dirs = @ \cup got,
                              !.leaves = IF ok THEN @ \cup {va} ELSE @],
      took |-> Cardinality(got), ok |-> ok, remap |-> ok /\ va \in table.leaves]

\* kalloc() and mappages(), as in uvmalloc() and uvmcopy(): the page is freed
\* again when it cannot be mapped.
NewPage(table, va, n) ==
  IF n = 0 THEN [table |-> table, took |-> 0, ok |-> FALSE, remap |-> FALSE]
  ELSE LET m == Mapped(table, va, n - 1)
       IN [m EXCEPT !.took = IF m.ok THEN @ + 1 ELSE @]

\* proc_pagetable(): uvmcreate() and the two mappings; nothing stays when it fails.
ProcPagetable(n) ==
  LET tramp == Mapped(Root, TRAMPOLINE, n - 1)
      frame == Mapped(tramp.table, TRAPFRAME, n - 1 - tramp.took)
  IN IF n > 0 /\ tramp.ok /\ frame.ok
     THEN [table |-> frame.table, took |-> 1 + tramp.took + frame.took, ok |-> TRUE]
     ELSE [table |-> NoTable, took |-> 0, ok |-> FALSE]

\* uvmunmap() with do_free: pages freed, and whether it panics.
Unmapped(table, vas) == [table EXCEPT !.leaves = @ \ vas, !.guard = @ \ vas]
UnmapPanics(table, vas) == ~(vas \subseteq table.leaves)

\* proc_freepagetable(): the root, the page-table pages and the user's pages are
\* freed; the trampoline and the trapframe are only unmapped.
FreedPages(table, size) == 1 + Cardinality(table.dirs) + PageUp(size)
\* "uvmunmap: not mapped" if a page is missing, "freewalk: leaf" if one is left.
FreePanics(table, size) == table.leaves # Pages(size) \cup {TRAMPOLINE, TRAPFRAME}

-----------------------------------------------------------------------------
\* main() up to userinit(): one page for initcode, in the first process.
MemInit ==
  LET boot == ProcPagetable(NPAGES - 1)
      first == NewPage(boot.table, 0, NPAGES - 1 - boot.took)
  IN /\ nfree = NPAGES - 1 - boot.took - first.took
     /\ pstate = [p \in Procs |-> IF p = 1 THEN "live" ELSE "unused"]
     /\ trapframe = [p \in Procs |-> p = 1]
     /\ pt = [p \in Procs |-> IF p = 1 THEN first.table ELSE NoTable]
     /\ sz = [p \in Procs |-> IF p = 1 THEN PGSIZE ELSE 0]
     /\ newpt = [p \in Procs |-> NoTable] /\ newsz = [p \in Procs |-> 0]
     /\ op = [p \in Procs |-> "none"]
     /\ at = [p \in Procs |-> 0] /\ goal = [p \in Procs |-> 0]
     /\ seg = [p \in Procs |-> 0] /\ kid = [p \in Procs |-> p]
     /\ args = [p \in Procs |-> 0] /\ pipes = 0 /\ memPanic = FALSE

Idle(p) == pstate[p] = "live" /\ op[p] = "none"

\* The call returns, or goes on, having allocated took pages.
Goes(p, where) == op' = [op EXCEPT ![p] = where]
Allocated(n) == nfree' = nfree - n
Panics(bad) == memPanic' = bad
At(p, n) == at' = [at EXCEPT ![p] = n]
Goal(p, n) == goal' = [goal EXCEPT ![p] = n]

-----------------------------------------------------------------------------
(* sys_sbrk(): growproc() *)

\* uvmalloc() of n more bytes, a page at a time.
SbrkUp(p, n) ==
  /\ Idle(p) /\ n > 0 /\ sz[p] + n <= UserTop
  /\ Goes(p, "grow") /\ At(p, PageUp(sz[p])) /\ Goal(p, sz[p] + n)
  /\ UNCHANGED <<nfree, pstate, trapframe, pt, sz, newpt, newsz, seg, kid, args, pipes, memPanic>>

GrowPage(p) ==
  /\ op[p] = "grow" /\ at[p] * PGSIZE < goal[p]
  /\ LET new == NewPage(pt[p], at[p], nfree)
         mine == PageUp(sz[p])..(at[p] - 1)    \* what uvmdealloc() gives back
     IN /\ Panics(new.remap \/ (~new.ok /\ UnmapPanics(new.table, mine)))
        /\ IF new.ok THEN /\ pt' = [pt EXCEPT ![p] = new.table]
                          /\ Allocated(new.took) /\ At(p, at[p] + 1)
                          /\ UNCHANGED <<op, goal>>
                     ELSE /\ pt' = [pt EXCEPT ![p] = Unmapped(new.table, mine)]
                          /\ Allocated(new.took - Cardinality(mine))
                          /\ Goes(p, "none") /\ At(p, 0) /\ Goal(p, 0)
  /\ UNCHANGED <<pstate, trapframe, sz, newpt, newsz, seg, kid, args, pipes>>

GrowDone(p) ==
  /\ op[p] = "grow" /\ at[p] * PGSIZE >= goal[p]
  /\ sz' = [sz EXCEPT ![p] = goal[p]]
  /\ Goes(p, "none") /\ At(p, 0) /\ Goal(p, 0)
  /\ UNCHANGED <<nfree, pstate, trapframe, pt, newpt, newsz, seg, kid, args, pipes, memPanic>>

\* uvmdealloc(); a size below zero wraps around and nothing is freed.
SbrkDown(p, n) ==
  /\ Idle(p) /\ n > 0
  /\ LET to == (sz[p] + SizeWrap - n) % SizeWrap
         gone == Pages(sz[p]) \ Pages(to)
     IN /\ to < sz[p]
        /\ sz' = [sz EXCEPT ![p] = to]
        /\ pt' = [pt EXCEPT ![p] = Unmapped(@, gone)]
        /\ Allocated(-Cardinality(gone))
        /\ Panics(UnmapPanics(pt[p], gone))
  /\ UNCHANGED <<pstate, trapframe, newpt, newsz, op, at, goal, seg, kid, args, pipes>>

-----------------------------------------------------------------------------
(* fork() *)

\* allocproc(): a trapframe, then a page table; freeproc() if that fails.  The
\* scan waits for the lock of a process that is being made.
AllocProc(p) ==
  /\ Idle(p)
  /\ \E np \in Procs :
       /\ pstate[np] = "unused"
       /\ \A q \in 1..(np - 1) : pstate[q] \in {"live", "zombie"}
       /\ LET made == ProcPagetable(nfree - 1) IN
            /\ nfree > 0 /\ made.ok
            /\ Allocated(1 + made.took)
            /\ pt' = [pt EXCEPT ![np] = made.table]
       /\ trapframe' = [trapframe EXCEPT ![np] = TRUE]
       /\ pstate' = [pstate EXCEPT ![np] = "made"]
       /\ kid' = [kid EXCEPT ![p] = np]
  /\ Goes(p, "fork")
  /\ UNCHANGED <<sz, newpt, newsz, at, goal, seg, args, pipes, memPanic>>

\* freeproc(np), on the way out of fork() and in wait().
FreeProc(np, table, taken) ==
  /\ Allocated(taken - 1 - FreedPages(table, sz[np]))
  /\ Panics(FreePanics(table, sz[np]))
  /\ pt' = [pt EXCEPT ![np] = NoTable]
  /\ trapframe' = [trapframe EXCEPT ![np] = FALSE]
  /\ sz' = [sz EXCEPT ![np] = 0]
  /\ pstate' = [pstate EXCEPT ![np] = "unused"]

\* Mutant of ForkFails: the pages that were copied stay mapped.
ForkFailsKeeps(p, np, new) ==
  /\ FreeProc(np, new.table, new.took)
  /\ Goes(p, "none") /\ At(p, 0) /\ kid' = [kid EXCEPT ![p] = p]

\* uvmcopy() unmaps what it copied, and fork() frees the process.
ForkFails(p, np, new) ==
  /\ FreeProc(np, Unmapped(new.table, 0..(at[p] - 1)), new.took - at[p])
  /\ Goes(p, "none") /\ At(p, 0) /\ kid' = [kid EXCEPT ![p] = p]

\* uvmcopy() of the next page.
ForkPage(p) ==
  /\ op[p] = "fork" /\ at[p] * PGSIZE < sz[p]
  /\ LET np == kid[p]
         new == NewPage(pt[np], at[p], nfree)
     IN IF ~new.ok THEN ForkFails(p, np, new)
        ELSE /\ pt' = [pt EXCEPT ![np] =
                         IF at[p] \in pt[p].guard
                         THEN [new.table EXCEPT !.guard = @ \cup {at[p]}] ELSE new.table]
             /\ Allocated(new.took) /\ At(p, at[p] + 1)
             /\ Panics(new.remap \/ at[p] \notin pt[p].leaves)
             /\ UNCHANGED <<pstate, trapframe, sz, op, kid>>
  /\ UNCHANGED <<newpt, newsz, goal, seg, args, pipes>>

ForkDone(p) ==
  /\ op[p] = "fork" /\ at[p] * PGSIZE >= sz[p]
  /\ sz' = [sz EXCEPT ![kid[p]] = sz[p]]
  /\ pstate' = [pstate EXCEPT ![kid[p]] = "live"]
  /\ kid' = [kid EXCEPT ![p] = p]
  /\ Goes(p, "none") /\ At(p, 0)
  /\ UNCHANGED <<nfree, trapframe, pt, newpt, newsz, goal, seg, args, pipes, memPanic>>

\* exit(): memory stays until the parent, or init, calls wait().
Exit(p) ==
  /\ Idle(p) /\ p # 1
  /\ pstate' = [pstate EXCEPT ![p] = "zombie"]
  /\ UNCHANGED <<nfree, trapframe, pt, sz, newpt, newsz, op, at, goal, seg, kid, args, pipes, memPanic>>

Reap(z) ==
  /\ pstate[z] = "zombie" /\ \E p \in Procs : Idle(p)
  /\ FreeProc(z, pt[z], 0)
  /\ UNCHANGED <<newpt, newsz, op, at, goal, seg, kid, args, pipes>>

-----------------------------------------------------------------------------
(* sys_exec() and exec() *)

ExecUnchanged == UNCHANGED <<pstate, trapframe, kid, pipes>>

ExecStart(p) ==
  /\ Idle(p) /\ Goes(p, "args")
  /\ UNCHANGED <<nfree, pt, sz, newpt, newsz, at, goal, seg, args, memPanic>> /\ ExecUnchanged

\* The loop of sys_exec(): a page for each argument.
ExecArg(p) ==
  /\ op[p] = "args" /\ args[p] < MaxArgs /\ nfree > 0
  /\ Allocated(1) /\ args' = [args EXCEPT ![p] = @ + 1]
  /\ UNCHANGED <<pt, sz, newpt, newsz, op, at, goal, seg, memPanic>> /\ ExecUnchanged

\* The call returns; the pages of argv and the given ones are freed.
ExecReturns(p, freed) ==
  /\ nfree' = nfree + freed + args[p]
  /\ args' = [args EXCEPT ![p] = 0]
  /\ newpt' = [newpt EXCEPT ![p] = NoTable] /\ newsz' = [newsz EXCEPT ![p] = 0]
  /\ Goes(p, "none") /\ At(p, 0) /\ Goal(p, 0) /\ seg' = [seg EXCEPT ![p] = 0]

\* "bad": the new page table is freed; size is sz of exec(), and took pages of the
\* table are not counted yet.
ExecBad(p, table, size, took) ==
  /\ ExecReturns(p, FreedPages(table, size) - took)
  /\ Panics(FreePanics(table, size))
  /\ UNCHANGED <<pt, sz>>

\* An argument, the file or its header is bad, or no page is left for it.
ExecFails(p) ==
  /\ op[p] = "args"
  /\ ExecReturns(p, 0)
  /\ UNCHANGED <<pt, sz, memPanic>> /\ ExecUnchanged

ExecTable(p) ==
  /\ op[p] = "args"
  /\ LET made == ProcPagetable(nfree) IN
       /\ made.ok /\ Allocated(made.took)
       /\ newpt' = [newpt EXCEPT ![p] = made.table]
  /\ Goes(p, "load")
  /\ UNCHANGED <<pt, sz, newsz, at, goal, seg, args, memPanic>> /\ ExecUnchanged

\* A program header: uvmalloc() up to the end of the segment.
Segment(p) ==
  /\ op[p] = "load"
  /\ \E end \in 0..UserTop : \E vaddr \in 0..end :
       Goal(p, end) /\ seg' = [seg EXCEPT ![p] = vaddr]
  /\ Goes(p, "seg") /\ At(p, PageUp(newsz[p]))
  /\ UNCHANGED <<nfree, pt, sz, newpt, newsz, args, memPanic>> /\ ExecUnchanged

ExecPage(p) ==
  /\ op[p] \in {"seg", "stack"} /\ at[p] * PGSIZE < goal[p]
  /\ LET new == NewPage(newpt[p], at[p], nfree)
         mine == PageUp(newsz[p])..(at[p] - 1)
     IN IF new.ok
        THEN /\ newpt' = [newpt EXCEPT ![p] = new.table]
             /\ Allocated(new.took) /\ At(p, at[p] + 1) /\ Panics(new.remap)
             /\ UNCHANGED <<pt, sz, newsz, op, goal, seg, args>>
        ELSE ExecBad(p, Unmapped(new.table, mine), newsz[p], new.took - Cardinality(mine))
  /\ ExecUnchanged

\* uvmalloc() returned: 0 is an error, a size that did not grow is not.  Then the
\* alignment is checked, and loadseg() reads the segment.
SegmentDone(p) ==
  /\ op[p] = "seg" /\ at[p] * PGSIZE >= goal[p]
  /\ LET size == IF goal[p] < newsz[p] THEN newsz[p] ELSE goal[p] IN
       \/ ExecBad(p, newpt[p], size, 0)
       \/ /\ size > 0 /\ seg[p] % PGSIZE = 0
          /\ newsz' = [newsz EXCEPT ![p] = size]
          /\ Panics(~(Pages(goal[p]) \ Pages(seg[p]) \subseteq newpt[p].leaves))
          /\ Goes(p, "load") /\ At(p, 0) /\ Goal(p, 0) /\ seg' = [seg EXCEPT ![p] = 0]
          /\ UNCHANGED <<nfree, pt, sz, newpt, args>>
  /\ ExecUnchanged

\* No more segments: two pages at the next page boundary.
StackStart(p) ==
  /\ op[p] = "load"
  /\ LET base == PageUp(newsz[p]) * PGSIZE IN
       /\ newsz' = [newsz EXCEPT ![p] = base]
       /\ At(p, PageUp(base)) /\ Goal(p, base + 2 * PGSIZE)
  /\ Goes(p, "stack")
  /\ UNCHANGED <<nfree, pt, sz, newpt, seg, args, memPanic>> /\ ExecUnchanged

\* The arguments do not fit on the stack.
ExecTooLong(p) ==
  /\ op[p] = "stack" /\ at[p] * PGSIZE >= goal[p]
  /\ ExecBad(p, newpt[p], goal[p], 0)
  /\ ExecUnchanged

\* uvmclear() of the guard page; the new image replaces the old one.
Commit(p) ==
  /\ op[p] = "stack" /\ at[p] * PGSIZE >= goal[p]
  /\ pt' = [pt EXCEPT ![p] = [newpt[p] EXCEPT !.guard = {PageUp(newsz[p])}]]
  /\ sz' = [sz EXCEPT ![p] = goal[p]]
  /\ ExecReturns(p, FreedPages(pt[p], sz[p]))
  /\ Panics(FreePanics(pt[p], sz[p]))
  /\ ExecUnchanged

-----------------------------------------------------------------------------
\* The page of a pipe: pipealloc(), pipeclose() of its second end.
PipeAlloc ==
  /\ nfree > 0 /\ pipes < MaxPipes
  /\ Allocated(1) /\ pipes' = pipes + 1
  /\ UNCHANGED <<pstate, trapframe, pt, sz, newpt, newsz, op, at, goal, seg, kid, args, memPanic>>

PipeFree ==
  /\ pipes > 0
  /\ Allocated(-1) /\ pipes' = pipes - 1
  /\ UNCHANGED <<pstate, trapframe, pt, sz, newpt, newsz, op, at, goal, seg, kid, args, memPanic>>

MemNext ==
  /\ ~memPanic
  /\ \/ \E p \in Procs, n \in 1..UserTop : SbrkUp(p, n) \/ SbrkDown(p, n)
     \/ \E p \in Procs :
          \/ GrowPage(p) \/ GrowDone(p)
          \/ AllocProc(p) \/ ForkPage(p) \/ ForkDone(p) \/ Exit(p) \/ Reap(p)
          \/ ExecStart(p) \/ ExecArg(p) \/ ExecFails(p) \/ ExecTable(p) \/ Segment(p)
          \/ ExecPage(p) \/ SegmentDone(p) \/ StackStart(p) \/ ExecTooLong(p) \/ Commit(p)
     \/ PipeAlloc \/ PipeFree

MemSpec == MemInit /\ [][MemNext]_memVars

-----------------------------------------------------------------------------
Dirs == [level : {0, 1}, index : VIRTUALS]
Tables == [root : BOOLEAN, dirs : SUBSET Dirs, leaves : SUBSET VIRTUALS, guard : SUBSET VIRTUALS]

MemTypeOK ==
  /\ nfree \in 0..NPAGES /\ pipes \in 0..MaxPipes /\ memPanic \in BOOLEAN
  /\ pstate \in [Procs -> {"unused", "made", "live", "zombie"}]
  /\ trapframe \in [Procs -> BOOLEAN]
  /\ pt \in [Procs -> Tables] /\ newpt \in [Procs -> Tables]
  /\ \A p \in Procs : pt[p].guard \subseteq pt[p].leaves /\ newpt[p].guard \subseteq newpt[p].leaves
  /\ {sz, newsz, at, goal, seg} \subseteq [Procs -> 0..(SizeWrap - 1)]
  /\ op \in [Procs -> {"none", "grow", "fork", "args", "load", "seg", "stack"}]
  /\ kid \in [Procs -> Procs]
  /\ args \in [Procs -> 0..MaxArgs]

\* The number of places in f, which gives each process a set of its own.
Places(f) == Cardinality(UNION {{p} \X f[p] : p \in Procs})

\* The pages that tables take: their own, and the user's.
Held(tables) ==
  Cardinality({p \in Procs : tables[p].root}) + Places([p \in Procs |-> tables[p].dirs])
    + Places([p \in Procs |-> tables[p].leaves \ {TRAMPOLINE, TRAPFRAME}])

\* No page leaks and none is freed twice, whichever allocation of a call fails.
PagesConserved ==
  nfree + pipes + Held(pt) + Held(newpt) + Places([p \in Procs |-> 1..args[p]])
    + Cardinality({p \in Procs : trapframe[p]}) = NPAGES

\* A process between calls has exactly the pages below its size, with no hole that
\* would make exit() or fork() panic.
SpacesWhole ==
  \A p \in Procs : pstate[p] \in {"live", "zombie"} /\ op[p] # "grow" =>
    pt[p].leaves = Pages(sz[p]) \cup {TRAMPOLINE, TRAPFRAME}

\* Memory is conserved, and no call makes vm.c panic.
MemorySound == MemTypeOK /\ PagesConserved /\ SpacesWhole /\ ~memPanic
=============================================================================
