----------------------------- MODULE UserMalloc -----------------------------
(***************************************************************************)
(* malloc() and free() of xv6's user library (xv6-labs/user/umalloc.c): a     *)
(* circular list of free blocks in order of address, a rover freep, blocks    *)
(* merged with both neighbours when they are freed.                           *)
(*                                                                           *)
(* Addresses and sizes count units of sizeof(Header).  What a header says      *)
(* once nothing points to it is forgotten.                                   *)
(***************************************************************************)
EXTENDS Integers, FiniteSets

CONSTANTS Break0, BreakMax, \* where the heap starts, and where sbrk() fails
          CORE,             \* stands for the 4096 units that morecore() asks for
          MaxUnits          \* bound on a request

ASSUME UserMallocAssumption ==
  {Break0, BreakMax, CORE, MaxUnits} \subseteq Nat \ {0} /\ Break0 > 1 /\ BreakMax >= Break0

base == 0           \* the static header, below the heap
Addresses == {base} \cup Break0..(BreakMax - 1)
NIL == -1

VARIABLES
  arena,   \* header |-> [ptr, size]: arena.free the list, arena.freep the rover
  break,   \* the end of the process's memory
  mine,    \* the program: addresses of headers below its blocks, and their units
  foreign  \* the units that the program took with sbrk() itself

umVars == <<arena, break, mine, foreign>>

UMInit == /\ arena = [ptr |-> [a \in Addresses |-> NIL], size |-> [a \in Addresses |-> 0], freep |-> NIL]
          /\ break = Break0 /\ mine = {} /\ foreign = {}

-----------------------------------------------------------------------------
\* The block of the list after which free() puts bp: the loop from freep.
PlaceFor(h, bp) ==
  LET loop[p \in Addresses] ==
        IF \/ bp > p /\ bp < h.ptr[p]
           \/ p >= h.ptr[p] /\ (bp > p \/ bp < h.ptr[p])
        THEN p ELSE loop[h.ptr[p]]
  IN loop[h.freep]

\* Mutant of MergeUp: the free block that follows is not taken in.
MergeUpNever(h, p, bp) == [h EXCEPT !.ptr[bp] = h.ptr[p]]

\* bp takes in the block after it, if that is free, and gets its place in the list.
MergeUp(h, p, bp) ==
  LET next == h.ptr[p] IN
  IF bp + h.size[bp] = next
  THEN [h EXCEPT !.size = [@ EXCEPT ![bp] = @ + h.size[next], ![next] = 0],
                 !.ptr = [@ EXCEPT ![bp] = h.ptr[next], ![next] = NIL]]
  ELSE [h EXCEPT !.ptr[bp] = next]

\* p takes in bp, if it follows, or links to it.
MergeDown(h, p, bp) ==
  IF p + h.size[p] = bp
  THEN [h EXCEPT !.size = [@ EXCEPT ![p] = @ + h.size[bp], ![bp] = 0],
                 !.ptr = [@ EXCEPT ![p] = h.ptr[bp], ![bp] = NIL]]
  ELSE [h EXCEPT !.ptr[p] = bp]

\* free() of the block with header bp.
Released(h, bp) ==
  LET p == PlaceFor(h, bp)
  IN [MergeDown(MergeUp(h, p, bp), p, bp) EXCEPT !.freep = p]

\* The loop of malloc() from prevp round to freep: the block before the first that
\* is large enough.
FirstFit(h, nunits) ==
  LET loop[prevp \in Addresses] ==
        LET p == h.ptr[prevp] IN
        IF h.size[p] >= nunits THEN prevp
        ELSE IF p = h.freep THEN NIL ELSE loop[p]
  IN loop[h.freep]

\* The block is unlinked, or its upper part is given out.
Taken(h, prevp, nunits) ==
  LET p == h.ptr[prevp]
      rest == h.size[p] - nunits
  IN IF rest = 0
     THEN [heap |-> [h EXCEPT !.ptr = [@ EXCEPT ![prevp] = h.ptr[p], ![p] = NIL],
                              !.freep = prevp],
           block |-> p]
     ELSE [heap |-> [h EXCEPT !.size = [@ EXCEPT ![p] = rest, ![p + rest] = nunits],
                              !.freep = prevp],
           block |-> p + rest]

\* The first call makes the list of the base alone.
Listed(h) == IF h.freep # NIL THEN h ELSE [h EXCEPT !.freep = base, !.ptr[base] = base]

UMalloc(nunits) ==
  LET h == Listed(arena)
      fit == FirstFit(h, nunits)
      nu == IF nunits < CORE THEN CORE ELSE nunits         \* morecore()
      more == Released([h EXCEPT !.size[break] = nu], break)
      got == IF fit # NIL THEN Taken(h, fit, nunits) ELSE Taken(more, FirstFit(more, nunits), nunits)
  IN IF fit = NIL /\ break + nu > BreakMax
     THEN arena' = h /\ UNCHANGED <<break, mine, foreign>>
     ELSE /\ arena' = got.heap
          /\ mine' = mine \cup {[at |-> got.block, units |-> nunits]}
          /\ break' = IF fit # NIL THEN break ELSE break + nu
          /\ UNCHANGED foreign

UFree(block) == /\ arena' = Released(arena, block.at)
                /\ mine' = mine \ {block}
                /\ UNCHANGED <<break, foreign>>

\* The program calls sbrk() itself: the heap has a gap.
Sbrk == /\ break < BreakMax
        /\ break' = break + 1 /\ foreign' = foreign \cup {break}
        /\ UNCHANGED <<arena, mine>>

UMNext == \/ \E n \in 1..MaxUnits : UMalloc(n)
          \/ \E block \in mine : UFree(block)
          \/ Sbrk

UMSpec == UMInit /\ [][UMNext]_umVars

-----------------------------------------------------------------------------
\* The free blocks, as the list leads from the base round to the base.
FreeList == {a \in Addresses \ {base} : arena.ptr[a] # NIL}
Units(a, n) == a..(a + n - 1)

\* The list goes round once in order of address, and reaches every free block; free
\* blocks, the program's blocks and its own memory tile the heap; no two free
\* blocks touch.
UserHeapSound ==
  /\ foreign \subseteq Addresses /\ break \in Break0..BreakMax
  /\ arena.freep # NIL =>
       /\ \A a \in FreeList \cup {base} :
            LET above == {b \in FreeList : b > a} IN
            arena.ptr[a] = IF above = {} THEN base ELSE CHOOSE b \in above : \A c \in above : b <= c
       /\ arena.freep \in FreeList \cup {base}
       /\ \A a, b \in FreeList : a + arena.size[a] # b
       /\ \A block \in mine : arena.size[block.at] = block.units
  /\ LET taken == {Units(a, arena.size[a]) : a \in FreeList}
                    \cup {Units(block.at, block.units) : block \in mine} \cup {{u} : u \in foreign}
     IN /\ UNION taken = Break0..(break - 1)
        /\ \A s1, s2 \in taken : s1 = s2 \/ s1 \cap s2 = {}
  /\ \A b1, b2 \in mine : b1.at = b2.at => b1 = b2
=============================================================================
