-------------------------------- MODULE Heap --------------------------------
(***************************************************************************)
(* The boundary-tag allocator of the course code                             *)
(* (os_course_code/code/vm/malloc/mm.c) over memlib.c: an implicit list of    *)
(* blocks, first fit, split on malloc, coalesced on free.                     *)
(*                                                                           *)
(* Memory is counted in words: WSIZE is 1, DSIZE is 2, addresses are indices.  *)
(***************************************************************************)
EXTENDS Integers, FiniteSets

CONSTANTS MAX_HEAP, CHUNKSIZE,  \* words
          MaxRequest            \* bound on the size of a request

DSIZE == 2
ASSUME HeapAssumption ==
  /\ {MAX_HEAP, CHUNKSIZE, MaxRequest} \subseteq Nat
  /\ CHUNKSIZE % DSIZE = 0 /\ CHUNKSIZE >= 2 * DSIZE /\ MAX_HEAP >= 4

VARIABLES
  words,      \* mem_heap up to mem_brk; an allocated payload belongs to the program
  heap_listp,
  owned       \* the program: what malloc gave it, with the size it asked for

heapVars == <<words, heap_listp, owned>>

-----------------------------------------------------------------------------
(* The macros.  A heap is h, a function from the addresses below mem_brk.      *)

NULL == -1
Brk(h) == Cardinality(DOMAIN h)
PACK(size, alloc) == size + alloc
SizeOf(tag) == tag - (tag % DSIZE)         \* GET_SIZE
IsFree(tag) == tag % DSIZE = 0             \* ~GET_ALLOC
HDRP(bp) == bp - 1
FTRP(h, bp) == bp + SizeOf(h[HDRP(bp)]) - DSIZE
NEXT_BLKP(h, bp) == bp + SizeOf(h[HDRP(bp)])
PREV_BLKP(h, bp) == bp - SizeOf(h[bp - DSIZE])

\* PUT of the same tag into the header of bp and, at the size it then has, its footer.
PutTags(h, bp, size, alloc) ==
  [h EXCEPT ![HDRP(bp)] = PACK(size, alloc), ![bp + size - DSIZE] = PACK(size, alloc)]

\* mem_sbrk(): the new words, or no heap.
CanGrow(h, n) == Brk(h) + n <= MAX_HEAP
Grown(h, n) == [k \in 0..(Brk(h) + n - 1) |-> IF k < Brk(h) THEN h[k] ELSE 0]

\* Mutant of CoalesceNext: the footer is found before the header has the new size.
CoalesceNextEarly(h, bp) ==
  LET size == SizeOf(h[HDRP(bp)]) + SizeOf(h[HDRP(NEXT_BLKP(h, bp))])
  IN [h EXCEPT ![FTRP(h, bp)] = PACK(size, 0), ![HDRP(bp)] = PACK(size, 0)]

\* Case 2 of coalesce(): the next block is free.
CoalesceNext(h, bp) ==
  PutTags(h, bp, SizeOf(h[HDRP(bp)]) + SizeOf(h[HDRP(NEXT_BLKP(h, bp))]), 0)

\* coalesce(): the heap and the block.
Coalesce(h, bp) ==
  LET prev == PREV_BLKP(h, bp)
      next == NEXT_BLKP(h, bp)
      prevAlloc == ~IsFree(h[FTRP(h, prev)])
      nextAlloc == ~IsFree(h[HDRP(next)])
      size == SizeOf(h[HDRP(bp)])
  IN CASE prevAlloc /\ nextAlloc -> [heap |-> h, bp |-> bp]
       [] prevAlloc /\ ~nextAlloc -> [heap |-> CoalesceNext(h, bp), bp |-> bp]
       [] ~prevAlloc /\ nextAlloc ->
            [heap |-> PutTags(h, prev, size + SizeOf(h[HDRP(prev)]), 0), bp |-> prev]
       [] OTHER ->
            [heap |-> PutTags(h, prev, size + SizeOf(h[HDRP(prev)]) + SizeOf(h[FTRP(h, next)]), 0),
             bp |-> prev]

\* extend_heap(), when mem_sbrk() succeeds: a free block over the old epilogue, a
\* new epilogue.
Extended(h, n) ==
  LET size == IF n % 2 = 1 THEN n + 1 ELSE n
      bp == Brk(h)
      h1 == PutTags(Grown(h, size), bp, size, 0)
  IN Coalesce([h1 EXCEPT ![HDRP(NEXT_BLKP(h1, bp))] = PACK(0, 1)], bp)

\* place(): split if the rest is a block.
Place(h, bp, asize) ==
  LET csize == SizeOf(h[HDRP(bp)]) IN
  IF csize - asize >= 2 * DSIZE
  THEN PutTags(PutTags(h, bp, asize, 1), bp + asize, csize - asize, 0)
  ELSE PutTags(h, bp, csize, 1)

\* find_fit(): the first free block that is large enough.
FindFit(h, start, asize) ==
  LET search[bp \in 0..Brk(h)] ==
        IF SizeOf(h[HDRP(bp)]) = 0 THEN NULL
        ELSE IF IsFree(h[HDRP(bp)]) /\ asize <= SizeOf(h[HDRP(bp)]) THEN bp
        ELSE search[NEXT_BLKP(h, bp)]
  IN search[start]

\* mm_init(): padding, prologue, epilogue, one chunk.  What it returns is ignored by
\* mm_malloc(): without room for the chunk the heap is there and empty.
InitHeap ==
  LET h == [k \in 0..3 |-> <<0, PACK(DSIZE, 1), PACK(DSIZE, 1), PACK(0, 1)>>[k + 1]]
  IN IF CanGrow(h, CHUNKSIZE) THEN Extended(h, CHUNKSIZE).heap ELSE h
ListStart == 2

\* The payload is the program's: it may write anything there.
Scribbled(h, bp) == [k \in DOMAIN h |-> IF k \in bp..(FTRP(h, bp) - 1) THEN 0 ELSE h[k]]

\* mm_malloc() of n words, n > 0, in an initialized heap: the heap and the block.
Malloced(h, n) ==
  LET asize == IF n <= DSIZE THEN 2 * DSIZE ELSE DSIZE * ((n + DSIZE + (DSIZE - 1)) \div DSIZE)
      fit == FindFit(h, ListStart, asize)
      extend == IF asize > CHUNKSIZE THEN asize ELSE CHUNKSIZE
      more == Extended(h, extend)
  IN IF fit # NULL THEN [heap |-> Scribbled(Place(h, fit, asize), fit), bp |-> fit]
     ELSE IF CanGrow(h, extend)
     THEN [heap |-> Scribbled(Place(more.heap, more.bp, asize), more.bp), bp |-> more.bp]
     ELSE [heap |-> h, bp |-> NULL]

\* mm_free()
Freed1(h, bp) == Coalesce(PutTags(h, bp, SizeOf(h[HDRP(bp)]), 0), bp).heap

-----------------------------------------------------------------------------
HeapInit == words = [k \in {} |-> 0] /\ heap_listp = NULL /\ owned = {}

Start == IF heap_listp = NULL THEN InitHeap ELSE words

Malloc(n) ==
  LET m == Malloced(Start, n) IN
  /\ words' = m.heap
  /\ heap_listp' = ListStart
  /\ owned' = IF m.bp = NULL THEN owned ELSE owned \cup {[at |-> m.bp, size |-> n]}

\* free(), or realloc() to nothing, of what the program has.
Free(block) ==
  /\ words' = Freed1(words, block.at)
  /\ owned' = owned \ {block}
  /\ UNCHANGED heap_listp

\* mm_realloc(): a new block, then the old one is freed; without room nothing changes.
Realloc(block, n) ==
  LET m == Malloced(words, n) IN
  /\ m.bp # NULL
  /\ words' = Freed1(m.heap, block.at)
  /\ owned' = (owned \ {block}) \cup {[at |-> m.bp, size |-> n]}
  /\ UNCHANGED heap_listp

HeapNext == \/ \E n \in 1..MaxRequest : Malloc(n)
            \/ \E block \in owned : Free(block) \/ \E n \in 1..MaxRequest : Realloc(block, n)

HeapSpec == HeapInit /\ [][HeapNext]_heapVars

-----------------------------------------------------------------------------
HeapTypeOK ==
  /\ DOMAIN words = 0..(Brk(words) - 1) /\ Brk(words) <= MAX_HEAP
  /\ \A k \in DOMAIN words : words[k] \in Nat
  /\ heap_listp \in {NULL, ListStart}
  /\ owned \subseteq [at : 0..MAX_HEAP, size : 1..MaxRequest]

\* The blocks after the prologue, as the sizes in the headers lead from one to the
\* next; an address that is none ends the walk.
BlocksOf(h) ==
  LET from[bp \in 0..MAX_HEAP] ==
        IF HDRP(bp) \notin DOMAIN h \/ SizeOf(h[HDRP(bp)]) <= 0 THEN {bp}
        ELSE {bp} \cup from[IF NEXT_BLKP(h, bp) <= MAX_HEAP THEN NEXT_BLKP(h, bp) ELSE 0]
  IN from[ListStart + DSIZE]

\* The blocks tile the heap up to the epilogue, each with equal tags at both ends
\* and aligned; no two free ones are neighbours; the allocated ones are those the
\* program has, as large as it asked for.
HeapSound ==
  heap_listp # NULL =>
    LET end == Brk(words)
        blocks == BlocksOf(words) \ {end}
    IN /\ end \in BlocksOf(words) /\ words[HDRP(end)] = PACK(0, 1)
       /\ words[1] = PACK(DSIZE, 1) /\ words[2] = PACK(DSIZE, 1)
       /\ \A bp \in blocks :
            /\ words[FTRP(words, bp)] = words[HDRP(bp)]
            /\ bp % DSIZE = 0 /\ SizeOf(words[HDRP(bp)]) >= 2 * DSIZE
            /\ IsFree(words[HDRP(bp)]) =>
                 LET next == NEXT_BLKP(words, bp) IN next = end \/ ~IsFree(words[HDRP(next)])
       /\ {bp \in blocks : ~IsFree(words[HDRP(bp)])} = {block.at : block \in owned}
       /\ \A block \in owned : block.size + DSIZE <= SizeOf(words[HDRP(block.at)])
       /\ \A b1, b2 \in owned : b1.at = b2.at => b1 = b2
=============================================================================
