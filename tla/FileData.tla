------------------------------ MODULE FileData ------------------------------
(***************************************************************************)
(* The content of a file (xv6-labs/kernel/fs.c: balloc, bfree, bmap, itrunc,  *)
(* readi, writei) under the reads and writes of open files (file.c).         *)
(*                                                                           *)
(* A process holds the inode's lock from ilock() to iunlock(), so one chunk   *)
(* of a write, or a read, is one step.                                        *)
(***************************************************************************)
EXTENDS Integers, FiniteSets, Sequences

CONSTANTS Writers,              \* processes that share one open file
          NDIRECT, NINDIRECT, BSIZE, BPB, \* fs.h; blocks per bitmap block
          MAXOPBLOCKS,          \* blocks an operation may log (param.h)
          FSBLOCKS,             \* data blocks of the disk
          Lengths, MaxWrites    \* bounds: how much a call reads or writes; writes

MAXFILE == NDIRECT + NINDIRECT
DataBlocks == 1..FSBLOCKS

ASSUME FileDataAssumption ==
  /\ {NDIRECT, NINDIRECT, BSIZE, BPB, FSBLOCKS} \subseteq Nat \ {0}
  /\ MAXOPBLOCKS \in Nat /\ MAXOPBLOCKS >= 6 /\ MaxWrites \in Nat /\ Lengths \subseteq Nat \ {0}
  /\ 0 \notin Writers
  /\ FSBLOCKS <= (MAXOPBLOCKS - 1) * BPB   \* itrunc() may log the whole bitmap

VARIABLES
  inode,   \* size, addrs, and what the indirect block holds
  bitmap,  \* the blocks in use
  others,  \* those of them that belong to other files
  cached, logged, \* a block's bytes: as the buffer cache shows them, as the log has them
  off,     \* f->off
  toWrite,    \* what a process has still to write
  writes,  \* bound: how many writes there were
  opBlocks \* history: how many blocks the last step logged

fileVars == <<inode, bitmap, others, cached, logged, off, toWrite, writes, opBlocks>>

-----------------------------------------------------------------------------
Zeroes == [k \in 0..(BSIZE - 1) |-> 0]
NoBlocks == [size |-> 0, addrs |-> [n \in 0..NDIRECT |-> 0], ind |-> [n \in 0..(NINDIRECT - 1) |-> 0]]

\* Where the nth block of a file is; 0: nowhere.
BlockAt(ip, bn) == IF bn < NDIRECT THEN ip.addrs[bn] ELSE ip.ind[bn - NDIRECT]

FileInit ==
  /\ inode = NoBlocks /\ bitmap = {} /\ others = {}
  /\ cached = [b \in DataBlocks |-> Zeroes] /\ logged = cached
  /\ off = 0 /\ toWrite = [p \in Writers |-> 0]
  /\ writes = 0 /\ opBlocks = 0

\* The state that an operation on the inode works on, op.log the blocks it logs.
Op == [ip |-> inode, used |-> bitmap, cached |-> cached, logged |-> logged, log |-> {}]

FreeBlock(used) == CHOOSE b \in DataBlocks \ used : \A c \in DataBlocks \ used : b <= c
BBLOCK(b) == <<"bitmap", (b - 1) \div BPB>>

\* balloc(): the first free block, zeroed.
balloc(op) ==
  LET b == FreeBlock(op.used) IN
  [op EXCEPT !.used = @ \cup {b}, !.cached[b] = Zeroes, !.logged[b] = Zeroes,
             !.log = @ \cup {BBLOCK(b), <<"data", b>>}]

\* bmap(): the block number bn of the file, allocated if there is none, after the
\* indirect block it hangs on.
bmapIndirect(op, bn) ==
  IF bn >= NDIRECT /\ op.ip.addrs[NDIRECT] = 0
  THEN [balloc(op) EXCEPT !.ip.addrs[NDIRECT] = FreeBlock(op.used)] ELSE op

bmapBlock(op, bn) ==
  IF BlockAt(op.ip, bn) # 0 THEN op
  ELSE IF bn < NDIRECT THEN [balloc(op) EXCEPT !.ip.addrs[bn] = FreeBlock(op.used)]
  ELSE [balloc(op) EXCEPT !.ip.ind[bn - NDIRECT] = FreeBlock(op.used),
                          !.log = @ \cup {<<"data", op.ip.addrs[NDIRECT]>>}]

bmap(op, bn) == bmapBlock(bmapIndirect(op, bn), bn)

\* Blocks that bmap() is going to take; balloc() panics when there are not as many.
Needed(ip, bns) ==
  Cardinality({bn \in bns : BlockAt(ip, bn) = 0})
    + (IF ip.addrs[NDIRECT] = 0 /\ \E bn \in bns : bn >= NDIRECT THEN 1 ELSE 0)
HasRoom(bns) == Needed(inode, bns) <= Cardinality(DataBlocks \ bitmap)

BlockNumbers(from, n) == {k \div BSIZE : k \in from..(from + n - 1)}

\* either_copyin() of the bytes from..to-1 that are in block bn.
Copyin(op, bn, from, to, byte) ==
  LET b == BlockAt(op.ip, bn) IN
  [op EXCEPT !.cached[b] = [k \in DOMAIN @ |-> IF bn * BSIZE + k \in from..(to - 1) THEN byte ELSE @[k]]]

log_write(op, bn) ==
  LET b == BlockAt(op.ip, bn) IN
  [op EXCEPT !.logged[b] = op.cached[b], !.log = @ \cup {<<"data", b>>}]

\* One round of the loop of writei(), and the loop.
WriteBlock(op, bn, from, to, byte) ==
  log_write(Copyin(bmap(op, bn), bn, from, to, byte), bn)

WriteBlocks(op, from, n, byte) ==
  LET after[k \in Nat] ==
        IF k = 0 THEN op
        ELSE WriteBlock(after[k - 1], from \div BSIZE + k - 1, from, from + n, byte)
  IN after[Cardinality(BlockNumbers(from, n))]

\* Mutant of Sized: the size is set whether the file grew or not.
SizedAlways(op, end) == [op EXCEPT !.ip.size = end, !.log = @ \cup {<<"inode">>}]

\* The end of writei(): the size, and iupdate().
Sized(op, end) ==
  [op EXCEPT !.ip.size = IF end > @ THEN end ELSE @, !.log = @ \cup {<<"inode">>}]

\* writei() refuses to leave a hole or to write beyond the largest file.
Allowed(from, n) == from <= inode.size /\ from + n <= MAXFILE * BSIZE

CommitOp(op) ==
  /\ inode' = op.ip /\ bitmap' = op.used
  /\ cached' = op.cached /\ logged' = op.logged
  /\ opBlocks' = Cardinality(op.log)

-----------------------------------------------------------------------------
\* Mutant of Chunk: the slop for a write that is not aligned is forgotten.
ChunkTooLarge == ((MAXOPBLOCKS - 1 - 1) \div 2) * BSIZE

\* filewrite(): what one transaction writes at most.
Chunk == ((MAXOPBLOCKS - 1 - 1 - 2) \div 2) * BSIZE
ChunkOf(p) == IF toWrite[p] > Chunk THEN Chunk ELSE toWrite[p]

WriteCall(p) ==
  /\ toWrite[p] = 0 /\ writes < MaxWrites
  /\ writes' = writes + 1
  /\ \E n \in Lengths : toWrite' = [toWrite EXCEPT ![p] = n]
  /\ UNCHANGED <<inode, bitmap, others, cached, logged, off>> /\ opBlocks' = 0

\* One round of the loop of filewrite(); the byte names its writer.
WriteChunk(p) ==
  LET n == ChunkOf(p) IN
  /\ toWrite[p] > 0
  /\ Allowed(off, n) /\ HasRoom(BlockNumbers(off, n))
  /\ CommitOp(Sized(WriteBlocks(Op, off, n, p), off + n))
  /\ off' = off + n
  /\ toWrite' = [toWrite EXCEPT ![p] = @ - n]
  /\ UNCHANGED <<others, writes>>

\* copyin() fails in one of the blocks, after some of its bytes: the loop ends with
\* that block mapped and not logged.  writei() returns n.
WriteBadAddress(p) ==
  LET n == ChunkOf(p) IN
  /\ toWrite[p] > 0 /\ Allowed(off, n)
  /\ \E bn \in BlockNumbers(off, n), part \in 0..(BSIZE - 1) :
       LET begin == IF bn * BSIZE > off THEN bn * BSIZE ELSE off
           end == begin + part
       IN /\ HasRoom(BlockNumbers(off, begin - off) \cup {bn})
          /\ end < off + n /\ end < (bn + 1) * BSIZE
          /\ CommitOp(Sized(Copyin(bmap(WriteBlocks(Op, off, begin - off, p), bn),
                                 bn, begin, end, p), begin))
  /\ off' = off + n
  /\ toWrite' = [toWrite EXCEPT ![p] = @ - n]
  /\ UNCHANGED <<others, writes>>

\* writei() returns -1, and so does write(), whatever it has written.
WriteRefused(p) ==
  /\ toWrite[p] > 0 /\ ~Allowed(off, ChunkOf(p))
  /\ toWrite' = [toWrite EXCEPT ![p] = 0]
  /\ UNCHANGED <<inode, bitmap, others, cached, logged, off, writes>> /\ opBlocks' = 0

\* fileread(): readi() gives what the file has, less if copyout() fails in a block.
Read(p) ==
  /\ toWrite[p] = 0 /\ off < inode.size
  /\ \E n \in Lengths :
       LET end == IF off + n > inode.size THEN inode.size ELSE off + n
       IN \E r \in {end} \cup {bn * BSIZE : bn \in BlockNumbers(off, end - off)} :
            r > off /\ off' = r
  /\ UNCHANGED <<inode, bitmap, others, cached, logged, toWrite, writes>> /\ opBlocks' = 0

\* itrunc(), as open() calls it for O_TRUNC and iput() for an unlinked inode.
Owned(ip) == ({ip.addrs[n] : n \in DOMAIN ip.addrs} \cup {ip.ind[n] : n \in DOMAIN ip.ind}) \ {0}
itrunc(op) ==
  [op EXCEPT !.used = @ \ Owned(op.ip), !.ip = NoBlocks,
             !.log = {BBLOCK(b) : b \in Owned(op.ip)} \cup {<<"inode">>}]

\* Everybody closes the file, and it is opened anew, with O_TRUNC or without.
Reopen ==
  /\ \A p \in Writers : toWrite[p] = 0
  /\ \/ CommitOp(itrunc(Op))
     \/ UNCHANGED <<inode, bitmap, cached, logged>> /\ opBlocks' = 0
  /\ off' = 0
  /\ UNCHANGED <<others, toWrite, writes>>

\* Other files take blocks and give them back.
OtherTakes ==
  /\ others = {} /\ DataBlocks \ bitmap # {}
  /\ LET b == FreeBlock(bitmap) IN bitmap' = bitmap \cup {b} /\ others' = {b}
  /\ UNCHANGED <<inode, cached, logged, off, toWrite, writes>> /\ opBlocks' = 0

OtherFrees ==
  /\ others # {} /\ bitmap' = bitmap \ others /\ others' = {}
  /\ UNCHANGED <<inode, cached, logged, off, toWrite, writes>> /\ opBlocks' = 0

\* bget() reuses a buffer that is in no transaction: the disk's bytes come back.
Evict(b) ==
  /\ cached[b] # logged[b]
  /\ cached' = [cached EXCEPT ![b] = logged[b]]
  /\ UNCHANGED <<inode, bitmap, others, logged, off, toWrite, writes>> /\ opBlocks' = 0

FileNext ==
  \/ \E p \in Writers : \/ WriteCall(p) \/ WriteChunk(p) \/ WriteBadAddress(p)
                        \/ WriteRefused(p) \/ Read(p)
  \/ Reopen \/ OtherTakes \/ OtherFrees
  \/ \E b \in DataBlocks : Evict(b)

FileSpec == FileInit /\ [][FileNext]_fileVars

-----------------------------------------------------------------------------
FileTypeOK ==
  /\ inode.size \in 0..(MAXFILE * BSIZE)
  /\ inode.addrs \in [0..NDIRECT -> {0} \cup DataBlocks]
  /\ inode.ind \in [0..(NINDIRECT - 1) -> {0} \cup DataBlocks]
  /\ bitmap \subseteq DataBlocks /\ others \subseteq bitmap
  /\ cached \in [DataBlocks -> [0..(BSIZE - 1) -> {0} \cup Writers]]
  /\ logged \in [DataBlocks -> [0..(BSIZE - 1) -> {0} \cup Writers]]
  /\ off \in 0..(MAXFILE * BSIZE)
  /\ \A p \in Writers : toWrite[p] \in Nat

\* A block in use has one owner and one place in its file, nothing leaks.
BlocksOwnedOnce ==
  /\ Owned(inode) = bitmap \ others
  /\ Cardinality(Owned(inode)) = Cardinality({n \in DOMAIN inode.addrs : inode.addrs[n] # 0})
                                 + Cardinality({n \in DOMAIN inode.ind : inode.ind[n] # 0})
  /\ inode.addrs[NDIRECT] = 0 => \A n \in DOMAIN inode.ind : inode.ind[n] = 0

\* No hole below the size, so that a read, in no transaction, never allocates.
NoHole == \A bn \in BlockNumbers(0, inode.size) : BlockAt(inode, bn) # 0

\* The chunk is small enough for the log, wherever its blocks have their bits.
OpFits == opBlocks <= MAXOPBLOCKS

FileSound == FileTypeOK /\ BlocksOwnedOnce /\ NoHole /\ OpFits

\* Writers that share an open file: every chunk lands whole, at
\* the offset, over nothing else.
ByteAt(map, k) == map[BlockAt(inode, k \div BSIZE)][k % BSIZE]
F == INSTANCE ByteFile WITH
       Bytes <- Writers, MaxSize <- MAXFILE * BSIZE, MaxWrite <- Chunk,
       bytes <- [k \in 1..inode.size |-> ByteAt(cached, k - 1)], offset <- off,
       torn <- {k \in 0..(inode.size - 1) : ByteAt(cached, k) # ByteAt(logged, k)}
FileImplementsBytes == F!Spec
=============================================================================
