-------------------------------- MODULE MkFs --------------------------------
(***************************************************************************)
(* The file system image that xv6-labs/mkfs/mkfs.c makes of the files it is   *)
(* given, and how the kernel's bmap() finds them in it.                      *)
(***************************************************************************)
EXTENDS FileData, SequencesExt

CONSTANTS NLOG, NINODES, FSSIZE,   \* param.h, mkfs.c
          IPB, BPBITMAP,           \* inodes per block, bits per bitmap block
          DIRENT,                  \* sizeof(struct dirent)
          MaxArgs2, HostSizes      \* bounds: the files of the command line

ROOTINO == 1
ninodeblocks == NINODES \div IPB + 1
nbitmap == FSSIZE \div BPBITMAP + 1
nmeta == 2 + NLOG + ninodeblocks + nbitmap
bmapstart == 2 + NLOG + ninodeblocks

ASSUME MkFsAssumption ==
  /\ {NLOG, NINODES, FSSIZE, IPB, BPBITMAP, DIRENT} \subseteq Nat \ {0}
  /\ BSIZE % DIRENT = 0 /\ HostSizes \subseteq 0..(MAXFILE * BSIZE)
  /\ MaxArgs2 \in Nat /\ MaxArgs2 + ROOTINO < NINODES
  /\ nmeta < FSSIZE

VARIABLES
  made,      \* the inodes, in the order of ialloc()
  sectors,   \* the data blocks that were written
  freeblock, \* the first block that is not in use
  host,      \* the file that is being copied: its size, and what was read of it
  marked     \* the bits of the bitmap, when the image is complete

imageVars == <<made, sectors, freeblock, host, marked>>

Nowhere == [inum |-> 0, size |-> 0, pos |-> 0]
Blank == [k \in 0..(BSIZE - 1) |-> <<>>]

-----------------------------------------------------------------------------
\* Where iappend() puts block fbn of the inode: the indirect block comes first.
Place1(img, inum, fbn) ==
  LET ip == img.made[inum] IN
  IF fbn < NDIRECT
  THEN IF ip.addrs[fbn] # 0 THEN img
       ELSE [img EXCEPT !.made[inum].addrs[fbn] = img.free, !.free = @ + 1]
  ELSE LET withInd == IF ip.addrs[NDIRECT] # 0 THEN img
                      ELSE [img EXCEPT !.made[inum].addrs[NDIRECT] = img.free, !.free = @ + 1]
       IN IF ip.ind[fbn - NDIRECT] # 0 THEN withInd
          ELSE [withInd EXCEPT !.made[inum].ind[fbn - NDIRECT] = withInd.free, !.free = @ + 1]

SectorOf(img, b) == IF b \in DOMAIN img.sectors THEN img.sectors[b] ELSE Blank

\* Mutant of WriteSector: the rest of the sector is not read first.
WriteSectorFresh(img, inum, fbn, from, to) ==
  LET b == BlockAt(img.made[inum], fbn) IN
  [img EXCEPT !.sectors = (b :> [k \in 0..(BSIZE - 1) |->
      LET pos == fbn * BSIZE + k IN IF pos \in from..(to - 1) THEN <<inum, pos>> ELSE <<>>]) @@ @]

\* rsect(), bcopy(), wsect(): the bytes from..to-1, those of this block.  A byte is
\* named by its inode and its position.
WriteSector(img, inum, fbn, from, to) ==
  LET b == BlockAt(img.made[inum], fbn) IN
  [img EXCEPT !.sectors = (b :> [k \in 0..(BSIZE - 1) |->
      LET pos == fbn * BSIZE + k
      IN IF pos \in from..(to - 1) THEN <<inum, pos>> ELSE SectorOf(img, b)[k]]) @@ @]

iappend(img, inum, n) ==
  LET from == img.made[inum].size IN
  [FoldLeft(LAMBDA i, fbn : WriteSector(Place1(i, inum, fbn), inum, fbn, from, from + n),
            img, SetToSortSeq(BlockNumbers(from, n), <))
   EXCEPT !.made[inum].size = from + n]

Img == [made |-> made, sectors |-> sectors, free |-> freeblock]
StoreImage(img) == made' = img.made /\ sectors' = img.sectors /\ freeblock' = img.free

\* ialloc(): the next inode.
ialloc(img) == [img EXCEPT !.made = Append(@, NoBlocks)]

\* The superblock, and the root with its entries "." and "..".
ImageInit ==
  LET img == iappend(iappend(ialloc([made |-> <<>>, sectors |-> <<>>, free |-> nmeta]),
                             ROOTINO, DIRENT), ROOTINO, DIRENT)
  IN made = img.made /\ sectors = img.sectors /\ freeblock = img.free
     /\ host = Nowhere /\ marked = {}

\* The next argument: an inode and an entry for it.
AddArg ==
  /\ marked = {} /\ host = Nowhere /\ Len(made) <= MaxArgs2
  /\ StoreImage(iappend(ialloc(Img), ROOTINO, DIRENT))
  /\ \E n \in HostSizes : host' = [inum |-> Len(made) + 1, size |-> n, pos |-> 0]
  /\ UNCHANGED marked

\* read() gives at most a block, of a file less: iappend() it.
CopySome ==
  LET rest == host.size - host.pos IN
  /\ host # Nowhere /\ rest > 0
  /\ \E n \in {1, BSIZE} : /\ n <= rest
                           /\ StoreImage(iappend(Img, host.inum, n))
                           /\ host' = [host EXCEPT !.pos = @ + n]
  /\ UNCHANGED marked

CopyDone ==
  /\ host # Nowhere /\ host.pos = host.size
  /\ host' = Nowhere
  /\ UNCHANGED <<made, sectors, freeblock, marked>>

\* The root's size is made a multiple of the block size, always a larger one; the
\* bitmap gets its bits.
Finish1 ==
  /\ marked = {} /\ host = Nowhere
  /\ freeblock < BPBITMAP          \* assert() in balloc()
  /\ made' = [made EXCEPT ![ROOTINO].size = (@ \div BSIZE + 1) * BSIZE]
  /\ marked' = 0..(freeblock - 1)
  /\ UNCHANGED <<sectors, freeblock, host>>

ImageNext == AddArg \/ CopySome \/ CopyDone \/ Finish1

ImageSpec == ImageInit /\ [][ImageNext]_imageVars

-----------------------------------------------------------------------------
\* The regions of the disk follow each other, with room for all inodes and bits.
LayoutSound ==
  /\ (NINODES - 1) \div IPB + 2 + NLOG < bmapstart
  /\ (FSSIZE - 1) \div BPBITMAP + bmapstart < nmeta

\* What the kernel reads at position k of the inode.
Found(i, k) ==
  LET b == BlockAt(made[i], k \div BSIZE)
  IN IF b \in DOMAIN sectors THEN sectors[b][k % BSIZE] ELSE <<>>
Written(i) == IF i = ROOTINO THEN (Len(made) + 1) * DIRENT
              ELSE IF i = host.inum THEN host.pos ELSE made[i].size

\* Every byte of every file is found where bmap() looks, every block has one owner,
\* the blocks in use are those below freeblock, and the bitmap says so.  Below its
\* size the root has a hole of one block when its entries fill the blocks before.
ImageSound ==
  /\ LayoutSound
  /\ \A i \in 1..Len(made) :
       /\ \A k \in 0..(Written(i) - 1) : Found(i, k) = <<i, k>>
       /\ \A k \in Written(i)..(made[i].size - 1) : Found(i, k) = <<>>
       /\ \A bn \in BlockNumbers(0, made[i].size) :
            BlockAt(made[i], bn) = 0 => i = ROOTINO /\ bn * BSIZE = Written(i)
       /\ \A j \in 1..Len(made) : i # j => Owned(made[i]) \cap Owned(made[j]) = {}
  /\ UNION {Owned(made[i]) : i \in 1..Len(made)} = nmeta..(freeblock - 1)
  /\ marked # {} => marked = 0..(nmeta - 1) \cup UNION {Owned(made[i]) : i \in 1..Len(made)}
=============================================================================
