----------------------------- MODULE FileSysProofs -----------------------------
(***************************************************************************)
(* Proofs about FileSys, for any processes, names, inodes and bounds.       *)
(***************************************************************************)
EXTENDS FileSys, FiniteSetTheorems, SequenceTheorems, WellFoundedInduction, TLAPS

-----------------------------------------------------------------------------
(* Counting. *)

Same(x, y) == IF x = y THEN 1 ELSE 0
Has(S, x) == IF x \in S THEN 1 ELSE 0

\* Two sets that differ in x only differ by one element at most.
LEMMA CountAt ==
  ASSUME NEW A, NEW B, NEW x, IsFiniteSet(A), A \ {x} = B \ {x}
  PROVE  /\ IsFiniteSet(B) /\ Count(A) \in Nat /\ Count(B) \in Nat
         /\ Count(B) = Count(A) - Has(A, x) + Has(B, x)
<1>1. PICK C : C = A \ {x}
  OBVIOUS
<1>2. IsFiniteSet(C) /\ Cardinality(C) = Cardinality(A) - Has(A, x)
  BY <1>1, FS_RemoveElement, FS_CardinalityType DEF Has
<1>3. A \in SUBSET A /\ B = (IF x \in B THEN C \cup {x} ELSE C) /\ x \notin C
  BY <1>1
<1>4. IsFiniteSet(B) /\ Cardinality(B) = Cardinality(C) + Has(B, x)
  <2>1. CASE x \in B
    BY <2>1, <1>2, <1>3, FS_AddElement DEF Has
  <2>2. CASE x \notin B
    BY <2>2, <1>2, <1>3, FS_CardinalityType DEF Has
  <2>3. QED
    BY <2>1, <2>2
<1>5. Cardinality(A) \in Nat /\ Cardinality(B) \in Nat /\ Cardinality(C) \in Nat
  BY <1>2, <1>4, FS_CardinalityType
<1>6. QED
  BY <1>2, <1>4, <1>5 DEF Count, Has

\* A set with two elements counts to two.
LEMMA CountTwo ==
  ASSUME NEW A, IsFiniteSet(A), NEW x \in A
  PROVE  Count(A) \in Nat \ {0} /\ \A y \in A : x # y => Count(A) >= 2
<1>1. IsFiniteSet(A \ {x}) /\ Cardinality(A \ {x}) = Cardinality(A) - 1
  BY FS_RemoveElement
<1>2. Cardinality(A) \in Nat /\ Cardinality(A \ {x}) \in Nat
  BY <1>1, FS_CardinalityType
<1>3. ASSUME NEW y \in A, x # y
      PROVE  Cardinality(A \ {x}) # 0
  BY <1>1, <1>3, FS_EmptySet
<1>4. QED
  BY <1>1, <1>2, <1>3 DEF Count

LEMMA FiniteSets ==
  /\ IsFiniteSet(Procs) /\ IsFiniteSet(Names) /\ IsFiniteSet(Inums)
  /\ IsFiniteSet(1..NFILE) /\ IsFiniteSet(Procs \X (1..2))
  /\ IsFiniteSet(Procs \X (1..NOFILE)) /\ IsFiniteSet(Inums \X Names)
<1>1. 2 \in Int /\ NINODES \in Int /\ NFILE \in Int /\ NOFILE \in Int /\ IsFiniteSet(Procs) /\ IsFiniteSet(Names)
  BY FileSysAssumption
<1>2. IsFiniteSet(Inums) /\ IsFiniteSet(1..NFILE) /\ IsFiniteSet(1..2) /\ IsFiniteSet(1..NOFILE)
  <2>1. \A n \in Int : IsFiniteSet(1..n)
    BY FS_Interval
  <2>2. QED
    BY <1>1, <2>1, Zenon DEF Inums
<1>3. QED
  BY <1>1, <1>2, FS_Product

\* The least of a set of numbers.
LEMMA LeastNat ==
  ASSUME NEW T \in SUBSET Nat, T # {}
  PROVE  \E m \in T : \A n \in T : m <= n
<1>1. PICK m \in T : \A n \in T : ~(<<n, m>> \in OpToRel(<, Nat))
  BY NatLessThanWellFounded, WFMin
<1>2. \A n \in T : ~(n < m)
  BY <1>1 DEF OpToRel
<1>3. QED
  BY <1>2

\* balloc() finds a block when one is free.
LEMMA BallocFinds ==
  ASSUME NEW d, NEW i \in Inums, DiskOK(d), Blocks \ d.used # {}
  PROVE  \E b \in Blocks \ d.used :
           Balloc(d, i) = [d EXCEPT !.used = @ \cup {b}, !.inode[i].blk = b]
<1>1. Blocks \ d.used \in SUBSET Nat
  BY FileSysAssumption DEF Blocks
<1>2. PICK m \in Blocks \ d.used : \A c \in Blocks \ d.used : m <= c
  BY <1>1, LeastNat
<1>3. QED
  BY <1>2 DEF Balloc

Where(S, f, v) == {s \in S : f[s] = v}
PutsWhere(S, f, i) == {x \in S \X (1..2) : x[2] <= Len(f[x[1]]) /\ f[x[1]][x[2]] = i}
InPut(s, i) ==
  (IF Len(s) >= 1 /\ s[1] = i THEN 1 ELSE 0) + (IF Len(s) >= 2 /\ s[2] = i THEN 1 ELSE 0)

LEMMA WhereAt ==
  ASSUME NEW S, IsFiniteSet(S), NEW f, NEW g, NEW s \in S, NEW v,
         \A t \in S \ {s} : g[t] = f[t]
  PROVE  /\ Count(Where(S, f, v)) \in Nat /\ Count(Where(S, g, v)) \in Nat
         /\ Count(Where(S, g, v)) = Count(Where(S, f, v)) - Same(f[s], v) + Same(g[s], v)
<1>1. PICK A : A = Where(S, f, v)
  OBVIOUS
<1>2. PICK B : B = Where(S, g, v)
  OBVIOUS
<1>3. A \in SUBSET S /\ A \ {s} = B \ {s} /\ (s \in A <=> f[s] = v) /\ (s \in B <=> g[s] = v)
  BY <1>1, <1>2 DEF Where
<1>4. IsFiniteSet(A)
  BY <1>3, FS_Subset
<1>5. Count(A) \in Nat /\ Count(B) \in Nat /\ Count(B) = Count(A) - Has(A, s) + Has(B, s)
  BY <1>3, <1>4, CountAt
<1>6. QED
  BY <1>1, <1>2, <1>3, <1>5 DEF Has, Same

LEMMA PutsAt ==
  ASSUME NEW S, IsFiniteSet(S \X (1..2)), NEW f, NEW g, NEW s \in S, NEW i,
         \A t \in S \ {s} : g[t] = f[t], Len(f[s]) \in Nat, Len(g[s]) \in Nat
  PROVE  /\ Count(PutsWhere(S, f, i)) \in Nat /\ Count(PutsWhere(S, g, i)) \in Nat
         /\ Count(PutsWhere(S, g, i))
            = Count(PutsWhere(S, f, i)) - InPut(f[s], i) + InPut(g[s], i)
<1>1. PICK A : A = PutsWhere(S, f, i)
  OBVIOUS
<1>2. PICK B : B = PutsWhere(S, g, i)
  OBVIOUS
<1>3. /\ A \in SUBSET (S \X (1..2)) /\ B \in SUBSET (S \X (1..2))
      /\ \A t \in S \ {s}, k \in 1..2 : <<t, k>> \in A <=> <<t, k>> \in B
      /\ \A k \in 1..2 : <<s, k>> \in A <=> Len(f[s]) >= k /\ f[s][k] = i
      /\ \A k \in 1..2 : <<s, k>> \in B <=> Len(g[s]) >= k /\ g[s][k] = i
  BY <1>1, <1>2 DEF PutsWhere
<1>4. IsFiniteSet(A)
  BY <1>3, FS_Subset
<1> DEFINE x == <<s, 1>>
           y == <<s, 2>>
<1>5. PICK C : C = IF x \in B THEN A \cup {x} ELSE A \ {x}
  OBVIOUS
<1>6. /\ x # y /\ A \ {x} = C \ {x} /\ C \ {y} = B \ {y}
      /\ (x \in C <=> x \in B) /\ (y \in C <=> y \in A)
  <2>1. x # y
    OBVIOUS
  <2>2. A \ {x} = C \ {x} /\ (x \in C <=> x \in B) /\ (y \in C <=> y \in A)
    BY <2>1, <1>5
  <2>3. ASSUME NEW t \in S, NEW k \in 1..2, <<t, k>> # y
        PROVE  <<t, k>> \in C <=> <<t, k>> \in B
    <3>1. CASE <<t, k>> = x
      BY <3>1, <2>2
    <3>2. CASE t # s
      BY <3>2, <1>3, <1>5
    <3>3. k = 1 \/ k = 2
      OBVIOUS
    <3>4. QED
      BY <3>1, <3>2, <3>3, <2>3
  <2>4. C \subseteq S \X (1..2)
    BY <1>3, <1>5
  <2>5. \A z \in S \X (1..2) : z # y => (z \in C <=> z \in B)
    <3> SUFFICES ASSUME NEW z \in S \X (1..2), z # y
                 PROVE  z \in C <=> z \in B
      OBVIOUS
    <3>1. PICK t \in S, k \in 1..2 : z = <<t, k>>
      OBVIOUS
    <3>2. QED
      BY <3>1, <2>3
  <2>6. C \ {y} = B \ {y}
    BY <2>4, <2>5, <1>3
  <2>7. QED
    BY <2>1, <2>2, <2>6
<1> HIDE DEF x, y
<1>7. /\ IsFiniteSet(C) /\ Count(A) \in Nat /\ Count(C) \in Nat
      /\ Count(C) = Count(A) - Has(A, x) + Has(C, x)
  BY <1>4, <1>6, CountAt
<1>8. Count(B) \in Nat /\ Count(B) = Count(C) - Has(C, y) + Has(B, y)
  BY <1>6, <1>7, CountAt
<1>9. /\ x \in A <=> Len(f[s]) >= 1 /\ f[s][1] = i
      /\ y \in A <=> Len(f[s]) >= 2 /\ f[s][2] = i
      /\ x \in B <=> Len(g[s]) >= 1 /\ g[s][1] = i
      /\ y \in B <=> Len(g[s]) >= 2 /\ g[s][2] = i
  BY <1>3 DEF x, y
<1>10. InPut(f[s], i) = Has(A, x) + Has(A, y) /\ InPut(g[s], i) = Has(B, x) + Has(B, y)
  BY <1>9 DEF InPut, Has
<1>11. QED
  BY <1>1, <1>2, <1>6, <1>7, <1>8, <1>10 DEF Has

-----------------------------------------------------------------------------
(* The inductive invariant. *)

\* iput() is freeing i: the entry is out of date until the lock is released.
Freeing(i) == \E p \in Procs : lock[i] = p /\ stage[p] = 1 /\ Head(put[p]) = i

\* What a process holds in each state of its system call.
ProcOK(p) ==
  /\ Len(put[p]) <= 2
  /\ pc[p] \in {"user", "end"} => cur[p] = 0 /\ par[p] = 0 /\ old[p] = 0
  /\ pc[p] = "user" => put[p] = <<>>
  /\ pc[p] = "end" => put[p] # <<>>
  /\ pc[p] \in {"namei", "parent", "dir", "found", "new", "child"} => cur[p] # 0
  /\ pc[p] \in {"new", "child"} => par[p] # 0
  /\ pc[p] \in {"new", "child", "panic"} => put[p] = <<>>
  /\ pc[p] \in {"namei", "found", "new", "child"} => old[p] = 0
  /\ pc[p] \in {"namei", "parent", "dir", "found", "bad"} => par[p] = 0
  /\ pc[p] = "bad" => old[p] # 0 /\ cur[p] = 0
  /\ stage[p] # 0 => put[p] # <<>>
  /\ cwd[p] = 0 => pc[p] \in {"user", "end"} /\ \A fd \in 1..NOFILE : ofile[p][fd] = 0

Shape == \A p \in Procs : ProcOK(p)
FilesUsed == \A f \in 1..NFILE : file[f].ref = 0 <=> file[f].ip = 0

\* Who holds an inode's lock between two steps: a process at the child of a
\* directory, and iput() that frees.
LocksHeld ==
  /\ \A i \in Inums, p \in Procs :
       lock[i] = p => par[p] = i \/ (stage[p] = 1 /\ Head(put[p]) = i)
  /\ \A p \in Procs : /\ par[p] # 0 => lock[par[p]] = p
                      /\ stage[p] = 1 => lock[Head(put[p])] = p

\* A valid entry that iput() is not freeing is the disk's, and allocated.
CacheFits ==
  \A i \in Inums : \/ Freeing(i) \/ mem[i] = NoInode
                   \/ mem[i] = disk.inode[i] /\ mem[i].type # "free"

\* What the inodes that a system call has reached are, as long as it is there.
Reached(p) ==
  /\ pc[p] = "dir" => disk.inode[cur[p]].type = "dir"
  /\ par[p] # 0 => disk.inode[par[p]].type = "dir"
  /\ old[p] # 0 => disk.inode[old[p]].type = "file"
  /\ pc[p] = "new" => disk.inode[cur[p]].type # "free"
  /\ pc[p] = "child" => \E n \in Names : disk.dir[par[p]][n] = cur[p]

OnlyDirs == \A i \in Inums : disk.inode[i].type # "dir" => \A e \in Entries : disk.dir[i][e] = 0

\* The names, those that create() is about to enter too, lead upwards.
Upwards(rank) ==
  /\ \A i \in Inums, n \in Names : disk.dir[i][n] # 0 => rank[i] < rank[disk.dir[i][n]]
  /\ \A p \in Procs : pc[p] = "new" => rank[par[p]] < rank[cur[p]]
Ranked == \E rank \in [Inums -> Nat] : Upwards(rank)

\* Blocks have one owner, and a new directory has none yet.
BlocksKept ==
  /\ BlocksOwned(disk)
  /\ \A i \in Inums : disk.inode[i].type = "free" => disk.inode[i].blk = 0
  /\ \A p \in Procs : pc[p] = "new" =>
       /\ disk.inode[cur[p]].type = "dir" => disk.inode[cur[p]].blk = 0
       /\ \A q \in Procs : pc[q] = "new" /\ cur[q] = cur[p] => q = p

Inv ==
  /\ TypeOK /\ RefsExact /\ Shape /\ FilesUsed /\ LocksHeld /\ CacheFits
  /\ \A p \in Procs : Reached(p)
  /\ OnlyDirs /\ Ranked /\ BlocksKept

-----------------------------------------------------------------------------
(* What a process finds at an inode. *)

Pcs == {"user", "namei", "parent", "dir", "found", "new", "child", "bad", "end", "panic"}

LEMMA AtCur ==
  ASSUME TypeOK, Shape, CacheFits, NEW p \in Procs,
         NEW l \in {"namei", "parent", "dir", "found", "new", "child"}, At(p, l, cur[p])
  PROVE  /\ pc[p] = l /\ cur[p] \in Inums /\ lock[cur[p]] = NoProc /\ ~Freeing(cur[p])
         /\ Load(cur[p]) = disk.inode[cur[p]] /\ disk.inode[cur[p]] \in Dinode
         /\ mem[cur[p]] = NoInode \/ disk.inode[cur[p]].type # "free"
         /\ put[p] = <<>> /\ stage[p] = 0 /\ cwd[p] \in Inums
<1>1. /\ pc[p] = l /\ put[p] = <<>> /\ lock[cur[p]] = NoProc /\ ProcOK(p)
      /\ cur[p] \in {0} \cup Inums /\ stage[p] \in 0..2 /\ cwd[p] \in {0} \cup Inums
  BY DEF At, Shape, TypeOK
<1>2. cur[p] \in Inums /\ stage[p] = 0 /\ cwd[p] \in Inums
  BY <1>1 DEF ProcOK
<1>3. ~Freeing(cur[p])
  BY <1>1, FileSysAssumption DEF Freeing
<1>4. mem[cur[p]] = NoInode \/ (mem[cur[p]] = disk.inode[cur[p]] /\ mem[cur[p]].type # "free")
  BY <1>2, <1>3 DEF CacheFits
<1>5. disk.inode[cur[p]] \in Dinode
  BY <1>2 DEF TypeOK, DiskOK
<1>6. QED
  BY <1>1, <1>2, <1>3, <1>4, <1>5 DEF Load

LEMMA AtOld ==
  ASSUME TypeOK, Shape, CacheFits, NEW p \in Procs, At(p, "bad", old[p])
  PROVE  /\ pc[p] = "bad" /\ old[p] \in Inums /\ lock[old[p]] = NoProc /\ ~Freeing(old[p])
         /\ Load(old[p]) = disk.inode[old[p]] /\ disk.inode[old[p]] \in Dinode
         /\ mem[old[p]] = NoInode \/ disk.inode[old[p]].type # "free"
         /\ cur[p] = 0 /\ par[p] = 0 /\ put[p] = <<>> /\ stage[p] = 0 /\ cwd[p] \in Inums
<1>1. /\ pc[p] = "bad" /\ put[p] = <<>> /\ lock[old[p]] = NoProc /\ ProcOK(p)
      /\ old[p] \in {0} \cup Inums /\ stage[p] \in 0..2 /\ cwd[p] \in {0} \cup Inums
  BY DEF At, Shape, TypeOK
<1>2. old[p] \in Inums /\ stage[p] = 0 /\ cur[p] = 0 /\ par[p] = 0 /\ cwd[p] \in Inums
  BY <1>1 DEF ProcOK
<1>3. ~Freeing(old[p])
  BY <1>1, FileSysAssumption DEF Freeing
<1>4. mem[old[p]] = NoInode \/ (mem[old[p]] = disk.inode[old[p]] /\ mem[old[p]].type # "free")
  BY <1>2, <1>3 DEF CacheFits
<1>5. disk.inode[old[p]] \in Dinode
  BY <1>2 DEF TypeOK, DiskOK
<1>6. QED
  BY <1>1, <1>2, <1>3, <1>4, <1>5 DEF Load

\* The directory that a process has locked stays a directory.
LEMMA AtPar ==
  ASSUME TypeOK, Shape, CacheFits, LocksHeld, NEW p \in Procs, Reached(p),
         NEW l \in {"new", "child"}, At(p, l, cur[p])
  PROVE  /\ par[p] \in Inums /\ lock[par[p]] = p /\ ~Freeing(par[p]) /\ par[p] # cur[p]
         /\ Load(par[p]) = disk.inode[par[p]] /\ disk.inode[par[p]] \in Dinode
         /\ disk.inode[par[p]].type = "dir" /\ old[p] = 0
<1>1. /\ pc[p] = l /\ lock[cur[p]] = NoProc /\ ProcOK(p) /\ par[p] \in {0} \cup Inums /\ put[p] = <<>>
  BY DEF At, Shape, TypeOK
<1>2. par[p] \in Inums /\ lock[par[p]] = p /\ old[p] = 0 /\ stage[p] = 0
  BY <1>1 DEF ProcOK, LocksHeld
<1>3. ~Freeing(par[p]) /\ par[p] # cur[p]
  BY <1>1, <1>2, FileSysAssumption DEF Freeing
<1>4. mem[par[p]] = NoInode \/ mem[par[p]] = disk.inode[par[p]]
  BY <1>2, <1>3 DEF CacheFits
<1>5. disk.inode[par[p]] \in Dinode
  BY <1>2 DEF TypeOK, DiskOK
<1>6. disk.inode[par[p]].type = "dir"
  BY <1>1 DEF ProcOK, Reached
<1>7. QED
  BY <1>1, <1>2, <1>3, <1>4, <1>5, <1>6 DEF Load

-----------------------------------------------------------------------------
(* What the operators on the disk do. *)

LEMMA IupdateDoes ==
  ASSUME NEW d, DiskOK(d), NEW i \in Inums, NEW ip \in Dinode
  PROVE  /\ DiskOK(iupdate(d, i, ip)) /\ iupdate(d, i, ip).inode = [d.inode EXCEPT ![i] = ip]
         /\ iupdate(d, i, ip).dir = d.dir /\ iupdate(d, i, ip).used = d.used
BY DEF iupdate, DiskOK

LEMMA DirlinkDoes ==
  ASSUME NEW d, DiskOK(d), NEW dp \in Inums, NEW e \in Entries, NEW i \in {0} \cup Inums
  PROVE  /\ DiskOK(dirlink(d, dp, e, i)) /\ dirlink(d, dp, e, i).inode = d.inode
         /\ dirlink(d, dp, e, i).dir = [d.dir EXCEPT ![dp] = [d.dir[dp] EXCEPT ![e] = i]]
         /\ dirlink(d, dp, e, i).used = d.used
BY DEF dirlink, DiskOK

LEMMA ItruncDoes ==
  ASSUME NEW d, DiskOK(d), NEW i \in Inums
  PROVE  /\ DiskOK(itrunc(d, i))
         /\ itrunc(d, i).inode = [d.inode EXCEPT ![i] = [@ EXCEPT !.blk = 0]]
         /\ itrunc(d, i).dir = [d.dir EXCEPT ![i] = NoEntries]
         /\ itrunc(d, i).used = d.used \ {d.inode[i].blk}
<1>1. [d.inode[i] EXCEPT !.blk = 0] \in Dinode
  BY DEF DiskOK, Dinode
<1>2. NoEntries \in [Entries -> {0} \cup Inums]
  BY DEF NoEntries
<1>3. QED
  BY <1>1, <1>2 DEF itrunc, DiskOK

LEMMA BallocDoes ==
  ASSUME NEW d, DiskOK(d), NEW i \in Inums, Blocks \ d.used # {}
  PROVE  \E b \in Blocks \ d.used :
           /\ DiskOK(Balloc(d, i)) /\ Balloc(d, i).dir = d.dir
           /\ Balloc(d, i).used = d.used \cup {b}
           /\ Balloc(d, i).inode = [d.inode EXCEPT ![i] = [d.inode[i] EXCEPT !.blk = b]]
<1>1. PICK b \in Blocks \ d.used :
        Balloc(d, i) = [d EXCEPT !.used = @ \cup {b}, !.inode[i].blk = b]
  BY BallocFinds
<1>2. [d.inode[i] EXCEPT !.blk = b] \in Dinode
  BY DEF DiskOK, Dinode
<1>3. Balloc(d, i) = [d EXCEPT !.used = d.used \cup {b},
                               !.inode = [d.inode EXCEPT ![i] = [d.inode[i] EXCEPT !.blk = b]]]
  BY <1>1 DEF DiskOK
<1>4. /\ DiskOK(Balloc(d, i)) /\ Balloc(d, i).dir = d.dir
      /\ Balloc(d, i).used = d.used \cup {b}
      /\ Balloc(d, i).inode = [d.inode EXCEPT ![i] = [d.inode[i] EXCEPT !.blk = b]]
  BY <1>2, <1>3 DEF DiskOK
<1>5. QED
  BY <1>4

\* nlink() changes nothing but the links.
LEMMA NlinkDoes ==
  ASSUME NEW ip \in Dinode, NEW by \in Int
  PROVE  /\ nlink(ip, by) \in Dinode /\ nlink(ip, by).type = ip.type
         /\ nlink(ip, by).blk = ip.blk /\ nlink(ip, by).nlink = ip.nlink + by
BY DEF nlink, Dinode

FreeInode == [type |-> "free", nlink |-> 0, blk |-> 0]

\* create() of a file adds a name for it.
LEMMA CreatedFile ==
  ASSUME TypeOK, NEW p \in Procs, NEW i \in Inums, NEW dp \in Inums, cur[p] = i, par[p] = dp,
         i # dp, Load(i) = disk.inode[i], disk.inode[i].type = "file", NEW n \in Names
  PROVE  LET d == Created(p, n) IN
           /\ DiskOK(d) /\ d.used = disk.used
           /\ d.inode = [disk.inode EXCEPT ![i] = [@ EXCEPT !.nlink = 1]]
           /\ d.dir = [disk.dir EXCEPT ![dp] = [@ EXCEPT ![n] = i]]
<1>1. DiskOK(disk) /\ n \in Entries
  BY DEF TypeOK, Entries
<1>2. [disk.inode[i] EXCEPT !.nlink = 1] \in Dinode
  <2>1. disk.inode[i] \in Dinode
    BY <1>1 DEF DiskOK
  <2>2. QED
    BY <2>1 DEF Dinode
<1>3. PICK d1 : d1 = iupdate(disk, i, [disk.inode[i] EXCEPT !.nlink = 1])
  OBVIOUS
<1>4. /\ DiskOK(d1) /\ d1.inode = [disk.inode EXCEPT ![i] = [disk.inode[i] EXCEPT !.nlink = 1]]
      /\ d1.dir = disk.dir /\ d1.used = disk.used
  BY <1>1, <1>2, <1>3, IupdateDoes
<1>5. Created(p, n) = dirlink(d1, dp, n, i)
  BY <1>3 DEF Created
<1>6. QED
  BY <1>1, <1>4, <1>5, DirlinkDoes

\* create() of a directory adds a block, its "." and "..", and a link to its parent.
LEMMA CreatedDir ==
  ASSUME TypeOK, NEW p \in Procs, NEW i \in Inums, NEW dp \in Inums, cur[p] = i, par[p] = dp,
         i # dp, Load(i) = disk.inode[i], disk.inode[i].type = "dir",
         Load(dp) = disk.inode[dp], Blocks \ disk.used # {}, NEW n \in Names,
         disk' = Created(p, n)
  PROVE  /\ DiskOK(disk')
         /\ \E b \in Blocks \ disk.used :
              /\ disk'.used = disk.used \cup {b}
              /\ disk'.inode[i].blk = b
         /\ disk'.inode[i].type = disk.inode[i].type /\ disk'.inode[i].nlink = 1
         /\ disk'.inode[dp] = nlink(disk.inode[dp], 1)
         /\ disk'.dir[dp] = [disk.dir[dp] EXCEPT ![n] = i]
         /\ disk'.dir[i] = [disk.dir[i] EXCEPT !["."] = i, ![".."] = dp]
         /\ \A j \in Inums \ {i, dp} : disk'.inode[j] = disk.inode[j] /\ disk'.dir[j] = disk.dir[j]
<1>1. /\ DiskOK(disk) /\ n \in Entries /\ "." \in Entries /\ ".." \in Entries
      /\ n # "." /\ n # ".." /\ i \in {0} \cup Inums /\ dp \in {0} \cup Inums
  BY FileSysAssumption DEF TypeOK, Entries
<1>a. n \in Entries /\ i \in {0} \cup Inums
  BY <1>1
<1>b. "." \in Entries /\ i \in {0} \cup Inums
  BY <1>1
<1>c. ".." \in Entries /\ dp \in {0} \cup Inums
  BY <1>1
<1>2. disk.inode[i] \in Dinode /\ disk.inode[dp] \in Dinode
  BY <1>1 DEF DiskOK
<1>3. PICK d1 : d1 = iupdate(disk, i, [disk.inode[i] EXCEPT !.nlink = 1])
  OBVIOUS
<1>4. /\ DiskOK(d1) /\ d1.inode = [disk.inode EXCEPT ![i] = [disk.inode[i] EXCEPT !.nlink = 1]]
      /\ d1.dir = disk.dir /\ d1.used = disk.used
  <2>1. [disk.inode[i] EXCEPT !.nlink = 1] \in Dinode
    BY <1>2 DEF Dinode
  <2>2. QED
    BY <1>1, <2>1, <1>3, IupdateDoes
<1>5. PICK d2 : d2 = dirlink(d1, dp, n, i)
  OBVIOUS
<1>6. /\ DiskOK(d2) /\ d2.inode = d1.inode /\ d2.used = d1.used
      /\ d2.dir = [d1.dir EXCEPT ![dp] = [d1.dir[dp] EXCEPT ![n] = i]]
  <2>1. DiskOK(d1)
    BY <1>4
  <2>2. n \in Entries /\ i \in {0} \cup Inums /\ dp \in Inums
    BY <1>a
  <2>3. QED
    BY <2>1, <2>2, <1>5, DirlinkDoes
<1>7. PICK d3 : d3 = iupdate(d2, dp, nlink(disk.inode[dp], 1))
  OBVIOUS
<1>8. /\ DiskOK(d3) /\ d3.inode = [d2.inode EXCEPT ![dp] = nlink(disk.inode[dp], 1)]
      /\ d3.dir = d2.dir /\ d3.used = d2.used
  BY <1>2, <1>6, <1>7, NlinkDoes, IupdateDoes
<1>9. PICK d4 : d4 = Balloc(d3, i)
  OBVIOUS
<1>10. PICK b \in Blocks \ d3.used :
         /\ DiskOK(d4) /\ d4.dir = d3.dir /\ d4.used = d3.used \cup {b}
         /\ d4.inode = [d3.inode EXCEPT ![i] = [d3.inode[i] EXCEPT !.blk = b]]
  <2>1. Blocks \ d3.used # {}
    BY <1>4, <1>6, <1>8
  <2>2. DiskOK(d3)
    BY <1>8
  <2>3. \E b \in Blocks \ d3.used :
           /\ DiskOK(Balloc(d3, i)) /\ Balloc(d3, i).dir = d3.dir
           /\ Balloc(d3, i).used = d3.used \cup {b}
           /\ Balloc(d3, i).inode = [d3.inode EXCEPT ![i] = [d3.inode[i] EXCEPT !.blk = b]]
    BY <2>1, <2>2, BallocDoes, Zenon
  <2>4. QED
    BY <2>3, <1>9, Zenon
<1>11. PICK d5 : d5 = dirlink(d4, i, ".", i)
  OBVIOUS
<1>12. /\ DiskOK(d5) /\ d5.inode = d4.inode /\ d5.used = d4.used
       /\ d5.dir = [d4.dir EXCEPT ![i] = [d4.dir[i] EXCEPT !["."] = i]]
  <2>1. DiskOK(d4)
    BY <1>10
  <2>2. "." \in Entries /\ i \in {0} \cup Inums
    BY <1>b
  <2>3. QED
    BY <2>1, <2>2, <1>11, DirlinkDoes
<1>13. PICK d6 : d6 = dirlink(d5, i, "..", dp)
  OBVIOUS
<1>14. /\ DiskOK(d6) /\ d6.inode = d5.inode /\ d6.used = d5.used
       /\ d6.dir = [d5.dir EXCEPT ![i] = [d5.dir[i] EXCEPT ![".."] = dp]]
  BY <1>c, <1>12, <1>13, DirlinkDoes
<1>15. Created(p, n) = d6
  BY <1>3, <1>5, <1>7, <1>9, <1>11, <1>13 DEF Created
<1>16. d6.inode = [disk.inode EXCEPT ![i] = [@ EXCEPT !.nlink = 1, !.blk = b], ![dp] = nlink(@, 1)]
  <2>1. PICK I \in [Inums -> Dinode] : I = disk.inode
    BY <1>1 DEF DiskOK
  <2>2. PICK nd : nd = nlink(I[dp], 1)
    OBVIOUS
  <2>3. d6.inode = [[[I EXCEPT ![i] = [I[i] EXCEPT !.nlink = 1]] EXCEPT ![dp] = nd]
                    EXCEPT ![i] = [[I[i] EXCEPT !.nlink = 1] EXCEPT !.blk = b]]
    BY <1>4, <1>6, <1>8, <1>10, <1>12, <1>14, <2>1, <2>2
  <2>4. d6.inode = [I EXCEPT ![i] = [I[i] EXCEPT !.nlink = 1, !.blk = b], ![dp] = nd]
    BY <2>3
  <2>5. QED
    BY <2>1, <2>2, <2>4
<1>17. d6.dir = [disk.dir EXCEPT ![dp] = [@ EXCEPT ![n] = i],
                                 ![i] = [@ EXCEPT !["."] = i, ![".."] = dp]]
  <2>1. PICK D \in [Inums -> [Entries -> {0} \cup Inums]] : D = disk.dir
    BY <1>1 DEF DiskOK
  <2>2. d6.dir = [[[D EXCEPT ![dp] = [D[dp] EXCEPT ![n] = i]]
                   EXCEPT ![i] = [D[i] EXCEPT !["."] = i]]
                  EXCEPT ![i] = [[D[i] EXCEPT !["."] = i] EXCEPT ![".."] = dp]]
    <3>1. d2.dir = [D EXCEPT ![dp] = [D[dp] EXCEPT ![n] = i]]
      BY <1>4, <1>6, <2>1
    <3>2. d4.dir = d2.dir /\ d4.dir[i] = D[i]
      BY <1>8, <1>10, <2>1, <3>1
    <3>3. d5.dir = [[D EXCEPT ![dp] = [D[dp] EXCEPT ![n] = i]]
                    EXCEPT ![i] = [D[i] EXCEPT !["."] = i]]
      BY <1>12, <2>1, <3>1, <3>2
    <3>4. i \in DOMAIN [D EXCEPT ![dp] = [D[dp] EXCEPT ![n] = i]]
      OBVIOUS
    <3>5. d5.dir[i] = [D[i] EXCEPT !["."] = i]
      BY <3>3, <3>4
    <3>6. QED
      BY <1>14, <3>3, <3>5
  <2>3. d6.dir = [D EXCEPT ![dp] = [D[dp] EXCEPT ![n] = i],
                           ![i] = [D[i] EXCEPT !["."] = i, ![".."] = dp]]
    BY <2>2, <1>1
  <2>4. QED
    BY <2>1, <2>3
<1>18. b \in Blocks \ disk.used /\ d6.used = disk.used \cup {b}
  BY <1>4, <1>6, <1>8, <1>10, <1>12, <1>14
<1>19. /\ disk.inode \in [Inums -> Dinode]
       /\ disk.dir \in [Inums -> [Entries -> {0} \cup Inums]]
  BY <1>1 DEF DiskOK
<1>20. /\ d6.inode[i] = [disk.inode[i] EXCEPT !.nlink = 1, !.blk = b]
       /\ d6.inode[dp] = nlink(disk.inode[dp], 1)
       /\ \A j \in Inums \ {i, dp} : d6.inode[j] = disk.inode[j]
  BY <1>16, <1>19
<1>21. /\ d6.dir[dp] = [disk.dir[dp] EXCEPT ![n] = i]
       /\ d6.dir[i] = [disk.dir[i] EXCEPT !["."] = i, ![".."] = dp]
       /\ \A j \in Inums \ {i, dp} : d6.dir[j] = disk.dir[j]
  BY <1>17, <1>19
<1>22. disk' = d6
  BY <1>15
<1>23. d6.inode[i].type = disk.inode[i].type /\ d6.inode[i].nlink = 1 /\ d6.inode[i].blk = b
  BY <1>2, <1>20 DEF Dinode
<1>24. QED
  BY ONLY <1>14, <1>18, <1>20, <1>21, <1>22, <1>23

-----------------------------------------------------------------------------
(* The pointers to an inode. *)

FilesAt(i) == {f \in 1..NFILE : file[f].ip = i}
Own(p, i) ==
  Same(cwd[p], i) + Same(cur[p], i) + Same(par[p], i) + Same(old[p], i) + InPut(put[p], i)

LEMMA PointersAre ==
  ASSUME NEW i
  PROVE  Pointers(i) = Count(FilesAt(i)) + Count(Where(Procs, cwd, i))
                       + Count(Where(Procs, cur, i)) + Count(Where(Procs, par, i))
                       + Count(Where(Procs, old, i)) + Count(PutsWhere(Procs, put, i))
BY DEF Pointers, FilesAt, Where, PutsWhere

\* A step of p changes the count of the pointers by what p gains and loses.
LEMMA PointersMove ==
  ASSUME TypeOK, NEW p \in Procs, NEW i \in Inums, put'[p] \in Seq(Inums),
         \A q \in Procs \ {p} : /\ cwd'[q] = cwd[q] /\ cur'[q] = cur[q] /\ par'[q] = par[q]
                                /\ old'[q] = old[q] /\ put'[q] = put[q]
  PROVE  /\ Pointers(i) \in Nat /\ Count(FilesAt(i)) \in Nat
         /\ Pointers(i)' = Pointers(i) - Own(p, i) + Own(p, i)'
                           - Count(FilesAt(i)) + Count(FilesAt(i)')
<1> DEFINE C(f) == Count(Where(Procs, f, i))
           P(f) == Count(PutsWhere(Procs, f, i))
<1>0. IsFiniteSet(Procs)
  BY FiniteSets
<1>1. ASSUME NEW f, NEW g, \A q \in Procs \ {p} : g[q] = f[q]
      PROVE  /\ C(f) \in Nat /\ C(g) \in Nat
             /\ C(g) = C(f) - Same(f[p], i) + Same(g[p], i)
  BY <1>0, <1>1, WhereAt
<1>2. P(put) \in Nat /\ P(put') = P(put) - InPut(put[p], i) + InPut(put'[p], i)
  <2>1. Len(put[p]) \in Nat /\ Len(put'[p]) \in Nat
    BY DEF TypeOK
  <2>2. QED
    BY <2>1, FiniteSets, PutsAt
<1>3. Count(FilesAt(i)) \in Nat
  BY FiniteSets, FS_Subset, FS_CardinalityType DEF FilesAt, Count
<1>4. Pointers(i) = Count(FilesAt(i)) + C(cwd) + C(cur) + C(par) + C(old) + P(put)
  BY PointersAre
<1>5. Pointers(i)' = Count(FilesAt(i)') + C(cwd') + C(cur') + C(par') + C(old') + P(put')
  BY DEF Pointers, FilesAt, Where, PutsWhere, Count
<1>6. Own(p, i)' = Same(cwd'[p], i) + Same(cur'[p], i) + Same(par'[p], i) + Same(old'[p], i)
                   + InPut(put'[p], i)
  BY DEF Own, Same, InPut
<1>7. InPut(put[p], i) \in Nat /\ InPut(put'[p], i) \in Nat
  BY DEF InPut
<1>8. Count(FilesAt(i)') \in Nat
  BY FiniteSets, FS_Subset, FS_CardinalityType DEF FilesAt, Count
<1> HIDE DEF C, P
<1>9. C(cwd) \in Nat /\ C(cwd') \in Nat /\ C(cwd') = C(cwd) - Same(cwd[p], i) + Same(cwd'[p], i)
  BY <1>1
<1>10. C(cur) \in Nat /\ C(cur') \in Nat /\ C(cur') = C(cur) - Same(cur[p], i) + Same(cur'[p], i)
  BY <1>1
<1>11. C(par) \in Nat /\ C(par') \in Nat /\ C(par') = C(par) - Same(par[p], i) + Same(par'[p], i)
  BY <1>1
<1>12. C(old) \in Nat /\ C(old') \in Nat /\ C(old') = C(old) - Same(old[p], i) + Same(old'[p], i)
  BY <1>1
<1>13. Count(FilesAt(i)') = Count(FilesAt(i))'
  BY DEF Count, FilesAt
<1>14. Own(p, i) = Same(cwd[p], i) + Same(cur[p], i) + Same(par[p], i) + Same(old[p], i)
                  + InPut(put[p], i)
  BY DEF Own
<1>15. /\ Same(cwd[p], i) \in Nat /\ Same(cur[p], i) \in Nat /\ Same(par[p], i) \in Nat
       /\ Same(cwd'[p], i) \in Nat /\ Same(cur'[p], i) \in Nat /\ Same(par'[p], i) \in Nat
       /\ Same(old[p], i) \in Nat /\ Same(old'[p], i) \in Nat
  BY DEF Same
<1>16. Pointers(i) \in Nat /\ P(put') \in Int
  BY <1>2, <1>3, <1>4, <1>7, <1>9, <1>10, <1>11, <1>12
<1>17. Pointers(i)' = Count(FilesAt(i)') + (C(cwd) - Same(cwd[p], i) + Same(cwd'[p], i))
         + (C(cur) - Same(cur[p], i) + Same(cur'[p], i))
         + (C(par) - Same(par[p], i) + Same(par'[p], i))
         + (C(old) - Same(old[p], i) + Same(old'[p], i))
         + (P(put) - InPut(put[p], i) + InPut(put'[p], i))
  BY <1>2, <1>5, <1>9, <1>10, <1>11, <1>12
<1>18. PICK a1 \in Nat, a2 \in Nat, a3 \in Nat, a4 \in Nat, a5 \in Nat :
         a1 = C(cwd) /\ a2 = C(cur) /\ a3 = C(par) /\ a4 = C(old) /\ a5 = P(put)
  BY <1>2, <1>9, <1>10, <1>11, <1>12
<1>19. PICK b1 \in Nat, b2 \in Nat, b3 \in Nat, b4 \in Nat, b5 \in Nat :
         b1 = Same(cwd[p], i) /\ b2 = Same(cur[p], i) /\ b3 = Same(par[p], i)
         /\ b4 = Same(old[p], i) /\ b5 = InPut(put[p], i)
  BY <1>7, <1>15
<1>20. PICK c1 \in Nat, c2 \in Nat, c3 \in Nat, c4 \in Nat, c5 \in Nat :
         c1 = Same(cwd'[p], i) /\ c2 = Same(cur'[p], i) /\ c3 = Same(par'[p], i)
         /\ c4 = Same(old'[p], i) /\ c5 = InPut(put'[p], i)
  BY <1>7, <1>15
<1>21. PICK m \in Nat, n \in Nat : m = Count(FilesAt(i)) /\ n = Count(FilesAt(i)')
  BY <1>3, <1>8
<1>22. Pointers(i)' = n + (a1 - b1 + c1) + (a2 - b2 + c2) + (a3 - b3 + c3) + (a4 - b4 + c4) + (a5 - b5 + c5)
  BY <1>17, <1>18, <1>19, <1>20, <1>21
<1>23. Pointers(i) = m + a1 + a2 + a3 + a4 + a5
  BY <1>4, <1>18, <1>21
<1>24. Own(p, i) = b1 + b2 + b3 + b4 + b5
  BY <1>14, <1>19
<1>25. Own(p, i)' = c1 + c2 + c3 + c4 + c5
  BY <1>6, <1>20
<1>26. Pointers(i)' = Pointers(i) - Own(p, i) + Own(p, i)' - m + n
  <2>1. n + (a1 - b1 + c1) + (a2 - b2 + c2) + (a3 - b3 + c3) + (a4 - b4 + c4) + (a5 - b5 + c5)
        = (m + a1 + a2 + a3 + a4 + a5) - (b1 + b2 + b3 + b4 + b5) + (c1 + c2 + c3 + c4 + c5) - m + n
    OBVIOUS
  <2>2. QED
    BY <2>1, <1>22, <1>23, <1>24, <1>25
<1>27. QED
  BY <1>3, <1>16, <1>21, <1>26

LEMMA NoneWhere ==
  ASSUME NEW S, IsFiniteSet(S), NEW f, NEW v, Count(Where(S, f, v)) = 0
  PROVE  \A s \in S : f[s] # v
<1>1. IsFiniteSet(Where(S, f, v))
  BY FS_Subset DEF Where
<1>2. Where(S, f, v) = {}
  BY <1>1, FS_EmptySet DEF Count
<1>3. QED
  BY <1>2 DEF Where

LEMMA CountsAre ==
  ASSUME TypeOK, NEW i \in Inums
  PROVE  /\ Count(FilesAt(i)) \in Nat /\ Count(PutsWhere(Procs, put, i)) \in Nat
         /\ Count(Where(Procs, cwd, i)) \in Nat /\ Count(Where(Procs, cur, i)) \in Nat
         /\ Count(Where(Procs, par, i)) \in Nat /\ Count(Where(Procs, old, i)) \in Nat
         /\ IsFiniteSet(PutsWhere(Procs, put, i)) /\ IsFiniteSet(FilesAt(i))
<1>1. \A f : IsFiniteSet(Where(Procs, f, i))
  BY FiniteSets, FS_Subset DEF Where
<1>2. IsFiniteSet(PutsWhere(Procs, put, i))
  BY FiniteSets, FS_Subset DEF PutsWhere
<1>3. IsFiniteSet(FilesAt(i))
  BY FiniteSets, FS_Subset DEF FilesAt
<1>4. QED
  BY <1>1, <1>2, <1>3, FS_CardinalityType DEF Count

\* A process with an inode to put counts among its references.
LEMMA PutCounted ==
  ASSUME TypeOK, RefsExact, NEW p \in Procs, put[p] # <<>>
  PROVE  /\ Head(put[p]) \in Inums /\ Head(put[p]) = put[p][1] /\ Len(put[p]) >= 1
         /\ ref[Head(put[p])] \in Nat \ {0}
<1> DEFINE i == Head(put[p])
           A == PutsWhere(Procs, put, i)
<1>1. put[p] \in Seq(Inums)
  BY DEF TypeOK
<1>2. i \in Inums /\ i = put[p][1] /\ Len(put[p]) \in Nat /\ Len(put[p]) >= 1
  BY <1>1
<1>3. <<p, 1>> \in A
  BY <1>2 DEF PutsWhere
<1> HIDE DEF i
<1>4. Count(A) \in Nat \ {0}
  <2>1. IsFiniteSet(A)
    BY <1>2, CountsAre
  <2>2. QED
    BY <2>1, <1>3, CountTwo
<1>5. ref[i] = Pointers(i)
  BY <1>2 DEF RefsExact
<1>6. ref[i] \in Nat \ {0}
  BY <1>2, <1>4, <1>5, CountsAre, PointersAre
<1>7. QED
  BY <1>2, <1>6 DEF i

\* When it holds the only reference, there is no other pointer to the inode.
LEMMA SoleRef ==
  ASSUME TypeOK, RefsExact, NEW p \in Procs, put[p] # <<>>, NEW i, i = Head(put[p]), ref[i] = 1
  PROVE  /\ \A q \in Procs : cwd[q] # i /\ cur[q] # i /\ par[q] # i /\ old[q] # i
         /\ \A q \in Procs, k \in 1..2 :
              k <= Len(put[q]) /\ put[q][k] = i => q = p /\ k = 1
         /\ \A f \in 1..NFILE : file[f].ip # i
<1> DEFINE A == PutsWhere(Procs, put, i)
<1>1. i \in Inums /\ i = put[p][1] /\ Len(put[p]) >= 1
  BY PutCounted
<1>2. <<p, 1>> \in A
  BY <1>1 DEF PutsWhere
<1>3. IsFiniteSet(A) /\ IsFiniteSet(FilesAt(i)) /\ IsFiniteSet(Procs)
  BY <1>1, CountsAre, FiniteSets
<1>4. Count(A) \in Nat \ {0} /\ \A y \in A : y # <<p, 1>> => Count(A) >= 2
  BY <1>2, <1>3, CountTwo
<1>5. Pointers(i) = 1
  BY <1>1 DEF RefsExact
<1>6. /\ Count(A) = 1 /\ Count(FilesAt(i)) = 0
      /\ Count(Where(Procs, cwd, i)) = 0 /\ Count(Where(Procs, cur, i)) = 0
      /\ Count(Where(Procs, par, i)) = 0 /\ Count(Where(Procs, old, i)) = 0
  BY <1>1, <1>4, <1>5, CountsAre, PointersAre
<1>7. \A q \in Procs : cwd[q] # i /\ cur[q] # i /\ par[q] # i /\ old[q] # i
  BY <1>3, <1>6, NoneWhere
<1>8. FilesAt(i) = {}
  BY <1>3, <1>6, FS_EmptySet DEF Count
<1>9. ASSUME NEW q \in Procs, NEW k \in 1..2, k <= Len(put[q]), put[q][k] = i
      PROVE  q = p /\ k = 1
  <2>1. <<q, k>> \in A
    BY <1>9 DEF PutsWhere
  <2>2. <<q, k>> = <<p, 1>>
    BY <2>1, <1>4, <1>6
  <2>3. QED
    BY <2>2
<1>10. QED
  BY <1>7, <1>8, <1>9 DEF FilesAt

-----------------------------------------------------------------------------
(* What a step of one process keeps. *)

\* The step moves no process but p.
OthersStay(p) ==
  \A q \in Procs \ {p} :
    /\ pc'[q] = pc[q] /\ cur'[q] = cur[q] /\ par'[q] = par[q] /\ old'[q] = old[q]
    /\ put'[q] = put[q] /\ stage'[q] = stage[q] /\ cwd'[q] = cwd[q] /\ ofile'[q] = ofile[q]

\* The registers have their types.
RegsTyped ==
  /\ pc \in [Procs -> Pcs] /\ cur \in [Procs -> {0} \cup Inums]
  /\ par \in [Procs -> {0} \cup Inums] /\ old \in [Procs -> {0} \cup Inums]
  /\ put \in [Procs -> Seq(Inums)] /\ stage \in [Procs -> 0..2]
CacheTyped ==
  /\ ref \in [Inums -> Nat] /\ mem \in [Inums -> Dinode \cup {NoInode}]
  /\ lock \in [Inums -> Procs \cup {NoProc}]
TableTyped ==
  /\ file \in [1..NFILE -> [ref : Nat, ip : {0} \cup Inums]]
  /\ ofile \in [Procs -> [1..NOFILE -> 0..NFILE]] /\ cwd \in [Procs -> {0} \cup Inums]

LEMMA TypeParts == TypeOK <=> DiskOK(disk) /\ RegsTyped /\ CacheTyped /\ TableTyped
BY DEF TypeOK, RegsTyped, CacheTyped, TableTyped, Pcs

LEMMA TypePartsNext == TypeOK' <=> DiskOK(disk)' /\ RegsTyped' /\ CacheTyped' /\ TableTyped'
BY DEF TypeOK, RegsTyped, CacheTyped, TableTyped, Pcs

LEMMA GotoDoes ==
  ASSUME RegsTyped, NEW p \in Procs, NEW l \in Pcs, NEW c \in {0} \cup Inums,
         NEW d \in {0} \cup Inums, NEW o \in {0} \cup Inums, NEW puts \in Seq(Inums),
         Goto(p, l, c, d, o, puts)
  PROVE  /\ RegsTyped'
         /\ pc'[p] = l /\ cur'[p] = c /\ par'[p] = d /\ old'[p] = o /\ put'[p] = puts
         /\ stage' = stage
         /\ \A q \in Procs \ {p} :
              /\ pc'[q] = pc[q] /\ cur'[q] = cur[q] /\ par'[q] = par[q]
              /\ old'[q] = old[q] /\ put'[q] = put[q]
BY DEF Goto, RegsTyped

LEMMA InPutIs ==
  /\ \A k : InPut(<<>>, k) = 0
  /\ \A a, k : InPut(<<a>>, k) = Same(a, k)
  /\ \A a, b, k : InPut(<<a, b>>, k) = Same(a, k) + Same(b, k)
BY DEF InPut, Same

\* References are exact again when each changes as the pointers of p do.
LEMMA RefsKept ==
  ASSUME TypeOK, RefsExact, NEW p \in Procs, put'[p] \in Seq(Inums), OthersStay(p),
         \A i \in Inums : ref'[i] = ref[i] - Own(p, i) + Own(p, i)',
         file' = file, ofile' = ofile
  PROVE  RefsExact'
<1>1. ASSUME NEW i \in Inums
      PROVE  ref'[i] = Pointers(i)'
  <2>1. Count(FilesAt(i))' = Count(FilesAt(i))
    BY DEF FilesAt, Count
  <2>2. /\ Pointers(i) \in Nat /\ Count(FilesAt(i)) \in Nat
        /\ Pointers(i)' = Pointers(i) - Own(p, i) + Own(p, i)'
                          - Count(FilesAt(i)) + Count(FilesAt(i)')
    BY PointersMove DEF OthersStay
  <2>3. Count(FilesAt(i)') = Count(FilesAt(i))
    BY <2>1 DEF FilesAt, Count
  <2>4. ref[i] = Pointers(i)
    BY DEF RefsExact
  <2>5. Own(p, i) \in Nat /\ Own(p, i)' \in Nat
    BY DEF Own, Same, InPut
  <2>6. QED
    BY <2>2, <2>3, <2>4, <2>5
<1>2. QED
  BY <1>1 DEF RefsExact, Count

\* A lock held by neither p nor anybody keeps what it protects.
LEMMA FreeingKept ==
  ASSUME NEW p \in Procs, OthersStay(p), stage[p] # 1, NEW j \in Inums, Freeing(j),
         lock'[j] = lock[j] \/ lock[j] \in {p, NoProc}
  PROVE  Freeing(j)'
<1>1. PICK q \in Procs : lock[j] = q /\ stage[q] = 1 /\ Head(put[q]) = j
  BY DEF Freeing
<1>2. q # p /\ lock'[j] = q
  BY <1>1, FileSysAssumption
<1>3. stage'[q] = 1 /\ Head(put'[q]) = j
  BY <1>1, <1>2 DEF OthersStay
<1>4. QED
  BY <1>2, <1>3 DEF Freeing

LEMMA CacheKept ==
  ASSUME CacheFits, NEW p \in Procs, OthersStay(p), stage[p] # 1,
         \A j \in Inums : lock'[j] = lock[j] \/ lock[j] \in {p, NoProc},
         \A j \in Inums : \/ mem'[j] = mem[j] /\ disk'.inode[j] = disk.inode[j]
                          \/ mem'[j] = mem[j] /\ disk.inode[j].type = "free"
                          \/ mem'[j] = NoInode \/ Freeing(j)'
                          \/ mem'[j] = disk'.inode[j] /\ disk'.inode[j].type # "free"
  PROVE  CacheFits'
<1>1. ASSUME NEW j \in Inums, ~Freeing(j)'
      PROVE  mem'[j] = NoInode \/ (mem'[j] = disk'.inode[j] /\ mem'[j].type # "free")
  <2>1. ~Freeing(j)
    BY <1>1, FreeingKept
  <2>2. \/ mem'[j] = mem[j] /\ disk'.inode[j] = disk.inode[j]
        \/ mem'[j] = mem[j] /\ disk.inode[j].type = "free"
        \/ mem'[j] = NoInode
        \/ mem'[j] = disk'.inode[j] /\ disk'.inode[j].type # "free"
    BY <1>1
  <2>3. QED
    BY <2>1, <2>2 DEF CacheFits
<1>2. QED
  BY <1>1 DEF CacheFits

\* What the others have reached stays what it is.
LEMMA ReachedKept ==
  ASSUME TypeOK, LocksHeld, NEW p \in Procs, OthersStay(p), NEW q \in Procs, q # p,
         ProcOK(q), Reached(q),
         \A j \in Inums : \/ disk'.inode[j].type = disk.inode[j].type
                          \/ disk.inode[j].type = "free"
                          \/ cur[q] # j /\ par[q] # j /\ old[q] # j,
         \A j \in Inums : disk'.dir[j] = disk.dir[j] \/ lock[j] \in {p, NoProc}
  PROVE  Reached(q)'
<1>1. /\ pc'[q] = pc[q] /\ cur'[q] = cur[q] /\ par'[q] = par[q] /\ old'[q] = old[q]
      /\ cur[q] \in {0} \cup Inums /\ par[q] \in {0} \cup Inums /\ old[q] \in {0} \cup Inums
  BY DEF OthersStay, TypeOK
<1>2. par[q] # 0 => disk'.dir[par[q]] = disk.dir[par[q]]
  BY <1>1, FileSysAssumption DEF LocksHeld
<1>3. pc[q] \in {"dir", "new"} => cur[q] \in Inums
  BY <1>1 DEF ProcOK
<1>4. pc[q] = "dir" => disk'.inode[cur[q]].type = "dir"
  BY <1>3 DEF Reached
<1>5. par[q] # 0 => disk'.inode[par[q]].type = "dir"
  BY <1>1 DEF Reached
<1>6. old[q] # 0 => disk'.inode[old[q]].type = "file"
  BY <1>1 DEF Reached
<1>7. pc[q] = "new" => disk'.inode[cur[q]].type # "free"
  BY <1>3 DEF Reached
<1>8. pc[q] = "child" => \E n \in Names : disk'.dir[par[q]][n] = cur[q]
  BY <1>2 DEF ProcOK, Reached
<1>9. QED
  BY <1>1, <1>4, <1>5, <1>6, <1>7, <1>8 DEF Reached

LEMMA RankKept ==
  ASSUME Ranked,
         \A j \in Inums, n \in Names :
           \/ disk'.dir[j][n] = 0 \/ disk'.dir[j][n] = disk.dir[j][n]
           \/ \E q \in Procs : pc[q] = "new" /\ par[q] = j /\ cur[q] = disk'.dir[j][n],
         \A q \in Procs : pc'[q] = "new" => pc[q] = "new" /\ par'[q] = par[q] /\ cur'[q] = cur[q]
  PROVE  Ranked'
<1>1. PICK rank \in [Inums -> Nat] : Upwards(rank)
  BY DEF Ranked
<1>2. Upwards(rank)'
  <2>1. ASSUME NEW j \in Inums, NEW n \in Names, disk'.dir[j][n] # 0
        PROVE  rank[j] < rank[disk'.dir[j][n]]
    BY <1>1, <2>1 DEF Upwards
  <2>2. ASSUME NEW q \in Procs, pc'[q] = "new"
        PROVE  rank[par'[q]] < rank[cur'[q]]
    BY <1>1, <2>2 DEF Upwards
  <2>3. QED
    BY <2>1, <2>2 DEF Upwards
<1>3. QED
  BY <1>2 DEF Ranked

\* An inode that names nothing may be named by any other.
LEMMA RankRaised ==
  ASSUME Ranked, NEW i \in Inums, NEW dp \in Inums, i # dp, DiskOK(disk),
         \A n \in Names : disk.dir[i][n] = 0,
         \A q \in Procs : pc[q] = "new" => par[q] \in Inums \ {i} /\ cur[q] \in Inums,
         \A j \in Inums, n \in Names :
           \/ disk'.dir[j][n] = 0 \/ disk'.dir[j][n] = disk.dir[j][n]
           \/ j = dp /\ disk'.dir[j][n] = i,
         \A q \in Procs : pc'[q] = "new" =>
           \/ pc[q] = "new" /\ par'[q] = par[q] /\ cur'[q] = cur[q]
           \/ par'[q] = dp /\ cur'[q] = i
  PROVE  Ranked'
<1>1. PICK rank \in [Inums -> Nat] : Upwards(rank)
  BY DEF Ranked
<1>2. PICK up \in [Inums -> Nat] : up = [rank EXCEPT ![i] = rank[i] + rank[dp] + 1]
  <2>1. rank[i] + rank[dp] + 1 \in Nat
    OBVIOUS
  <2>2. QED
    BY <2>1
<1>3. up[i] = rank[i] + rank[dp] + 1 /\ \A j \in Inums \ {i} : up[j] = rank[j]
  BY <1>2
<1>4. up[dp] < up[i] /\ \A j \in Inums : rank[j] <= up[j]
  BY <1>3
<1>5. ASSUME NEW j \in Inums, NEW n \in Names, disk'.dir[j][n] # 0
      PROVE  up[j] < up[disk'.dir[j][n]]
  <2>1. CASE j = dp /\ disk'.dir[j][n] = i
    BY <1>4, <2>1
  <2>2. CASE disk'.dir[j][n] = disk.dir[j][n]
    <3>1. j # i /\ up[j] = rank[j]
      BY <1>3, <1>5, <2>2
    <3>2. n \in Entries
      BY DEF Entries
    <3>3. disk.dir[j][n] \in Inums
      BY <1>5, <2>2, <3>2 DEF DiskOK
    <3>4. rank[j] < rank[disk.dir[j][n]]
      BY <1>1, <1>5, <2>2 DEF Upwards
    <3>5. QED
      BY <1>4, <2>2, <3>1, <3>3, <3>4
  <2>3. QED
    BY <2>1, <2>2, <1>5
<1>6. ASSUME NEW q \in Procs, pc'[q] = "new"
      PROVE  up[par'[q]] < up[cur'[q]]
  <2>1. CASE par'[q] = dp /\ cur'[q] = i
    BY <1>4, <2>1
  <2>2. CASE pc[q] = "new" /\ par'[q] = par[q] /\ cur'[q] = cur[q]
    <3>1. rank[par[q]] < rank[cur[q]]
      BY <1>1, <2>2 DEF Upwards
    <3>2. par[q] \in Inums \ {i} /\ cur[q] \in Inums
      BY <2>2
    <3>3. up[par[q]] = rank[par[q]] /\ rank[cur[q]] <= up[cur[q]]
      BY <3>2, <1>3, <1>4
    <3>4. QED
      BY <2>2, <3>1, <3>2, <3>3
  <2>3. QED
    BY <2>1, <2>2, <1>6
<1>7. Upwards(up)'
  BY <1>5, <1>6 DEF Upwards
<1>8. QED
  BY <1>7 DEF Ranked

LEMMA BlocksSame ==
  ASSUME BlocksKept, RegsTyped, Shape,
         disk'.used = disk.used, \A j \in Inums : disk'.inode[j].blk = disk.inode[j].blk,
         \A j \in Inums : disk'.inode[j].type = disk.inode[j].type,
         \A q \in Procs : pc'[q] = "new" => pc[q] = "new" /\ cur'[q] = cur[q]
  PROVE  BlocksKept'
<1>1. BlocksOwned(disk)'
  BY DEF BlocksKept, BlocksOwned
<1>2. \A j \in Inums : disk'.inode[j].type = "free" => disk'.inode[j].blk = 0
  BY DEF BlocksKept
<1>3. ASSUME NEW q \in Procs, pc'[q] = "new"
      PROVE  /\ disk'.inode[cur'[q]].type = "dir" => disk'.inode[cur'[q]].blk = 0
             /\ \A r \in Procs : pc'[r] = "new" /\ cur'[r] = cur'[q] => r = q
  <2>1. pc[q] = "new" /\ cur'[q] = cur[q]
    BY <1>3
  <2>2. cur[q] \in Inums
    BY <2>1 DEF Shape, ProcOK, RegsTyped
  <2>3. QED
    BY <2>1, <2>2 DEF BlocksKept
<1>4. QED
  BY <1>1, <1>2, <1>3 DEF BlocksKept

LEMMA ShapeKept ==
  ASSUME Shape, NEW p \in Procs, OthersStay(p), ProcOK(p)'
  PROVE  Shape'
<1>1. ASSUME NEW q \in Procs, q # p
      PROVE  ProcOK(q)'
  <2>1. ProcOK(q)
    BY DEF Shape
  <2>2. QED
    BY <1>1, <2>1 DEF ProcOK, OthersStay
<1>2. QED
  BY <1>1 DEF Shape

\* A step that takes no lock, gives none back and leaves the disk alone.
LEMMA QuietStep ==
  ASSUME Inv, NEW p \in Procs, OthersStay(p), disk' = disk, lock' = lock,
         stage[p] # 1, stage'[p] # 1, par[p] = 0, par'[p] = 0,
         pc'[p] \notin {"new", "child"}, old'[p] \in {0, old[p]},
         pc'[p] = "dir" => disk.inode[cur'[p]].type = "dir",
         \A j \in Inums : \/ mem'[j] = mem[j] \/ mem'[j] = NoInode
                          \/ mem'[j] = disk.inode[j] /\ disk.inode[j].type # "free",
         TypeOK', RefsExact', FilesUsed', ProcOK(p)'
  PROVE  Inv'
<1> USE DEF Inv
<1>1. Shape'
  BY ShapeKept
<1>2. LocksHeld'
  <2>1. ASSUME NEW i \in Inums, NEW q \in Procs, lock'[i] = q
        PROVE  par'[q] = i \/ (stage'[q] = 1 /\ Head(put'[q]) = i)
    <3>1. lock[i] = q /\ (par[q] = i \/ (stage[q] = 1 /\ Head(put[q]) = i))
      BY <2>1 DEF LocksHeld
    <3>2. q # p
      BY <3>1, 0 \notin Inums DEF Inums
    <3>3. QED
      BY <3>1, <3>2 DEF OthersStay
  <2>2. ASSUME NEW q \in Procs
        PROVE  /\ par'[q] # 0 => lock'[par'[q]] = q
               /\ stage'[q] = 1 => lock'[Head(put'[q])] = q
    <3>1. CASE q = p
      BY <3>1
    <3>2. CASE q # p
      BY <3>2 DEF OthersStay, LocksHeld
    <3>3. QED
      BY <3>1, <3>2
  <2>3. QED
    BY <2>1, <2>2 DEF LocksHeld
<1>3. CacheFits'
  BY CacheKept
<1>4. ASSUME NEW q \in Procs
      PROVE  Reached(q)'
  <2>1. CASE q = p
    <3>1. Reached(p)
      OBVIOUS
    <3>2. QED
      BY <2>1, <3>1 DEF Reached
  <2>2. CASE q # p
    <3>1. ProcOK(q) /\ Reached(q)
      BY DEF Shape
    <3>2. QED
      BY <2>2, <3>1, ReachedKept
  <2>3. QED
    BY <2>1, <2>2
<1>5. OnlyDirs'
  BY DEF OnlyDirs
<1>6. \A q \in Procs : pc'[q] = "new" => pc[q] = "new" /\ par'[q] = par[q] /\ cur'[q] = cur[q]
  BY DEF OthersStay
<1>7. Ranked'
  BY <1>6, RankKept
<1>8. BlocksKept'
  BY <1>6, TypeParts, BlocksSame
<1>9. QED
  BY <1>1, <1>2, <1>3, <1>4, <1>5, <1>7, <1>8

\* What a process may be about to do, with what it holds then.
Fits(l, c, o, puts) ==
  /\ l \in Pcs \ {"new", "child", "panic"} /\ Len(puts) <= 2
  /\ l \in {"user", "end"} => c = 0 /\ o = 0
  /\ l = "user" <=> l \in {"user", "end"} /\ puts = <<>>
  /\ l \in {"namei", "parent", "dir", "found"} => c # 0
  /\ l \in {"namei", "found"} => o = 0
  /\ l = "bad" => o # 0 /\ c = 0

LEMMA FitsOK ==
  ASSUME NEW p \in Procs, NEW l, NEW c, NEW o, NEW puts, Fits(l, c, o, puts),
         pc'[p] = l, cur'[p] = c, par'[p] = 0, old'[p] = o, put'[p] = puts, stage'[p] = 0,
         cwd'[p] = 0 => l \in {"user", "end"} /\ \A fd \in 1..NOFILE : ofile'[p][fd] = 0
  PROVE  ProcOK(p)'
BY DEF Fits, ProcOK

\* A step along a path, or one that gives a path up.
LEMMA PathStep ==
  ASSUME Inv, NEW p \in Procs, stage[p] = 0, par[p] = 0, cwd[p] # 0,
         NEW l, NEW c \in {0} \cup Inums, NEW o \in {0, old[p]}, NEW puts \in Seq(Inums),
         Fits(l, c, o, puts), Goto(p, l, c, 0, o, puts), UNCHANGED <<disk, lock, table>>,
         l = "dir" => disk.inode[c].type = "dir",
         mem' \in [Inums -> Dinode \cup {NoInode}],
         \A j \in Inums : \/ mem'[j] = mem[j]
                          \/ mem'[j] = disk.inode[j] /\ disk.inode[j].type # "free",
         ref' \in [Inums -> Nat],
         \A j \in Inums : ref'[j] = ref[j] - (Same(cur[p], j) + Same(old[p], j) + InPut(put[p], j))
                                    + (Same(c, j) + Same(o, j) + InPut(puts, j))
  PROVE  Inv'
<1>1. TypeOK /\ RefsExact /\ RegsTyped /\ CacheTyped /\ TableTyped
  BY TypeParts DEF Inv
<1>2. o \in {0} \cup Inums /\ 0 \in {0} \cup Inums /\ l \in Pcs
  BY <1>1 DEF RegsTyped, Fits
<1>3. /\ RegsTyped' /\ stage' = stage
      /\ pc'[p] = l /\ cur'[p] = c /\ par'[p] = 0 /\ old'[p] = o /\ put'[p] = puts
      /\ \A q \in Procs \ {p} :
           /\ pc'[q] = pc[q] /\ cur'[q] = cur[q] /\ par'[q] = par[q]
           /\ old'[q] = old[q] /\ put'[q] = put[q]
  <2>1. RegsTyped /\ l \in Pcs /\ o \in {0} \cup Inums
    BY <1>1, <1>2
  <2>2. RegsTyped'
    BY <2>1, <1>2, GotoDoes
  <2>3. QED
    BY <2>1 DEF Goto, RegsTyped
<1>4. /\ disk' = disk /\ lock' = lock /\ file' = file /\ ofile' = ofile /\ cwd' = cwd
  BY DEF table
<1>5. OthersStay(p)
  BY <1>3, <1>4 DEF OthersStay
<1>6. TypeOK'
  <2>1. CacheTyped'
    BY <1>1, <1>4 DEF CacheTyped
  <2>2. TableTyped' /\ DiskOK(disk)'
    BY <1>1, <1>4, TypeParts DEF TableTyped
  <2>3. QED
    BY <1>3, <2>1, <2>2, TypePartsNext
<1>7. RefsExact'
  <2>1. ASSUME NEW j \in Inums
        PROVE  ref'[j] = ref[j] - Own(p, j) + Own(p, j)'
    <3>1. /\ Same(par[p], j) = 0 /\ Same(0, j) = 0
          /\ Same(cur[p], j) \in Nat /\ Same(old[p], j) \in Nat /\ Same(cwd[p], j) \in Nat
          /\ Same(c, j) \in Nat /\ Same(o, j) \in Nat
          /\ InPut(put[p], j) \in Nat /\ InPut(puts, j) \in Nat
      BY DEF Same, InPut, Inums
    <3>2. Own(p, j)' = Same(cwd[p], j) + Same(c, j) + Same(0, j) + Same(o, j) + InPut(puts, j)
      BY <1>3, <1>4 DEF Own, Same, InPut
    <3>3. Own(p, j) = Same(cwd[p], j) + Same(cur[p], j) + Same(par[p], j) + Same(old[p], j)
                      + InPut(put[p], j)
      BY DEF Own
    <3>4. ref[j] \in Nat
      BY <1>1 DEF CacheTyped
    <3>5. QED
      BY <3>1, <3>2, <3>3, <3>4
  <2>2. QED
    BY <1>1, <1>3, <1>4, <1>5, <2>1, RefsKept
<1>8. FilesUsed'
  BY <1>4 DEF Inv, FilesUsed
<1>9. ProcOK(p)'
  BY <1>3, <1>4, FitsOK
<1>10. pc'[p] \notin {"new", "child"}
  BY <1>3 DEF Fits
<1>11. QED
  BY <1>3, <1>4, <1>5, <1>6, <1>7, <1>8, <1>9, <1>10, QuietStep

-----------------------------------------------------------------------------
(* The steps along a path. *)

LEMMA IgetDoes ==
  ASSUME CacheTyped, NEW k \in Inums, iget(k)
  PROVE  ref' \in [Inums -> Nat] /\ \A j \in Inums : ref'[j] = ref[j] + Same(k, j)
BY DEF iget, CacheTyped, Same

LEMMA SeenDoes ==
  ASSUME CacheTyped, NEW i \in Inums, Seen(i), Load(i) = disk.inode[i], disk.inode[i] \in Dinode,
         Load(i).type # "free"
  PROVE  /\ mem' \in [Inums -> Dinode \cup {NoInode}]
         /\ \A j \in Inums : \/ mem'[j] = mem[j]
                             \/ mem'[j] = disk.inode[j] /\ disk.inode[j].type # "free"
BY DEF Seen, CacheTyped

LEMMA SeqsOfInums ==
  /\ <<>> \in Seq(Inums) /\ Len(<<>>) = 0
  /\ \A a \in Inums : <<a>> \in Seq(Inums) /\ Len(<<a>>) = 1 /\ <<a>> # <<>>
  /\ \A a, b \in Inums : <<a, b>> \in Seq(Inums) /\ Len(<<a, b>>) = 2 /\ <<a, b>> # <<>>
OBVIOUS

LEMMA SameIs ==
  /\ \A j \in Inums : Same(0, j) = 0
  /\ \A a, j : Same(a, j) \in 0..1
BY DEF Same, Inums

\* Where a process is that waits for the lock of cur[p] and may go on.
LEMMA AtStep ==
  ASSUME Inv, NEW p \in Procs, NEW l \in {"namei", "parent", "dir", "found"}, At(p, l, cur[p])
  PROVE  /\ cur[p] \in Inums /\ stage[p] = 0 /\ par[p] = 0 /\ cwd[p] \in Inums /\ cwd[p] # 0
         /\ put[p] = <<>> /\ old[p] \in {0} \cup Inums
         /\ l \in {"namei", "found"} => old[p] = 0
         /\ lock[cur[p]] = NoProc /\ CacheTyped
         /\ Load(cur[p]) = disk.inode[cur[p]] /\ disk.inode[cur[p]] \in Dinode
         /\ mem[cur[p]] = NoInode \/ disk.inode[cur[p]].type # "free"
<1>1. /\ TypeOK /\ Shape /\ CacheFits
  BY DEF Inv
<1>2. /\ pc[p] = l /\ cur[p] \in Inums /\ lock[cur[p]] = NoProc /\ put[p] = <<>> /\ stage[p] = 0
      /\ Load(cur[p]) = disk.inode[cur[p]] /\ disk.inode[cur[p]] \in Dinode /\ cwd[p] \in Inums
      /\ mem[cur[p]] = NoInode \/ disk.inode[cur[p]].type # "free"
  BY <1>1, AtCur
<1>3. ProcOK(p) /\ old[p] \in {0} \cup Inums /\ CacheTyped
  BY <1>1, TypeParts DEF Shape, RegsTyped
<1>4. par[p] = 0 /\ (l \in {"namei", "found"} => old[p] = 0)
  BY <1>2, <1>3 DEF ProcOK
<1>5. cwd[p] # 0
  BY <1>2 DEF Inums
<1>6. QED
  BY <1>2, <1>3, <1>4, <1>5

LEMMA BeginKeeps ==
  ASSUME Inv, NEW p \in Procs, Begin(p)
  PROVE  Inv'
<1>1. /\ pc[p] = "user" /\ cwd[p] # 0 /\ cwd[p] \in Inums /\ cur[p] = 0 /\ par[p] = 0 /\ old[p] = 0
      /\ put[p] = <<>> /\ stage[p] = 0 /\ CacheTyped
  <2>1. ProcOK(p) /\ RegsTyped /\ TableTyped /\ CacheTyped /\ pc[p] = "user" /\ cwd[p] # 0
    BY TypeParts DEF Inv, Shape, Begin
  <2>2. QED
    BY <2>1 DEF ProcOK, RegsTyped, TableTyped
<1>2. PICK l \in {"namei", "parent"}, start \in {Root, cwd[p]} :
        iget(start) /\ Goto(p, l, start, 0, 0, <<>>)
  BY DEF Begin
<1>3. start \in Inums /\ start # 0
  BY <1>1, FileSysAssumption DEF Inums, Root
<1>4. mem' = mem /\ UNCHANGED <<disk, lock, table>>
  BY DEF Begin
<1>5. ref' \in [Inums -> Nat] /\ \A j \in Inums : ref'[j] = ref[j] + Same(start, j)
  BY <1>1, <1>2, <1>3, IgetDoes
<1>6. Fits(l, start, 0, <<>>)
  BY <1>2, <1>3 DEF Fits, Pcs
<1>7. ASSUME NEW j \in Inums
      PROVE  ref'[j] = ref[j] - (Same(cur[p], j) + Same(old[p], j) + InPut(put[p], j))
                       + (Same(start, j) + Same(0, j) + InPut(<<>>, j))
  <2>1. ref[j] \in Nat
    BY <1>1 DEF CacheTyped
  <2>2. QED
    BY <1>1, <1>5, <2>1, InPutIs, SameIs
<1>8. mem' \in [Inums -> Dinode \cup {NoInode}]
  BY <1>1, <1>4 DEF CacheTyped
<1>9. <<>> \in Seq(Inums) /\ start \in {0} \cup Inums /\ 0 \in {0, old[p]} /\ l # "dir"
  BY <1>2, <1>3
<1>10. QED
  BY <1>1, <1>2, <1>4, <1>5, <1>6, <1>7, <1>8, <1>9, PathStep

LEMMA Rearranged ==
  ASSUME NEW r \in Nat, NEW s \in Nat, NEW a \in Nat, NEW b \in Nat, NEW c \in Nat,
         NEW d \in Nat, NEW e \in Nat, s + a + b = r + c + d + e
  PROVE  s = r - (a + b + 0) + (c + d + e)
OBVIOUS

\* A step from the lock of cur[p] that writes nothing.
LEMMA CurStep ==
  ASSUME Inv, NEW p \in Procs, NEW m \in {"namei", "parent", "dir", "found"}, At(p, m, cur[p]),
         Load(cur[p]).type # "free", Seen(cur[p]), UNCHANGED <<disk, lock, table>>,
         NEW l, NEW c \in {0} \cup Inums, NEW o \in {0, old[p]}, NEW puts \in Seq(Inums),
         Fits(l, c, o, puts), Goto(p, l, c, 0, o, puts),
         l = "dir" => disk.inode[c].type = "dir",
         ref' \in [Inums -> Nat],
         \A j \in Inums : ref'[j] + Same(cur[p], j) + Same(old[p], j)
                          = ref[j] + Same(c, j) + Same(o, j) + InPut(puts, j)
  PROVE  Inv'
<1>1. /\ cur[p] \in Inums /\ stage[p] = 0 /\ par[p] = 0 /\ cwd[p] # 0 /\ put[p] = <<>>
      /\ CacheTyped /\ Load(cur[p]) = disk.inode[cur[p]] /\ disk.inode[cur[p]] \in Dinode
  BY AtStep, Zenon
<1>2. /\ mem' \in [Inums -> Dinode \cup {NoInode}]
      /\ \A j \in Inums : \/ mem'[j] = mem[j]
                          \/ mem'[j] = disk.inode[j] /\ disk.inode[j].type # "free"
  BY <1>1, SeenDoes
<1>3. ASSUME NEW j \in Inums
      PROVE  ref'[j] = ref[j] - (Same(cur[p], j) + Same(old[p], j) + InPut(put[p], j))
                       + (Same(c, j) + Same(o, j) + InPut(puts, j))
  <2>1. InPut(put[p], j) = 0
    BY <1>1, InPutIs
  <2>a. InPut(puts, j) \in Nat
    BY DEF InPut
  <2>2. ref[j] \in Nat /\ ref'[j] \in Nat
    BY <1>1 DEF CacheTyped
  <2>3. /\ Same(cur[p], j) \in Nat /\ Same(old[p], j) \in Nat
        /\ Same(c, j) \in Nat /\ Same(o, j) \in Nat
    BY DEF Same
  <2>4. ref'[j] + Same(cur[p], j) + Same(old[p], j)
        = ref[j] + Same(c, j) + Same(o, j) + InPut(puts, j)
    OBVIOUS
  <2>5. QED
    <3>1. PICK r \in Nat, s \in Nat, a \in Nat, b \in Nat, d \in Nat, e \in Nat, f \in Nat :
            /\ r = ref[j] /\ s = ref'[j] /\ a = Same(cur[p], j) /\ b = Same(old[p], j)
            /\ d = Same(c, j) /\ e = Same(o, j) /\ f = InPut(puts, j)
      BY <2>2, <2>3, <2>a
    <3>2. s + a + b = r + d + e + f
      BY <3>1, <2>4
    <3>3. s = r - (a + b + 0) + (d + e + f)
      BY <3>2, Rearranged
    <3>4. QED
      BY <3>1, <3>3, <2>1
<1>4. QED
  BY <1>1, <1>2, <1>3, PathStep

LEMMA StopsEarlyKeeps ==
  ASSUME Inv, NEW p \in Procs, StopsEarly(p)
  PROVE  Inv'
<1>1. /\ At(p, "parent", cur[p]) /\ Load(cur[p]).type = "dir" /\ Seen(cur[p])
      /\ Goto(p, "dir", cur[p], 0, old[p], <<>>)
      /\ ref' = ref /\ UNCHANGED <<disk, lock, table>>
  BY DEF StopsEarly
<1>2. /\ cur[p] \in Inums /\ cur[p] # 0 /\ CacheTyped /\ Load(cur[p]) = disk.inode[cur[p]]
  BY <1>1, AtStep DEF Inums
<1>3. Fits("dir", cur[p], old[p], <<>>)
  BY <1>2 DEF Fits, Pcs
<1>4. ref' \in [Inums -> Nat]
  BY <1>1, <1>2 DEF CacheTyped
<1>5. \A j \in Inums : ref'[j] + Same(cur[p], j) + Same(old[p], j)
                       = ref[j] + Same(cur[p], j) + Same(old[p], j) + InPut(<<>>, j)
  BY <1>1, <1>2, InPutIs DEF CacheTyped, Same
<1>6. <<>> \in Seq(Inums) /\ cur[p] \in {0} \cup Inums /\ old[p] \in {0, old[p]}
  BY <1>2
<1>7. QED
  BY <1>1, <1>2, <1>3, <1>4, <1>5, <1>6, CurStep

\* The names and the "." and ".." of a directory are inodes.
LEMMA EntryIs ==
  ASSUME Inv, NEW i \in Inums, NEW e \in Entries
  PROVE  disk.dir[i][e] \in {0} \cup Inums
BY DEF Inv, TypeOK, DiskOK

LEMMA WalkKeeps ==
  ASSUME Inv, NEW p \in Procs, NEW l \in {"namei", "parent"}, Walk(p, l)
  PROVE  Inv'
<1>1. PICK e \in Entries :
        /\ disk.dir[cur[p]][e] # 0 /\ iget(disk.dir[cur[p]][e])
        /\ Goto(p, l, disk.dir[cur[p]][e], 0, old[p], <<cur[p]>>)
  BY DEF Walk
<1>2. PICK next : next = disk.dir[cur[p]][e]
  OBVIOUS
<1>3. /\ At(p, l, cur[p]) /\ Load(cur[p]).type = "dir" /\ Seen(cur[p])
      /\ UNCHANGED <<disk, lock, table>>
  BY DEF Walk
<1>4. /\ cur[p] \in Inums /\ cur[p] # 0 /\ CacheTyped /\ (l = "namei" => old[p] = 0)
  <2>1. l \in {"namei", "parent", "dir", "found"} /\ At(p, l, cur[p])
    BY <1>3
  <2>2. cur[p] \in Inums /\ CacheTyped /\ (l = "namei" => old[p] = 0)
    BY <2>1, AtStep
  <2>3. QED
    BY <2>2 DEF Inums
<1>5. next \in Inums /\ next # 0
  BY <1>1, <1>2, <1>4, EntryIs
<1>6. Fits(l, next, old[p], <<cur[p]>>)
  BY <1>4, <1>5, SeqsOfInums DEF Fits, Pcs
<1>7. ref' \in [Inums -> Nat] /\ \A j \in Inums : ref'[j] = ref[j] + Same(next, j)
  BY <1>1, <1>2, <1>4, <1>5, IgetDoes
<1>8. \A j \in Inums : ref'[j] + Same(cur[p], j) + Same(old[p], j)
                       = ref[j] + Same(next, j) + Same(old[p], j) + InPut(<<cur[p]>>, j)
  BY <1>4, <1>7, InPutIs DEF CacheTyped, Same
<1>9. <<cur[p]>> \in Seq(Inums) /\ next \in {0} \cup Inums /\ old[p] \in {0, old[p]}
  BY <1>4, <1>5
<1>10. QED
  BY <1>1, <1>2, <1>3, <1>6, <1>7, <1>8, <1>9, CurStep

\* Giving up with the inode that is locked to put, and no other pointer.
LEMMA LeaveStep ==
  ASSUME Inv, NEW p \in Procs, NEW m \in {"namei", "parent", "dir", "found"}, At(p, m, cur[p]),
         Load(cur[p]).type # "free", Seen(cur[p]), UNCHANGED <<disk, ref, lock, table>>,
         old[p] = 0, Leave(p, <<cur[p]>>)
  PROVE  Inv'
<1>1. cur[p] \in Inums /\ CacheTyped
  BY AtStep
<1>2. <<cur[p]>> \in Seq(Inums) /\ <<cur[p]>> # <<>> /\ Len(<<cur[p]>>) = 1
  BY <1>1
<1>3. Goto(p, "end", 0, 0, 0, <<cur[p]>>)
  BY <1>2 DEF Leave
<1>4. Fits("end", 0, 0, <<cur[p]>>)
  BY <1>2 DEF Fits, Pcs
<1>5. ref' \in [Inums -> Nat]
  BY <1>1 DEF CacheTyped
<1>6. \A j \in Inums : ref'[j] + Same(cur[p], j) + Same(old[p], j)
                       = ref[j] + Same(0, j) + Same(0, j) + InPut(<<cur[p]>>, j)
  BY <1>1, InPutIs DEF CacheTyped, Same, Inums
<1>7. 0 \in {0} \cup Inums /\ 0 \in {0, old[p]} /\ UNCHANGED <<disk, lock, table>>
  OBVIOUS
<1>8. QED
  BY <1>2, <1>3, <1>4, <1>5, <1>6, <1>7, CurStep

LEMMA WalkFailsKeeps ==
  ASSUME Inv, NEW p \in Procs, NEW l \in {"namei", "parent"}, WalkFails(p, l)
  PROVE  Inv'
<1>1. /\ At(p, l, cur[p]) /\ Load(cur[p]).type # "free" /\ Seen(cur[p])
      /\ UNCHANGED <<disk, ref, lock, table>>
  BY DEF WalkFails
<1>2. CASE old[p] = 0
  <2>1. Leave(p, <<cur[p]>>)
    BY <1>2 DEF WalkFails
  <2>2. QED
    BY <1>1, <1>2, <2>1, LeaveStep
<1>3. CASE old[p] # 0
  <2>1. Goto(p, "bad", 0, 0, old[p], <<cur[p]>>)
    BY <1>3 DEF WalkFails
  <2>2. cur[p] \in Inums /\ CacheTyped
    BY <1>1, AtStep
  <2>3. <<cur[p]>> \in Seq(Inums) /\ <<cur[p]>> # <<>> /\ Len(<<cur[p]>>) = 1
    BY <2>2
  <2>4. Fits("bad", 0, old[p], <<cur[p]>>)
    BY <1>3, <2>3 DEF Fits, Pcs
  <2>5. ref' \in [Inums -> Nat]
    BY <1>1, <2>2 DEF CacheTyped
  <2>6. \A j \in Inums : ref'[j] + Same(cur[p], j) + Same(old[p], j)
                         = ref[j] + Same(0, j) + Same(old[p], j) + InPut(<<cur[p]>>, j)
    BY <1>1, <2>2, InPutIs DEF CacheTyped, Same, Inums
  <2>7. 0 \in {0} \cup Inums /\ old[p] \in {0, old[p]} /\ UNCHANGED <<disk, lock, table>>
    BY <1>1
  <2>8. QED
    BY <1>1, <2>1, <2>3, <2>4, <2>5, <2>6, <2>7, CurStep
<1>4. QED
  BY <1>2, <1>3

LEMMA RefusedKeeps ==
  ASSUME Inv, NEW p \in Procs, NEW l \in {"namei", "found", "dir"}, Refused(p, l), old[p] = 0
  PROVE  Inv'
BY LeaveStep DEF Refused

LEMMA CreateFindsKeeps ==
  ASSUME Inv, NEW p \in Procs, CreateFinds(p)
  PROVE  Inv'
<1>1. PICK e \in Entries :
        /\ disk.dir[cur[p]][e] # 0 /\ iget(disk.dir[cur[p]][e])
        /\ Goto(p, "found", disk.dir[cur[p]][e], 0, 0, <<cur[p]>>)
  BY DEF CreateFinds
<1>2. PICK i : i = disk.dir[cur[p]][e]
  OBVIOUS
<1>3. /\ At(p, "dir", cur[p]) /\ Load(cur[p]).type # "free" /\ Seen(cur[p]) /\ old[p] = 0
      /\ UNCHANGED <<disk, lock, table>>
  BY DEF CreateFinds
<1>4. cur[p] \in Inums /\ cur[p] # 0 /\ CacheTyped
  BY <1>3, AtStep DEF Inums
<1>5. i \in Inums /\ i # 0
  BY <1>1, <1>2, <1>4, EntryIs
<1>6. Fits("found", i, 0, <<cur[p]>>)
  BY <1>4, <1>5, SeqsOfInums DEF Fits, Pcs
<1>7. ref' \in [Inums -> Nat] /\ \A j \in Inums : ref'[j] = ref[j] + Same(i, j)
  BY <1>1, <1>2, <1>4, <1>5, IgetDoes
<1>8. \A j \in Inums : ref'[j] + Same(cur[p], j) + Same(old[p], j)
                       = ref[j] + Same(i, j) + Same(0, j) + InPut(<<cur[p]>>, j)
  BY <1>3, <1>4, <1>7, InPutIs DEF CacheTyped, Same
<1>9. <<cur[p]>> \in Seq(Inums) /\ i \in {0} \cup Inums /\ 0 \in {0, old[p]}
  BY <1>4, <1>5
<1>10. QED
  BY <1>1, <1>2, <1>3, <1>6, <1>7, <1>8, <1>9, CurStep

LEMMA LinkExistsKeeps ==
  ASSUME Inv, NEW p \in Procs, LinkExists(p)
  PROVE  Inv'
<1>1. PICK e \in Entries :
        /\ disk.dir[cur[p]][e] # 0 /\ iget(disk.dir[cur[p]][e])
        /\ Goto(p, "bad", 0, 0, old[p], <<disk.dir[cur[p]][e], cur[p]>>)
  BY DEF LinkExists
<1>2. PICK i : i = disk.dir[cur[p]][e]
  OBVIOUS
<1>3. /\ At(p, "dir", cur[p]) /\ Load(cur[p]).type # "free" /\ Seen(cur[p]) /\ old[p] # 0
      /\ UNCHANGED <<disk, lock, table>>
  BY DEF LinkExists
<1>4. cur[p] \in Inums /\ cur[p] # 0 /\ CacheTyped
  BY <1>3, AtStep DEF Inums
<1>5. i \in Inums /\ i # 0
  BY <1>1, <1>2, <1>4, EntryIs
<1>6. Fits("bad", 0, old[p], <<i, cur[p]>>)
  BY <1>3, <1>4, <1>5, SeqsOfInums DEF Fits, Pcs
<1>7. ref' \in [Inums -> Nat] /\ \A j \in Inums : ref'[j] = ref[j] + Same(i, j)
  BY <1>1, <1>2, <1>4, <1>5, IgetDoes
<1>8. \A j \in Inums : ref'[j] + Same(cur[p], j) + Same(old[p], j)
                       = ref[j] + Same(0, j) + Same(old[p], j) + InPut(<<i, cur[p]>>, j)
  BY <1>4, <1>7, InPutIs DEF CacheTyped, Same, Inums
<1>9. <<i, cur[p]>> \in Seq(Inums) /\ 0 \in {0} \cup Inums /\ old[p] \in {0, old[p]}
  BY <1>4, <1>5
<1>10. QED
  BY <1>1, <1>2, <1>3, <1>6, <1>7, <1>8, <1>9, CurStep

-----------------------------------------------------------------------------
(* Current directories, and references that are given back. *)

\* A quiet step that opens and closes nothing.
LEMMA QuietRefs ==
  ASSUME Inv, NEW p \in Procs, stage[p] # 1, stage'[p] # 1, par[p] = 0, par'[p] = 0,
         RegsTyped', OthersStay(p), UNCHANGED <<disk, lock, file, ofile>>,
         cwd' \in [Procs -> {0} \cup Inums],
         pc'[p] \notin {"new", "child", "dir"} \/ (pc'[p] = pc[p] /\ cur'[p] = cur[p] /\ pc[p] \notin {"new", "child"}),
         old'[p] \in {0, old[p]}, ProcOK(p)',
         mem' \in [Inums -> Dinode \cup {NoInode}],
         \A j \in Inums : \/ mem'[j] = mem[j] \/ mem'[j] = NoInode
                          \/ mem'[j] = disk.inode[j] /\ disk.inode[j].type # "free",
         ref' \in [Inums -> Nat],
         \A j \in Inums : ref'[j] = ref[j] - Own(p, j) + Own(p, j)'
  PROVE  Inv'
<1>1. TypeOK /\ RefsExact /\ RegsTyped /\ CacheTyped /\ TableTyped /\ Reached(p)
  BY TypeParts DEF Inv
<1>2. disk' = disk /\ lock' = lock /\ file' = file /\ ofile' = ofile
  OBVIOUS
<1>3. TypeOK'
  <2>1. CacheTyped'
    BY <1>1, <1>2 DEF CacheTyped
  <2>2. TableTyped' /\ DiskOK(disk)'
    BY <1>1, <1>2, TypeParts DEF TableTyped
  <2>3. QED
    BY <2>1, <2>2, TypePartsNext
<1>4. put'[p] \in Seq(Inums)
  BY DEF RegsTyped
<1>5. RefsExact'
  BY <1>1, <1>2, <1>4, RefsKept
<1>6. FilesUsed'
  BY <1>2 DEF Inv, FilesUsed
<1>7. pc'[p] \notin {"new", "child"} /\ (pc'[p] = "dir" => disk.inode[cur'[p]].type = "dir")
  BY <1>1 DEF Reached
<1>8. QED
  BY <1>2, <1>3, <1>5, <1>6, <1>7, QuietStep

LEMMA ChdirKeeps ==
  ASSUME Inv, NEW p \in Procs, Chdir(p)
  PROVE  Inv'
<1>1. /\ At(p, "namei", cur[p]) /\ Load(cur[p]).type = "dir" /\ Seen(cur[p])
      /\ Leave(p, <<cwd[p]>>) /\ cwd' = [cwd EXCEPT ![p] = cur[p]]
      /\ UNCHANGED <<disk, ref, lock, file, ofile>>
  BY DEF Chdir
<1>2. /\ cur[p] \in Inums /\ stage[p] = 0 /\ par[p] = 0 /\ cwd[p] \in Inums /\ cwd[p] # 0
      /\ put[p] = <<>> /\ old[p] = 0 /\ CacheTyped
      /\ Load(cur[p]) = disk.inode[cur[p]] /\ disk.inode[cur[p]] \in Dinode
  BY <1>1, AtStep
<1>3. RegsTyped /\ TableTyped
  BY TypeParts DEF Inv
<1>4. <<cwd[p]>> \in Seq(Inums) /\ <<cwd[p]>> # <<>> /\ Len(<<cwd[p]>>) = 1
  BY <1>2
<1>5. Goto(p, "end", 0, 0, 0, <<cwd[p]>>)
  BY <1>1, <1>4 DEF Leave
<1>6. "end" \in Pcs /\ 0 \in {0} \cup Inums
  BY DEF Pcs
<1>7. RegsTyped'
  BY <1>3, <1>4, <1>5, <1>6, GotoDoes
<1>8. /\ stage' = stage
      /\ pc'[p] = "end" /\ cur'[p] = 0 /\ par'[p] = 0 /\ old'[p] = 0 /\ put'[p] = <<cwd[p]>>
      /\ \A q \in Procs \ {p} :
           /\ pc'[q] = pc[q] /\ cur'[q] = cur[q] /\ par'[q] = par[q]
           /\ old'[q] = old[q] /\ put'[q] = put[q]
  BY <1>3, <1>5 DEF Goto, RegsTyped
<1>9. cwd' \in [Procs -> {0} \cup Inums] /\ cwd'[p] = cur[p] /\ \A q \in Procs \ {p} : cwd'[q] = cwd[q]
  BY <1>1, <1>2, <1>3 DEF TableTyped
<1>10. OthersStay(p)
  BY <1>1, <1>8, <1>9 DEF OthersStay
<1>11. /\ mem' \in [Inums -> Dinode \cup {NoInode}]
       /\ \A j \in Inums : \/ mem'[j] = mem[j]
                           \/ mem'[j] = disk.inode[j] /\ disk.inode[j].type # "free"
  BY <1>1, <1>2, SeenDoes
<1>12. ASSUME NEW j \in Inums
       PROVE  ref'[j] = ref[j] - Own(p, j) + Own(p, j)'
  <2>1. Own(p, j) = Same(cwd[p], j) + Same(cur[p], j) + 0 + 0 + 0
    BY <1>2, InPutIs DEF Own, Same, Inums
  <2>2. Own(p, j)' = Same(cur[p], j) + 0 + 0 + 0 + Same(cwd[p], j)
    BY <1>8, <1>9, InPutIs DEF Own, Same, Inums
  <2>3. ref'[j] = ref[j] /\ ref[j] \in Nat
    BY <1>1, <1>2 DEF CacheTyped
  <2>4. QED
    BY <2>1, <2>2, <2>3 DEF Same
<1>13. Fits("end", 0, 0, <<cwd[p]>>)
  BY <1>4 DEF Fits, Pcs
<1>14. ProcOK(p)'
  BY <1>2, <1>8, <1>9, <1>13, FitsOK DEF Inums
<1>15. ref' \in [Inums -> Nat]
  BY <1>1, <1>2 DEF CacheTyped
<1>16. QED
  BY <1>1, <1>2, <1>7, <1>8, <1>9, <1>10, <1>11, <1>12, <1>14, <1>15, QuietRefs

LEMMA ExitKeeps ==
  ASSUME Inv, NEW p \in Procs, Exit(p)
  PROVE  Inv'
<1>1. /\ pc[p] = "user" /\ cwd[p] # 0 /\ FreeFds(p) = 1..NOFILE
      /\ Leave(p, <<cwd[p]>>) /\ cwd' = [cwd EXCEPT ![p] = 0]
      /\ UNCHANGED <<disk, ref, mem, lock, file, ofile>>
  BY DEF Exit, cache
<1>2. RegsTyped /\ TableTyped /\ CacheTyped /\ ProcOK(p)
  BY TypeParts DEF Inv, Shape
<1>3. /\ cwd[p] \in Inums /\ cur[p] = 0 /\ par[p] = 0 /\ old[p] = 0
      /\ put[p] = <<>> /\ stage[p] = 0
  BY <1>1, <1>2 DEF ProcOK, TableTyped, RegsTyped
<1>4. <<cwd[p]>> \in Seq(Inums) /\ <<cwd[p]>> # <<>> /\ Len(<<cwd[p]>>) = 1
  BY <1>3
<1>5. Goto(p, "end", 0, 0, 0, <<cwd[p]>>)
  BY <1>1, <1>4 DEF Leave
<1>6. "end" \in Pcs /\ 0 \in {0} \cup Inums
  BY DEF Pcs
<1>7. RegsTyped'
  BY <1>2, <1>4, <1>5, <1>6, GotoDoes
<1>8. /\ stage' = stage
      /\ pc'[p] = "end" /\ cur'[p] = 0 /\ par'[p] = 0 /\ old'[p] = 0 /\ put'[p] = <<cwd[p]>>
      /\ \A q \in Procs \ {p} :
           /\ pc'[q] = pc[q] /\ cur'[q] = cur[q] /\ par'[q] = par[q]
           /\ old'[q] = old[q] /\ put'[q] = put[q]
  BY <1>2, <1>5 DEF Goto, RegsTyped
<1>9. cwd' \in [Procs -> {0} \cup Inums] /\ cwd'[p] = 0 /\ \A q \in Procs \ {p} : cwd'[q] = cwd[q]
  BY <1>1, <1>2 DEF TableTyped
<1>10. OthersStay(p)
  BY <1>1, <1>8, <1>9 DEF OthersStay
<1>11. mem' \in [Inums -> Dinode \cup {NoInode}] /\ \A j \in Inums : mem'[j] = mem[j]
  BY <1>1, <1>2 DEF CacheTyped
<1>12. ASSUME NEW j \in Inums
       PROVE  ref'[j] = ref[j] - Own(p, j) + Own(p, j)'
  <2>1. Own(p, j) = Same(cwd[p], j)
    BY <1>3, InPutIs DEF Own, Same, Inums
  <2>2. Own(p, j)' = Same(cwd[p], j)
    BY <1>8, <1>9, InPutIs DEF Own, Same, Inums
  <2>3. ref'[j] = ref[j] /\ ref[j] \in Nat
    BY <1>1, <1>2 DEF CacheTyped
  <2>4. QED
    BY <2>1, <2>2, <2>3 DEF Same
<1>13. Fits("end", 0, 0, <<cwd[p]>>)
  BY <1>4 DEF Fits, Pcs
<1>14. ProcOK(p)'
  <2>1. \A fd \in 1..NOFILE : ofile'[p][fd] = 0
    BY <1>1 DEF FreeFds
  <2>2. QED
    BY <2>1, <1>3, <1>8, <1>13, FitsOK
<1>15. ref' \in [Inums -> Nat]
  BY <1>1, <1>2 DEF CacheTyped
<1>16. QED
  BY <1>1, <1>3, <1>7, <1>8, <1>9, <1>10, <1>11, <1>12, <1>14, <1>15, QuietRefs

LEMMA InPutByLength ==
  ASSUME NEW s, NEW j
  PROVE  /\ Len(s) = 0 => InPut(s, j) = 0
         /\ Len(s) = 1 => InPut(s, j) = Same(s[1], j)
         /\ Len(s) = 2 => InPut(s, j) = Same(s[1], j) + Same(s[2], j)
<1>1. PICK n : n = Len(s)
  OBVIOUS
<1>2. InPut(s, j) = (IF n >= 1 /\ s[1] = j THEN 1 ELSE 0) + (IF n >= 2 /\ s[2] = j THEN 1 ELSE 0)
  BY <1>1 DEF InPut
<1>3. n = 0 => InPut(s, j) = 0
  BY <1>2
<1>4. n = 1 => InPut(s, j) = Same(s[1], j)
  BY <1>2 DEF Same
<1>5. n = 2 => InPut(s, j) = Same(s[1], j) + Same(s[2], j)
  BY <1>2 DEF Same
<1>6. QED
  BY <1>1, <1>3, <1>4, <1>5

LEMMA TailIs ==
  ASSUME NEW s \in Seq(Inums), s # <<>>, Len(s) <= 2
  PROVE  /\ Tail(s) \in Seq(Inums) /\ Len(Tail(s)) = Len(s) - 1
         /\ Len(s) \in 1..2 /\ (Tail(s) = <<>> <=> Len(s) = 1)
         /\ Head(s) \in Inums
         /\ \A j : InPut(s, j) = Same(Head(s), j) + InPut(Tail(s), j)
<1>1. /\ Tail(s) \in Seq(Inums) /\ Len(Tail(s)) = Len(s) - 1 /\ Head(s) = s[1] /\ Head(s) \in Inums
      /\ \A k \in 1..Len(Tail(s)) : Tail(s)[k] = s[k + 1]
  BY HeadTailProperties
<1>2. PICK t \in Seq(Inums) : t = Tail(s)
  BY <1>1
<1>3. PICK n, m : n = Len(s) /\ m = Len(t)
  OBVIOUS
<1>4. n \in Nat /\ n # 0
  BY <1>3, EmptySeq
<1>5. n <= 2
  BY <1>3
<1>6. m = n - 1 /\ n \in 1..2 /\ m \in 0..1 /\ (n = 1 \/ n = 2)
  <2>1. m = n - 1
    BY <1>1, <1>2, <1>3
  <2>2. QED
    BY <2>1, <1>4, <1>5
<1>7. t = <<>> <=> n = 1
  <2>1. t # <<>> => m \in Nat \ {0}
    BY <1>3, EmptySeq
  <2>2. t = <<>> => m = 0
    BY <1>3
  <2>3. QED
    BY <1>6, <2>1, <2>2
<1>8. n = 2 => t[1] = s[2]
  <2>1. ASSUME n = 2
        PROVE  t[1] = s[2]
    <3>1. m = 1 /\ 1 \in 1..m /\ 1 + 1 = 2
      BY <1>6, <2>1
    <3>2. t[1] = s[1 + 1]
      BY <1>1, <1>2, <1>3, <3>1
    <3>3. QED
      BY <3>1, <3>2
  <2>2. QED
    BY <2>1
<1>9. ASSUME NEW j
      PROVE  InPut(s, j) = Same(Head(s), j) + InPut(t, j)
  <2>0. /\ m = 0 => InPut(t, j) = 0
        /\ m = 1 => InPut(t, j) = Same(t[1], j)
        /\ n = 1 => InPut(s, j) = Same(s[1], j)
        /\ n = 2 => InPut(s, j) = Same(s[1], j) + Same(s[2], j)
    BY <1>3, InPutByLength
  <2>1. CASE n = 1
    BY <1>1, <1>6, <2>0, <2>1 DEF Same
  <2>2. CASE n = 2
    BY <1>1, <1>6, <1>8, <2>0, <2>2
  <2>3. QED
    BY <1>6, <2>1, <2>2
<1>10. QED
  BY <1>1, <1>2, <1>3, <1>6, <1>7, <1>9

\* iput() gives a reference back, and with the last one the entry.
LEMMA DerefStep ==
  ASSUME Inv, NEW p \in Procs, put[p] # <<>>, stage[p] # 1, NEW i, i = Head(put[p]),
         ref' = [ref EXCEPT ![i] = @ - 1],
         mem' = [mem EXCEPT ![i] = IF ref[i] = 1 THEN NoInode ELSE @],
         HasPut(p), stage' = [stage EXCEPT ![p] = 0], UNCHANGED <<disk, lock, table>>
  PROVE  Inv'
<1>1. /\ TypeOK /\ RefsExact /\ RegsTyped /\ CacheTyped /\ TableTyped /\ ProcOK(p)
  BY TypeParts DEF Inv, Shape
<1>2. i \in Inums /\ ref[i] \in Nat \ {0}
  BY <1>1, PutCounted
<1>3. pc[p] \in Pcs \ {"user", "new", "child", "panic"} /\ par[p] = 0 /\ put[p] \in Seq(Inums)
  BY <1>1 DEF ProcOK, RegsTyped, Pcs
<1>4. PICK s \in Seq(Inums) : s = Tail(put[p])
  BY <1>1, <1>3, TailIs DEF ProcOK
<1>5. /\ Len(put[p]) \in 1..2 /\ Len(s) = Len(put[p]) - 1 /\ (s = <<>> <=> Len(put[p]) = 1)
      /\ \A j : InPut(put[p], j) = Same(i, j) + InPut(s, j)
  <2>1. Len(put[p]) <= 2
    BY <1>1 DEF ProcOK
  <2>2. QED
    BY <1>3, <1>4, <2>1, TailIs
<1>6. PICK l \in Pcs : l = IF pc[p] = "end" /\ Len(put[p]) = 1 THEN "user" ELSE pc[p]
  BY <1>3 DEF Pcs
<1>7. /\ pc' = [pc EXCEPT ![p] = l] /\ put' = [put EXCEPT ![p] = s]
      /\ cur' = cur /\ par' = par /\ old' = old
  BY <1>4, <1>6 DEF HasPut
<1>8. /\ file' = file /\ ofile' = ofile /\ cwd' = cwd
  BY DEF table
<1>9. /\ pc'[p] = l /\ put'[p] = s /\ stage'[p] = 0
      /\ \A q \in Procs \ {p} : pc'[q] = pc[q] /\ put'[q] = put[q] /\ stage'[q] = stage[q]
      /\ RegsTyped'
  BY <1>1, <1>7 DEF RegsTyped
<1>10. OthersStay(p)
  BY <1>7, <1>8, <1>9 DEF OthersStay
<1>11. ASSUME NEW j \in Inums
       PROVE  ref'[j] = ref[j] - Own(p, j) + Own(p, j)'
  <2>1. Own(p, j)' = Same(cwd[p], j) + Same(cur[p], j) + Same(par[p], j) + Same(old[p], j)
                     + InPut(s, j)
    BY <1>7, <1>8, <1>9 DEF Own, Same, InPut
  <2>2. Own(p, j) = Same(cwd[p], j) + Same(cur[p], j) + Same(par[p], j) + Same(old[p], j)
                    + (Same(i, j) + InPut(s, j))
    BY <1>5 DEF Own
  <2>3. ref[j] \in Nat /\ ref'[j] = ref[j] - Same(i, j)
    BY <1>1, <1>2 DEF CacheTyped, Same
  <2>4. InPut(s, j) \in Nat
    BY DEF InPut
  <2>5. QED
    BY <2>1, <2>2, <2>3, <2>4 DEF Same
<1>12. /\ mem' \in [Inums -> Dinode \cup {NoInode}]
       /\ \A j \in Inums : mem'[j] = mem[j] \/ mem'[j] = NoInode
  BY <1>1, <1>2 DEF CacheTyped
<1>13. ref' \in [Inums -> Nat]
  <2>1. ref[i] - 1 \in Nat
    BY <1>2
  <2>2. QED
    BY <1>1, <1>2, <2>1 DEF CacheTyped
<1>14. ProcOK(p)'
  BY <1>1, <1>3, <1>5, <1>6, <1>7, <1>8, <1>9 DEF ProcOK
<1>15. /\ cwd' \in [Procs -> {0} \cup Inums] /\ disk' = disk /\ lock' = lock
       /\ stage'[p] # 1 /\ par'[p] = 0 /\ old'[p] \in {0, old[p]}
       /\ pc'[p] \notin {"new", "child", "dir"}
          \/ (pc'[p] = pc[p] /\ cur'[p] = cur[p] /\ pc[p] \notin {"new", "child"})
  BY <1>1, <1>3, <1>6, <1>7, <1>8, <1>9 DEF TableTyped
<1>16. QED
  BY <1>3, <1>8, <1>9, <1>10, <1>11, <1>12, <1>13, <1>14, <1>15, QuietRefs

LEMMA FreedDerefKeeps ==
  ASSUME Inv, NEW p \in Procs, FreedDeref(p)
  PROVE  Inv'
<1>1. ProcOK(p) /\ stage[p] = 2
  BY DEF Inv, Shape, FreedDeref
<1>2. put[p] # <<>> /\ stage[p] # 1
  BY <1>1 DEF ProcOK
<1>3. QED
  BY <1>2, DerefStep DEF FreedDeref

\* iput() of an inode that stays.
LEMMA IputDerefKeeps ==
  ASSUME Inv, NEW p \in Procs, iput(p), NEW i, i = Head(put[p]),
         ~(ref[i] = 1 /\ mem[i] # NoInode /\ mem[i].nlink = 0)
  PROVE  Inv'
<1>1. /\ put[p] # <<>> /\ stage[p] = 0 /\ UNCHANGED table
      /\ ref' = [ref EXCEPT ![i] = @ - 1]
      /\ mem' = [mem EXCEPT ![i] = IF ref[i] = 1 THEN NoInode ELSE @]
      /\ HasPut(p) /\ UNCHANGED <<lock, disk, stage>>
  BY DEF iput
<1>2. stage' = [stage EXCEPT ![p] = 0]
  BY <1>1, TypeParts DEF Inv, RegsTyped
<1>3. stage[p] # 1 /\ UNCHANGED <<disk, lock, table>>
  BY <1>1
<1>4. QED
  BY <1>1, <1>2, <1>3, DerefStep

LEMMA RefsSame ==
  ASSUME RefsExact, UNCHANGED <<ref, table, cur, par, old, put>>
  PROVE  RefsExact'
BY DEF RefsExact, Pointers, Count, table

\* A process with inodes to put holds no directory.
LEMMA PuttingHoldsNone ==
  ASSUME Inv, NEW p \in Procs, put[p] # <<>>
  PROVE  par[p] = 0 /\ pc[p] \notin {"user", "new", "child", "panic"}
<1>1. ProcOK(p) /\ pc[p] \in Pcs
  BY TypeParts DEF Inv, Shape, RegsTyped
<1>2. QED
  BY <1>1 DEF ProcOK, Pcs

LEMMA FreedKeeps ==
  ASSUME Inv, NEW p \in Procs, Freed(p)
  PROVE  Inv'
<1>1. /\ TypeOK /\ RefsExact /\ Shape /\ FilesUsed /\ LocksHeld /\ CacheFits
      /\ OnlyDirs /\ Ranked /\ BlocksKept /\ ProcOK(p) /\ \A q \in Procs : Reached(q)
  BY DEF Inv, Shape
<1>2. RegsTyped /\ CacheTyped /\ TableTyped /\ DiskOK(disk)
  BY <1>1, TypeParts
<1>3. stage[p] = 1 /\ put[p] # <<>>
  BY <1>1 DEF Freed, ProcOK
<1>4. PICK i \in Inums : i = Head(put[p])
  BY <1>1, <1>3, PutCounted
<1>5. /\ mem' = [mem EXCEPT ![i] = NoInode] /\ lock' = [lock EXCEPT ![i] = NoProc]
      /\ stage' = [stage EXCEPT ![p] = 2]
      /\ disk' = disk /\ ref' = ref /\ file' = file /\ ofile' = ofile /\ cwd' = cwd
      /\ pc' = pc /\ cur' = cur /\ par' = par /\ old' = old /\ put' = put
  BY <1>4 DEF Freed, table, regs
<1>6. par[p] = 0 /\ pc[p] # "new" /\ lock[i] = p
  BY <1>1, <1>3, <1>4, PuttingHoldsNone DEF LocksHeld
<1>7. /\ stage'[p] = 2 /\ \A q \in Procs \ {p} : stage'[q] = stage[q]
      /\ mem'[i] = NoInode /\ \A j \in Inums \ {i} : mem'[j] = mem[j] /\ lock'[j] = lock[j]
      /\ lock'[i] = NoProc
  BY <1>2, <1>5 DEF RegsTyped, CacheTyped
<1>8. TypeOK'
  <2>1. RegsTyped'
    BY <1>2, <1>5 DEF RegsTyped
  <2>2. CacheTyped'
    BY <1>2, <1>5 DEF CacheTyped
  <2>3. TableTyped' /\ DiskOK(disk)'
    BY <1>2, <1>5 DEF TableTyped
  <2>4. QED
    BY <2>1, <2>2, <2>3, TypePartsNext
<1>9. RefsExact'
  BY <1>1, <1>5, RefsSame DEF table
<1>10. Shape'
  <2>1. ASSUME NEW q \in Procs
        PROVE  ProcOK(q)'
    <3>1. ProcOK(q) /\ (stage'[q] # 0 => stage[q] # 0)
      BY <1>1, <1>3, <1>7 DEF Shape
    <3>2. QED
      BY <3>1, <1>5 DEF ProcOK
  <2>2. QED
    BY <2>1 DEF Shape
<1>11. FilesUsed'
  BY <1>1, <1>5 DEF FilesUsed
<1>12. LocksHeld'
  <2>1. ASSUME NEW j \in Inums, NEW q \in Procs, lock'[j] = q
        PROVE  par'[q] = j \/ (stage'[q] = 1 /\ Head(put'[q]) = j)
    <3>1. j # i /\ lock[j] = q
      BY <2>1, <1>7, FileSysAssumption
    <3>2. par[q] = j \/ (stage[q] = 1 /\ Head(put[q]) = j)
      BY <1>1, <3>1 DEF LocksHeld
    <3>3. q # p
      BY <1>4, <1>6, <3>1, <3>2 DEF Inums
    <3>4. QED
      BY <3>2, <3>3, <1>5, <1>7
  <2>2. ASSUME NEW q \in Procs
        PROVE  /\ par'[q] # 0 => lock'[par'[q]] = q
               /\ stage'[q] = 1 => lock'[Head(put'[q])] = q
    <3>1. CASE q = p
      BY <3>1, <1>5, <1>6, <1>7
    <3>2. CASE q # p
      <4>1. par[q] # 0 => lock[par[q]] = q /\ par[q] \in Inums
        BY <1>1, <1>2 DEF LocksHeld, RegsTyped
      <4>2. stage[q] = 1 => lock[Head(put[q])] = q /\ Head(put[q]) \in Inums
        <5>1. stage[q] = 1 => put[q] # <<>>
          BY <1>1 DEF Shape, ProcOK
        <5>2. QED
          BY <5>1, <1>1, PutCounted DEF LocksHeld
      <4>3. QED
        BY <4>1, <4>2, <3>2, <1>5, <1>6, <1>7
    <3>3. QED
      BY <3>1, <3>2
  <2>3. QED
    BY <2>1, <2>2 DEF LocksHeld
<1>13. CacheFits'
  <2>1. ASSUME NEW j \in Inums, j # i, Freeing(j)
        PROVE  Freeing(j)'
    <3>1. PICK q \in Procs : lock[j] = q /\ stage[q] = 1 /\ Head(put[q]) = j
      BY <2>1 DEF Freeing
    <3>2. q # p
      BY <3>1, <2>1, <1>4
    <3>3. QED
      BY <3>1, <3>2, <2>1, <1>5, <1>7 DEF Freeing
  <2>2. QED
    BY <2>1, <1>1, <1>5, <1>7 DEF CacheFits
<1>14. \A q \in Procs : Reached(q)'
  BY <1>1, <1>5 DEF Reached
<1>15. OnlyDirs' /\ Ranked' /\ BlocksKept'
  BY <1>1, <1>5 DEF OnlyDirs, Ranked, Upwards, BlocksKept, BlocksOwned
<1>16. QED
  BY <1>8, <1>9, <1>10, <1>11, <1>12, <1>13, <1>14, <1>15 DEF Inv

-----------------------------------------------------------------------------
(* Blocks. *)

\* An inode gives up its block.
LEMMA OwnedFreed ==
  ASSUME NEW d, NEW e, NEW i \in Inums, BlocksOwned(d),
         e.used = d.used \ {d.inode[i].blk}, e.inode[i].blk = 0,
         \A j \in Inums \ {i} : e.inode[j].blk = d.inode[j].blk
  PROVE  BlocksOwned(e)
<1>1. d.used = {d.inode[j].blk : j \in Inums} \ {0}
  BY DEF BlocksOwned
<1>2. \A j, k \in Inums : d.inode[j].blk = d.inode[k].blk /\ d.inode[j].blk # 0 => j = k
  BY DEF BlocksOwned
<1>3. ASSUME NEW b
      PROVE  b \in e.used <=> b \in {e.inode[j].blk : j \in Inums} \ {0}
  <2>1. b \in e.used <=> b \in d.used /\ b # d.inode[i].blk
    OBVIOUS
  <2>2. b \in d.used <=> b # 0 /\ \E j \in Inums : b = d.inode[j].blk
    BY <1>1
  <2>3. b \in {e.inode[j].blk : j \in Inums} \ {0} <=> b # 0 /\ \E j \in Inums : b = e.inode[j].blk
    OBVIOUS
  <2>4. ASSUME b # 0, NEW j \in Inums, b = d.inode[j].blk, b # d.inode[i].blk
        PROVE  \E k \in Inums : b = e.inode[k].blk
    BY <2>4
  <2>5. ASSUME b # 0, NEW j \in Inums, b = e.inode[j].blk
        PROVE  b = d.inode[j].blk /\ b # d.inode[i].blk
    BY <1>2, <2>5
  <2>6. QED
    BY <2>1, <2>2, <2>3, <2>4, <2>5
<1>4. \A j, k \in Inums : e.inode[j].blk = e.inode[k].blk /\ e.inode[j].blk # 0 => j = k
  BY <1>2
<1>5. e.used = {e.inode[j].blk : j \in Inums} \ {0}
  BY <1>3, Zenon
<1>6. QED
  BY <1>4, <1>5 DEF BlocksOwned

\* An inode without a block gets one that was free.
LEMMA OwnedTaken ==
  ASSUME NEW d, NEW e, NEW i \in Inums, BlocksOwned(d), d.inode[i].blk = 0,
         NEW b \in Blocks \ d.used, e.used = d.used \cup {b}, e.inode[i].blk = b,
         \A j \in Inums \ {i} : e.inode[j].blk = d.inode[j].blk
  PROVE  BlocksOwned(e)
<1>1. d.used = {d.inode[j].blk : j \in Inums} \ {0}
  BY DEF BlocksOwned
<1>2. \A j, k \in Inums : d.inode[j].blk = d.inode[k].blk /\ d.inode[j].blk # 0 => j = k
  BY DEF BlocksOwned
<1>0. b # 0 /\ \A j \in Inums : d.inode[j].blk # b
  BY <1>1 DEF Blocks
<1>3. ASSUME NEW c
      PROVE  c \in e.used <=> c \in {e.inode[j].blk : j \in Inums} \ {0}
  <2>1. c \in e.used <=> c \in d.used \/ c = b
    OBVIOUS
  <2>2. c \in d.used <=> c # 0 /\ \E j \in Inums : c = d.inode[j].blk
    BY <1>1
  <2>3. c \in {e.inode[j].blk : j \in Inums} \ {0} <=> c # 0 /\ \E j \in Inums : c = e.inode[j].blk
    OBVIOUS
  <2>4. ASSUME c # 0, NEW j \in Inums, c = d.inode[j].blk
        PROVE  \E k \in Inums : c = e.inode[k].blk
    BY <2>4
  <2>5. ASSUME c # 0, NEW j \in Inums, c = e.inode[j].blk
        PROVE  c = d.inode[j].blk \/ c = b
    BY <2>5
  <2>6. QED
    BY <1>0, <2>1, <2>2, <2>3, <2>4, <2>5
<1>4. ASSUME NEW j \in Inums, NEW k \in Inums, e.inode[j].blk = e.inode[k].blk, e.inode[j].blk # 0
      PROVE  j = k
  BY <1>0, <1>2, <1>4
<1>5. e.used = {e.inode[j].blk : j \in Inums} \ {0}
  BY <1>3, Zenon
<1>6. QED
  BY <1>4, <1>5 DEF BlocksOwned

LEMMA OwnedSame ==
  ASSUME NEW d, NEW e, BlocksOwned(d), e.used = d.used,
         \A j \in Inums : e.inode[j].blk = d.inode[j].blk
  PROVE  BlocksOwned(e)
BY DEF BlocksOwned

\* iput() of the last reference to an inode without links: nobody else has it.
LEMMA IputFreesKeeps ==
  ASSUME Inv, NEW p \in Procs, iput(p), NEW i, i = Head(put[p]),
         ref[i] = 1, mem[i] # NoInode, mem[i].nlink = 0
  PROVE  Inv'
<1>1. /\ TypeOK /\ RefsExact /\ Shape /\ FilesUsed /\ LocksHeld /\ CacheFits
      /\ OnlyDirs /\ Ranked /\ BlocksKept /\ ProcOK(p) /\ \A q \in Procs : Reached(q)
  BY DEF Inv, Shape
<1>2. RegsTyped /\ CacheTyped /\ TableTyped /\ DiskOK(disk)
  BY <1>1, TypeParts
<1>3. /\ put[p] # <<>> /\ stage[p] = 0 /\ lock[i] = NoProc /\ lock' = [lock EXCEPT ![i] = p]
      /\ disk' = iupdate(itrunc(disk, i), i, FreeInode)
      /\ mem' = [mem EXCEPT ![i] = disk'.inode[i]]
      /\ stage' = [stage EXCEPT ![p] = 1]
      /\ ref' = ref /\ file' = file /\ ofile' = ofile /\ cwd' = cwd
      /\ pc' = pc /\ cur' = cur /\ par' = par /\ old' = old /\ put' = put
  BY DEF iput, table, regs, FreeInode
<1>4. i \in Inums /\ i # 0
  BY <1>1, <1>3, PutCounted DEF Inums
<1>5. /\ \A q \in Procs : cwd[q] # i /\ cur[q] # i /\ par[q] # i /\ old[q] # i
      /\ par[p] = 0 /\ pc[p] \notin {"user", "new", "child", "panic"}
  BY <1>1, <1>3, SoleRef, PuttingHoldsNone
<1>6. /\ DiskOK(disk') /\ disk'.inode = [disk.inode EXCEPT ![i] = FreeInode]
      /\ disk'.dir = [disk.dir EXCEPT ![i] = NoEntries]
      /\ disk'.used = disk.used \ {disk.inode[i].blk}
  <2>1. PICK d : d = itrunc(disk, i)
    OBVIOUS
  <2>2. /\ DiskOK(d)
        /\ d.inode = [disk.inode EXCEPT ![i] = [@ EXCEPT !.blk = 0]]
        /\ d.dir = [disk.dir EXCEPT ![i] = NoEntries]
        /\ d.used = disk.used \ {disk.inode[i].blk}
    BY <1>2, <1>4, <2>1, ItruncDoes
  <2>3. FreeInode \in Dinode
    BY DEF FreeInode, Dinode
  <2>4. /\ DiskOK(disk') /\ disk'.inode = [d.inode EXCEPT ![i] = FreeInode]
        /\ disk'.dir = d.dir /\ disk'.used = d.used
    BY <1>3, <1>4, <2>1, <2>2, <2>3, IupdateDoes
  <2>5. disk.inode \in [Inums -> Dinode]
    BY <1>2 DEF DiskOK
  <2>6. QED
    BY <2>2, <2>4, <2>5
<1>7. /\ disk'.inode[i] = FreeInode /\ disk'.dir[i] = NoEntries
      /\ \A j \in Inums \ {i} : disk'.inode[j] = disk.inode[j] /\ disk'.dir[j] = disk.dir[j]
      /\ disk'.inode[i].type = "free" /\ disk'.inode[i].blk = 0
  BY <1>2, <1>4, <1>6 DEF DiskOK, FreeInode
<1>8. /\ stage'[p] = 1 /\ \A q \in Procs \ {p} : stage'[q] = stage[q]
      /\ \A j \in Inums \ {i} : mem'[j] = mem[j] /\ lock'[j] = lock[j]
      /\ lock'[i] = p
  BY <1>2, <1>3, <1>4 DEF RegsTyped, CacheTyped
<1>9. OthersStay(p)
  BY <1>3, <1>8 DEF OthersStay
<1>10. TypeOK'
  <2>1. RegsTyped'
    BY <1>2, <1>3 DEF RegsTyped
  <2>2. CacheTyped'
    <3>1. disk'.inode[i] \in Dinode
      BY <1>4, <1>6 DEF DiskOK
    <3>2. QED
      BY <1>2, <1>3, <1>4, <3>1 DEF CacheTyped
  <2>3. TableTyped' /\ DiskOK(disk)'
    BY <1>2, <1>3, <1>6 DEF TableTyped
  <2>4. QED
    BY <2>1, <2>2, <2>3, TypePartsNext
<1>11. RefsExact'
  BY <1>1, <1>3, RefsSame DEF table
<1>12. ProcOK(p)'
  BY <1>1, <1>3 DEF ProcOK
<1>13. Shape'
  BY <1>1, <1>9, <1>12, ShapeKept
<1>14. FilesUsed'
  BY <1>1, <1>3 DEF FilesUsed
<1>15. LocksHeld'
  <2>1. ASSUME NEW j \in Inums, NEW q \in Procs, lock'[j] = q
        PROVE  par'[q] = j \/ (stage'[q] = 1 /\ Head(put'[q]) = j)
    <3>1. CASE j = i
      BY <2>1, <3>1, <1>3, <1>8
    <3>2. CASE j # i
      <4>1. lock[j] = q /\ (par[q] = j \/ (stage[q] = 1 /\ Head(put[q]) = j))
        BY <2>1, <3>2, <1>1, <1>8 DEF LocksHeld
      <4>2. stage[q] = 1 => q # p
        BY <1>3
      <4>3. QED
        BY <4>1, <4>2, <1>3, <1>8
    <3>3. QED
      BY <3>1, <3>2
  <2>2. ASSUME NEW q \in Procs
        PROVE  /\ par'[q] # 0 => lock'[par'[q]] = q
               /\ stage'[q] = 1 => lock'[Head(put'[q])] = q
    <3>1. CASE q = p
      BY <3>1, <1>3, <1>5, <1>8
    <3>2. CASE q # p
      <4>1. par[q] # 0 => lock[par[q]] = q /\ par[q] \in Inums
        BY <1>1, <1>2 DEF LocksHeld, RegsTyped
      <4>2. stage[q] = 1 => lock[Head(put[q])] = q /\ Head(put[q]) \in Inums
        <5>1. stage[q] = 1 => put[q] # <<>>
          BY <1>1 DEF Shape, ProcOK
        <5>2. QED
          BY <5>1, <1>1, PutCounted DEF LocksHeld
      <4>3. stage[q] = 1 => Head(put[q]) # i
        BY <4>2, <1>3, FileSysAssumption
      <4>4. QED
        BY <4>1, <4>2, <4>3, <3>2, <1>3, <1>5, <1>8
    <3>3. QED
      BY <3>1, <3>2
  <2>3. QED
    BY <2>1, <2>2 DEF LocksHeld
<1>16. CacheFits'
  <2>1. Freeing(i)'
    BY <1>3, <1>8 DEF Freeing
  <2>2. ASSUME NEW j \in Inums
        PROVE  \/ mem'[j] = mem[j] /\ disk'.inode[j] = disk.inode[j]
               \/ mem'[j] = mem[j] /\ disk.inode[j].type = "free"
               \/ mem'[j] = NoInode \/ Freeing(j)'
               \/ mem'[j] = disk'.inode[j] /\ disk'.inode[j].type # "free"
    BY <2>1, <1>7, <1>8
  <2>3. stage[p] # 1 /\ \A j \in Inums : lock'[j] = lock[j] \/ lock[j] \in {p, NoProc}
    BY <1>3, <1>8
  <2>4. QED
    BY <1>1, <1>9, <2>2, <2>3, CacheKept
<1>17. ASSUME NEW q \in Procs
       PROVE  Reached(q)'
  <2>1. CASE q = p
    <3>1. Reached(p) /\ cur[p] # i /\ old[p] # i
      BY <1>1, <1>5
    <3>2. cur[p] \in {0} \cup Inums /\ old[p] \in {0} \cup Inums /\ (pc[p] = "dir" => cur[p] # 0)
      BY <1>1, <1>2 DEF RegsTyped, ProcOK
    <3>3. QED
      BY <2>1, <3>1, <3>2, <1>3, <1>5, <1>7 DEF Reached
  <2>2. CASE q # p
    <3>1. ProcOK(q) /\ Reached(q)
      BY <1>1 DEF Shape
    <3>2. \A j \in Inums : \/ disk'.inode[j].type = disk.inode[j].type
                           \/ disk.inode[j].type = "free"
                           \/ cur[q] # j /\ par[q] # j /\ old[q] # j
      BY <1>5, <1>7
    <3>3. \A j \in Inums : disk'.dir[j] = disk.dir[j] \/ lock[j] \in {p, NoProc}
      BY <1>3, <1>7
    <3>4. QED
      BY <2>2, <3>1, <3>2, <3>3, <1>1, <1>9, ReachedKept
  <2>3. QED
    BY <2>1, <2>2
<1>18. OnlyDirs'
  BY <1>1, <1>7 DEF OnlyDirs, NoEntries
<1>19. Ranked'
  <2>1. \A j \in Inums, n \in Names : disk'.dir[j][n] = 0 \/ disk'.dir[j][n] = disk.dir[j][n]
    BY <1>7 DEF NoEntries, Entries
  <2>2. QED
    BY <2>1, <1>1, <1>3, RankKept
<1>20. BlocksKept'
  <2>1. BlocksOwned(disk')
    <3>1. BlocksOwned(disk) /\ disk'.used = disk.used \ {disk.inode[i].blk}
      BY <1>1, <1>6 DEF BlocksKept
    <3>2. /\ disk'.inode[i].blk = 0
          /\ \A j \in Inums \ {i} : disk'.inode[j].blk = disk.inode[j].blk
      BY <1>7
    <3>3. QED
      BY <1>4, <3>1, <3>2, OwnedFreed
  <2>2. \A j \in Inums : disk'.inode[j].type = "free" => disk'.inode[j].blk = 0
    BY <1>1, <1>7 DEF BlocksKept
  <2>3. \A q \in Procs : pc[q] = "new" => cur[q] \in Inums \ {i}
    BY <1>1, <1>2, <1>5 DEF Shape, ProcOK, RegsTyped
  <2>4. QED
    BY <2>1, <2>2, <2>3, <1>1, <1>3, <1>7 DEF BlocksKept, BlocksOwned
<1>21. QED
  BY <1>10, <1>11, <1>13, <1>14, <1>15, <1>16, <1>17, <1>18, <1>19, <1>20 DEF Inv

LEMMA PutKeeps ==
  ASSUME Inv, NEW p \in Procs, Put(p)
  PROVE  Inv'
<1>1. PICK i : i = Head(put[p])
  OBVIOUS
<1>2. CASE iput(p)
  BY <1>1, <1>2, IputFreesKeeps, IputDerefKeeps
<1>3. QED
  BY <1>2, FreedKeeps, FreedDerefKeeps DEF Put

-----------------------------------------------------------------------------
(* Steps that write the disk. *)

\* A step of p under the locks it needs.
LEMMA DiskStep ==
  ASSUME Inv, NEW p \in Procs, OthersStay(p), stage[p] = 0, stage'[p] = 0,
         TypeOK', RefsExact', FilesUsed', ProcOK(p)', Reached(p)',
         OnlyDirs', Ranked', BlocksKept',
         \A j \in Inums : \/ lock'[j] = lock[j] /\ (lock[j] = p => j = par'[p])
                          \/ lock[j] \in {p, NoProc} /\ lock'[j] = NoProc
                          \/ lock[j] \in {p, NoProc} /\ lock'[j] = p /\ j = par'[p],
         par'[p] # 0 => lock'[par'[p]] = p,
         \A j \in Inums : \/ mem'[j] = mem[j] /\ disk'.inode[j] = disk.inode[j]
                          \/ mem'[j] = mem[j] /\ disk.inode[j].type = "free"
                          \/ mem'[j] = disk'.inode[j] /\ disk'.inode[j].type # "free",
         \A j \in Inums : \/ disk'.inode[j].type = disk.inode[j].type
                          \/ disk.inode[j].type = "free",
         \A j \in Inums : disk'.dir[j] = disk.dir[j] \/ lock[j] \in {p, NoProc}
  PROVE  Inv'
<1>1. /\ TypeOK /\ RefsExact /\ Shape /\ LocksHeld /\ CacheFits /\ RegsTyped
      /\ \A q \in Procs : Reached(q) /\ ProcOK(q)
  BY TypeParts DEF Inv, Shape
<1>2. Shape'
  BY <1>1, ShapeKept
<1>3. LocksHeld'
  <2>1. ASSUME NEW j \in Inums, NEW q \in Procs, lock'[j] = q
        PROVE  par'[q] = j \/ (stage'[q] = 1 /\ Head(put'[q]) = j)
    <3>1. CASE q = p
      BY <2>1, <3>1, FileSysAssumption
    <3>2. CASE q # p
      <4>1. lock[j] = q
        BY <2>1, <3>2, FileSysAssumption
      <4>2. par[q] = j \/ (stage[q] = 1 /\ Head(put[q]) = j)
        BY <4>1, <1>1 DEF LocksHeld
      <4>3. QED
        BY <4>2, <3>2 DEF OthersStay
    <3>3. QED
      BY <3>1, <3>2
  <2>2. ASSUME NEW q \in Procs
        PROVE  /\ par'[q] # 0 => lock'[par'[q]] = q
               /\ stage'[q] = 1 => lock'[Head(put'[q])] = q
    <3>1. CASE q = p
      BY <3>1
    <3>2. CASE q # p
      <4>1. par[q] # 0 => lock[par[q]] = q /\ par[q] \in Inums
        BY <1>1 DEF LocksHeld, RegsTyped
      <4>2. stage[q] = 1 => lock[Head(put[q])] = q /\ Head(put[q]) \in Inums
        <5>1. stage[q] = 1 => put[q] # <<>>
          BY <1>1 DEF ProcOK
        <5>2. QED
          BY <5>1, <1>1, PutCounted DEF LocksHeld
      <4>3. \A j \in Inums : lock[j] = q => lock'[j] = q
        BY <3>2, FileSysAssumption
      <4>4. QED
        BY <4>1, <4>2, <4>3, <3>2 DEF OthersStay
    <3>3. QED
      BY <3>1, <3>2
  <2>3. QED
    BY <2>1, <2>2 DEF LocksHeld
<1>4. CacheFits'
  <2>1. stage[p] # 1 /\ \A j \in Inums : lock'[j] = lock[j] \/ lock[j] \in {p, NoProc}
    OBVIOUS
  <2>2. QED
    BY <1>1, <2>1, CacheKept
<1>5. ASSUME NEW q \in Procs
      PROVE  Reached(q)'
  <2>1. CASE q = p
    BY <2>1
  <2>2. CASE q # p
    BY <2>2, <1>1, ReachedKept
  <2>3. QED
    BY <2>1, <2>2
<1>6. QED
  BY <1>2, <1>3, <1>4, <1>5 DEF Inv

-----------------------------------------------------------------------------
(* Open files. *)

Fds(g) == {x \in Procs \X (1..NOFILE) : ofile[x[1]][x[2]] = g}

LEMMA FdMoves ==
  ASSUME TableTyped, NEW p \in Procs, NEW fd \in 1..NOFILE, NEW v,
         ofile' = [ofile EXCEPT ![p][fd] = v], NEW g
  PROVE  /\ Count(Fds(g)) \in Nat /\ Count(Fds(g))' \in Nat
         /\ Count(Fds(g))' = Count(Fds(g)) - Same(ofile[p][fd], g) + Same(v, g)
<1> DEFINE S == Procs \X (1..NOFILE)
<1>1. PICK F : F = [x \in S |-> ofile[x[1]][x[2]]]
  OBVIOUS
<1>2. PICK G : G = [x \in S |-> ofile'[x[1]][x[2]]]
  OBVIOUS
<1>3. \A q \in Procs, k \in 1..NOFILE : ofile'[q][k] = IF q = p /\ k = fd THEN v ELSE ofile[q][k]
  BY DEF TableTyped
<1>4. PICK s \in S : s = <<p, fd>>
  OBVIOUS
<1>5. F[s] = ofile[p][fd] /\ G[s] = v
  BY <1>1, <1>2, <1>3, <1>4
<1>6. ASSUME NEW t \in S, t # s
      PROVE  G[t] = F[t]
  <2>1. PICK q \in Procs, k \in 1..NOFILE : t = <<q, k>>
    OBVIOUS
  <2>2. ~(q = p /\ k = fd)
    BY <2>1, <1>4, <1>6
  <2>3. F[t] = ofile[q][k] /\ G[t] = ofile'[q][k]
    BY <1>1, <1>2, <2>1
  <2>4. QED
    BY <2>2, <2>3, <1>3
<1>7. IsFiniteSet(S)
  BY FiniteSets
<1>8. Count(Fds(g)) = Count(Where(S, F, g))
  BY <1>1 DEF Fds, Where
<1>9. Count(Fds(g))' = Count(Where(S, G, g))
  BY <1>2 DEF Fds, Where, Count
<1> HIDE DEF S
<1>10. /\ Count(Where(S, F, g)) \in Nat /\ Count(Where(S, G, g)) \in Nat
       /\ Count(Where(S, G, g)) = Count(Where(S, F, g)) - Same(F[s], g) + Same(G[s], g)
  BY <1>6, <1>7, WhereAt
<1>11. QED
  BY <1>5, <1>8, <1>9, <1>10

LEMMA FileMoves ==
  ASSUME TableTyped, NEW f \in 1..NFILE, NEW r, file' = [file EXCEPT ![f] = r], NEW i
  PROVE  /\ Count(FilesAt(i)) \in Nat /\ Count(FilesAt(i)') \in Nat
         /\ Count(FilesAt(i)') = Count(FilesAt(i)) - Same(file[f].ip, i) + Same(r.ip, i)
<1> DEFINE S == 1..NFILE
<1>1. PICK F : F = [x \in S |-> file[x].ip]
  OBVIOUS
<1>2. PICK G : G = [x \in S |-> file'[x].ip]
  OBVIOUS
<1>3. F[f] = file[f].ip /\ G[f] = r.ip /\ \A t \in S \ {f} : G[t] = F[t]
  BY <1>1, <1>2 DEF TableTyped
<1>4. IsFiniteSet(S)
  BY FiniteSets
<1>5. Count(FilesAt(i)) = Count(Where(S, F, i))
  BY <1>1 DEF FilesAt, Where
<1>6. Count(FilesAt(i)') = Count(Where(S, G, i))
  BY <1>2 DEF FilesAt, Where
<1> HIDE DEF S
<1>7. PICK s \in S : s = f
  BY DEF S
<1>a. \A t \in S \ {s} : G[t] = F[t]
  BY <1>3, <1>7
<1>8. /\ Count(Where(S, F, i)) \in Nat /\ Count(Where(S, G, i)) \in Nat
      /\ Count(Where(S, G, i)) = Count(Where(S, F, i)) - Same(F[s], i) + Same(G[s], i)
  BY <1>a, <1>4, WhereAt
<1>9. QED
  BY <1>3, <1>5, <1>6, <1>7, <1>8

LEMMA PointersMoved ==
  ASSUME TypeOK, NEW p \in Procs, NEW i \in Inums, put'[p] \in Seq(Inums),
         \A q \in Procs \ {p} : /\ cwd'[q] = cwd[q] /\ cur'[q] = cur[q] /\ par'[q] = par[q]
                                /\ old'[q] = old[q] /\ put'[q] = put[q],
         NEW f \in 1..NFILE, NEW r, file' = [file EXCEPT ![f] = r]
  PROVE  /\ Pointers(i) \in Nat /\ Own(p, i) \in Nat /\ Own(p, i)' \in Nat
         /\ Same(file[f].ip, i) \in Nat /\ Same(r.ip, i) \in Nat
         /\ Pointers(i)' = Pointers(i) - Own(p, i) + Own(p, i)'
                           - Same(file[f].ip, i) + Same(r.ip, i)
<1>1. /\ Pointers(i) \in Nat /\ Count(FilesAt(i)) \in Nat
      /\ Pointers(i)' = Pointers(i) - Own(p, i) + Own(p, i)'
                        - Count(FilesAt(i)) + Count(FilesAt(i)')
  BY PointersMove
<1>2. TableTyped
  BY TypeParts
<1>3. /\ Count(FilesAt(i)') \in Nat
      /\ Count(FilesAt(i)') = Count(FilesAt(i)) - Same(file[f].ip, i) + Same(r.ip, i)
  BY <1>2, FileMoves
<1>4. Own(p, i) \in Nat /\ Own(p, i)' \in Nat /\ Same(file[f].ip, i) \in Nat /\ Same(r.ip, i) \in Nat
  BY DEF Own, Same, InPut
<1>5. QED
  BY <1>1, <1>3, <1>4

\* One descriptor and one open file change.
LEMMA RefsMoved ==
  ASSUME TypeOK, RefsExact, NEW p \in Procs, put'[p] \in Seq(Inums),
         \A q \in Procs \ {p} : /\ cwd'[q] = cwd[q] /\ cur'[q] = cur[q] /\ par'[q] = par[q]
                                /\ old'[q] = old[q] /\ put'[q] = put[q],
         NEW f \in 1..NFILE, NEW r \in [ref : Nat, ip : {0} \cup Inums],
         NEW fd \in 1..NOFILE, NEW v \in 0..NFILE, ref' \in [Inums -> Nat],
         file' = [file EXCEPT ![f] = r], ofile' = [ofile EXCEPT ![p][fd] = v],
         r.ref = file[f].ref - Same(ofile[p][fd], f) + Same(v, f),
         ofile[p][fd] \in {0, f}, v \in {0, f},
         \A i \in Inums : ref'[i] + Own(p, i) + Same(file[f].ip, i)
                          = ref[i] + Own(p, i)' + Same(r.ip, i)
  PROVE  RefsExact'
<1>0. TableTyped /\ CacheTyped
  BY TypeParts
<1>b. \A i \in Inums : ref'[i] \in Nat
  OBVIOUS
<1>1. ASSUME NEW i \in Inums
      PROVE  ref'[i] = Pointers(i)'
  <2>1. /\ Pointers(i) \in Nat /\ Own(p, i) \in Nat /\ Own(p, i)' \in Nat
        /\ Same(file[f].ip, i) \in Nat /\ Same(r.ip, i) \in Nat
        /\ Pointers(i)' = Pointers(i) - Own(p, i) + Own(p, i)'
                          - Same(file[f].ip, i) + Same(r.ip, i)
    BY PointersMoved
  <2>2. ref[i] = Pointers(i)
    BY DEF RefsExact
  <2>3. ref'[i] + Own(p, i) + Same(file[f].ip, i) = ref[i] + Own(p, i)' + Same(r.ip, i)
    OBVIOUS
  <2>4. PICK a \in Nat, b \in Nat, c \in Nat, d \in Nat, e \in Nat :
          /\ a = Pointers(i) /\ b = Own(p, i) /\ c = Same(file[f].ip, i)
          /\ d = Own(p, i)' /\ e = Same(r.ip, i)
    BY <2>1
  <2>5. PICK x \in Nat : x = ref'[i]
    BY <1>b
  <2>6. PICK y : y = Pointers(i)'
    OBVIOUS
  <2>7. x + b + c = a + d + e
    BY <2>2, <2>3, <2>4, <2>5
  <2>8. y = a - b + d - c + e
    BY <2>1, <2>4, <2>6
  <2>n. a \in Nat /\ b \in Nat /\ c \in Nat /\ d \in Nat /\ e \in Nat /\ x \in Nat
    OBVIOUS
  <2>9. x = y
    BY ONLY <2>n, <2>7, <2>8
  <2>10. QED
    BY <2>5, <2>6, <2>9
<1>2. ASSUME NEW g \in 1..NFILE
      PROVE  file'[g].ref = Count(Fds(g))'
  <2>1. /\ Count(Fds(g)) \in Nat
        /\ Count(Fds(g))' = Count(Fds(g)) - Same(ofile[p][fd], g) + Same(v, g)
    <3>1. TableTyped /\ p \in Procs /\ fd \in 1..NOFILE /\ ofile' = [ofile EXCEPT ![p][fd] = v]
      BY <1>0
    <3>2. QED
      BY ONLY <3>1, FdMoves
  <2>2. file[g].ref = Count(Fds(g))
    BY DEF RefsExact, Fds
  <2>3. CASE g = f
    <3>1. file'[g] = r
      BY <1>0, <2>3 DEF TableTyped
    <3>2. QED
      BY <2>1, <2>2, <2>3, <3>1
  <2>4. CASE g # f
    <3>1. file'[g] = file[g]
      BY <1>0, <2>4 DEF TableTyped
    <3>2. Same(ofile[p][fd], g) = 0 /\ Same(v, g) = 0
      BY <2>4 DEF Same
    <3>3. QED
      BY <2>1, <2>2, <3>1, <3>2
  <2>5. QED
    BY <2>3, <2>4
<1>3. QED
  BY <1>1, <1>2 DEF RefsExact, Fds, Count

\* A file that has a descriptor is in use.
LEMMA FdCounted ==
  ASSUME TypeOK, RefsExact, FilesUsed, NEW p \in Procs, NEW fd \in 1..NOFILE, ofile[p][fd] # 0
  PROVE  LET f == ofile[p][fd] IN
           f \in 1..NFILE /\ file[f].ref \in Nat \ {0} /\ file[f].ip \in Inums
<1>1. PICK f : f = ofile[p][fd]
  OBVIOUS
<1>2. f \in 1..NFILE
  <2>1. f \in 0..NFILE /\ f # 0 /\ NFILE \in Nat
    BY <1>1, TypeParts, FileSysAssumption DEF TableTyped
  <2>2. QED
    BY <2>1
<1>3. <<p, fd>> \in Fds(f)
  BY <1>1 DEF Fds
<1>4. IsFiniteSet(Fds(f))
  BY FiniteSets, FS_Subset DEF Fds
<1>5. Count(Fds(f)) \in Nat \ {0}
  BY <1>3, <1>4, CountTwo
<1>6. file[f].ref \in Nat \ {0}
  BY <1>2, <1>5 DEF RefsExact, Fds
<1>7. file[f].ip \in Inums
  <2>1. file[f].ip \in {0} \cup Inums /\ file[f].ip # 0
    BY <1>2, <1>6 DEF TypeOK, FilesUsed
  <2>2. QED
    BY <2>1
<1>8. QED
  BY <1>1, <1>2, <1>6, <1>7

\* What a process has between two system calls.
LEMMA AtUser ==
  ASSUME Inv, NEW p \in Procs, pc[p] = "user"
  PROVE  /\ cur[p] = 0 /\ par[p] = 0 /\ old[p] = 0 /\ put[p] = <<>> /\ stage[p] = 0
         /\ cwd[p] \in {0} \cup Inums
<1>1. ProcOK(p) /\ RegsTyped /\ TableTyped
  BY TypeParts DEF Inv, Shape
<1>2. QED
  BY <1>1 DEF ProcOK, RegsTyped, TableTyped

LEMMA CloseKeeps ==
  ASSUME Inv, NEW p \in Procs, Close(p)
  PROVE  Inv'
<1>1. /\ TypeOK /\ RefsExact /\ FilesUsed /\ RegsTyped /\ CacheTyped /\ TableTyped /\ DiskOK(disk)
      /\ ProcOK(p)
  BY TypeParts DEF Inv, Shape
<1>2. /\ pc[p] = "user" /\ cur[p] = 0 /\ par[p] = 0 /\ old[p] = 0 /\ put[p] = <<>>
      /\ stage[p] = 0 /\ disk' = disk /\ ref' = ref /\ mem' = mem /\ lock' = lock /\ cwd' = cwd
  BY AtUser DEF Close, cache
<1>3. PICK fd \in 1..NOFILE :
        /\ ofile[p][fd] # 0
        /\ ofile' = [ofile EXCEPT ![p][fd] = 0]
        /\ IF file[ofile[p][fd]].ref > 1
           THEN /\ file' = [file EXCEPT ![ofile[p][fd]].ref = @ - 1]
                /\ UNCHANGED <<regs, put, stage>>
           ELSE /\ file' = [file EXCEPT ![ofile[p][fd]] = [ref |-> 0, ip |-> 0]]
                /\ Leave(p, <<file[ofile[p][fd]].ip>>)
  BY DEF Close
<1>4. PICK f : f = ofile[p][fd]
  OBVIOUS
<1>5. f \in 1..NFILE /\ file[f].ref \in Nat \ {0} /\ file[f].ip \in Inums
  BY <1>1, <1>3, <1>4, FdCounted
<1>6. file[f] \in [ref : Nat, ip : {0} \cup Inums]
  BY <1>1, <1>5 DEF TableTyped
<1>7. /\ ofile' \in [Procs -> [1..NOFILE -> 0..NFILE]]
      /\ \A q \in Procs \ {p} : ofile'[q] = ofile[q]
  <2>1. 0 \in 0..NFILE
    BY FileSysAssumption
  <2>2. QED
    BY ONLY <1>1, <1>3, <2>1 DEF TableTyped
<1>8. CASE file[f].ref > 1
  <2>1. PICK r \in [ref : Nat, ip : {0} \cup Inums] : r = [file[f] EXCEPT !.ref = @ - 1]
    <3>1. file[f].ref - 1 \in Nat
      BY <1>5
    <3>2. QED
      BY <1>6, <3>1
  <2>2. r.ref = file[f].ref - 1 /\ r.ip = file[f].ip
    BY <2>1, <1>6
  <2>3. /\ file' = [file EXCEPT ![f] = r]
        /\ pc' = pc /\ cur' = cur /\ par' = par /\ old' = old /\ put' = put /\ stage' = stage
    BY <1>3, <1>4, <1>5, <1>8, <2>1 DEF regs
  <2>4. OthersStay(p)
    BY <1>2, <1>7, <2>3 DEF OthersStay
  <2>5. TypeOK'
    <3>1. RegsTyped' /\ CacheTyped' /\ DiskOK(disk)'
      BY <1>1, <1>2, <2>3 DEF RegsTyped, CacheTyped
    <3>2. TableTyped'
      BY <1>1, <1>2, <1>5, <1>7, <2>3 DEF TableTyped
    <3>3. QED
      BY <3>1, <3>2, TypePartsNext
  <2>6. RefsExact'
    <3>1. put'[p] \in Seq(Inums)
      BY ONLY <1>2, <2>3, SeqsOfInums
    <3>2. 0 \in 0..NFILE /\ ofile[p][fd] \in {0, f} /\ 0 \in {0, f}
      BY <1>4, FileSysAssumption
    <3>3. r.ref = file[f].ref - Same(ofile[p][fd], f) + Same(0, f)
      BY <1>4, <1>5, <2>2 DEF Same
    <3>4. ASSUME NEW i \in Inums
          PROVE  ref'[i] + Own(p, i) + Same(file[f].ip, i) = ref[i] + Own(p, i)' + Same(r.ip, i)
      <4>1. Own(p, i)' = Own(p, i)
        BY <1>2, <2>3 DEF Own, Same, InPut
      <4>2. QED
        BY <4>1, <1>2, <2>2
    <3>5. \A q \in Procs \ {p} : /\ cwd'[q] = cwd[q] /\ cur'[q] = cur[q] /\ par'[q] = par[q]
                                 /\ old'[q] = old[q] /\ put'[q] = put[q]
      BY <1>2, <2>3
    <3>6. ref' \in [Inums -> Nat]
      BY <1>1, <1>2 DEF CacheTyped
    <3>7. /\ ofile' = [ofile EXCEPT ![p][fd] = 0] /\ p \in Procs /\ f \in 1..NFILE
          /\ r \in [ref : Nat, ip : {0} \cup Inums] /\ fd \in 1..NOFILE
      BY <1>3, <1>5
    <3>8. QED
      BY ONLY <1>1, <2>3, <3>1, <3>2, <3>3, <3>4, <3>5, <3>6, <3>7, RefsMoved
  <2>7. FilesUsed'
    <3>1. r.ref # 0 /\ r.ip # 0
      BY <1>5, <1>8, <2>2 DEF Inums
    <3>2. QED
      BY ONLY <1>1, <2>3, <3>1, <1>5 DEF FilesUsed, TableTyped
  <2>8. ProcOK(p)'
    <3>1. \A k \in 1..NOFILE : ofile[p][k] = 0 => ofile'[p][k] = 0
      BY ONLY <1>1, <1>3 DEF TableTyped
    <3>2. QED
      BY <1>1, <1>2, <2>3, <3>1 DEF ProcOK
  <2>9. /\ stage[p] # 1 /\ stage'[p] # 1 /\ par'[p] = 0 /\ pc'[p] \notin {"new", "child"}
        /\ old'[p] \in {0, old[p]} /\ pc'[p] # "dir"
    BY <1>2, <2>3
  <2>10. QED
    BY <1>2, <2>4, <2>5, <2>6, <2>7, <2>8, <2>9, QuietStep
<1>9. CASE ~(file[f].ref > 1)
  <2>1. PICK r \in [ref : Nat, ip : {0} \cup Inums] : r = [ref |-> 0, ip |-> 0]
    OBVIOUS
  <2>2. r.ref = 0 /\ r.ip = 0 /\ file[f].ref = 1
    BY <2>1, <1>5, <1>9
  <2>3. file' = [file EXCEPT ![f] = r] /\ Leave(p, <<file[f].ip>>)
    BY <1>3, <1>4, <1>5, <1>9, <2>1
  <2>4. PICK i \in Inums : i = file[f].ip
    BY <1>5
  <2>5. <<i>> \in Seq(Inums) /\ <<i>> # <<>> /\ Len(<<i>>) = 1
    OBVIOUS
  <2>6. Goto(p, "end", 0, 0, 0, <<i>>)
    BY <2>3, <2>4, <2>5 DEF Leave
  <2>7. "end" \in Pcs /\ 0 \in {0} \cup Inums
    BY DEF Pcs
  <2>8. /\ RegsTyped'
        /\ pc'[p] = "end" /\ cur'[p] = 0 /\ par'[p] = 0 /\ old'[p] = 0 /\ put'[p] = <<i>>
        /\ stage' = stage
        /\ \A q \in Procs \ {p} :
             /\ pc'[q] = pc[q] /\ cur'[q] = cur[q] /\ par'[q] = par[q]
             /\ old'[q] = old[q] /\ put'[q] = put[q]
    BY <1>1, <2>5, <2>6, <2>7, GotoDoes
  <2>9. OthersStay(p)
    BY <1>2, <1>7, <2>8 DEF OthersStay
  <2>10. TypeOK'
    <3>1. CacheTyped' /\ DiskOK(disk)'
      BY <1>1, <1>2 DEF CacheTyped
    <3>2. TableTyped'
      BY <1>1, <1>2, <1>5, <1>7, <2>3 DEF TableTyped
    <3>3. QED
      BY <2>8, <3>1, <3>2, TypePartsNext
  <2>11. RefsExact'
    <3>1. put'[p] \in Seq(Inums)
      BY <2>5, <2>8
    <3>2. 0 \in 0..NFILE /\ ofile[p][fd] \in {0, f} /\ 0 \in {0, f}
      BY <1>4, FileSysAssumption
    <3>3. r.ref = file[f].ref - Same(ofile[p][fd], f) + Same(0, f)
      BY <1>4, <1>5, <2>2 DEF Same
    <3>4. ASSUME NEW j \in Inums
          PROVE  ref'[j] + Own(p, j) + Same(file[f].ip, j) = ref[j] + Own(p, j)' + Same(r.ip, j)
      <4>1. Own(p, j) = Same(cwd[p], j)
        BY <1>2, InPutIs DEF Own, Same, Inums
      <4>2. Own(p, j)' = Same(cwd[p], j) + Same(i, j)
        BY <1>2, <2>8, InPutIs DEF Own, Same, Inums
      <4>3. ref'[j] = ref[j] /\ ref[j] \in Nat /\ Same(r.ip, j) = 0 /\ file[f].ip = i
        BY <1>1, <1>2, <2>2, <2>4 DEF CacheTyped, Same, Inums
      <4>4. QED
        BY ONLY <4>1, <4>2, <4>3 DEF Same
    <3>5. \A q \in Procs \ {p} : /\ cwd'[q] = cwd[q] /\ cur'[q] = cur[q] /\ par'[q] = par[q]
                                 /\ old'[q] = old[q] /\ put'[q] = put[q]
      BY <1>2, <2>8
    <3>6. ref' \in [Inums -> Nat]
      BY <1>1, <1>2 DEF CacheTyped
    <3>7. /\ ofile' = [ofile EXCEPT ![p][fd] = 0] /\ p \in Procs /\ f \in 1..NFILE
          /\ r \in [ref : Nat, ip : {0} \cup Inums] /\ fd \in 1..NOFILE
      BY <1>3, <1>5
    <3>8. QED
      BY ONLY <1>1, <2>3, <3>1, <3>2, <3>3, <3>4, <3>5, <3>6, <3>7, RefsMoved
  <2>12. FilesUsed'
    BY ONLY <1>1, <2>2, <2>3, <1>5 DEF FilesUsed, TableTyped
  <2>13. ProcOK(p)'
    <3>1. \A k \in 1..NOFILE : ofile[p][k] = 0 => ofile'[p][k] = 0
      BY ONLY <1>1, <1>3 DEF TableTyped
    <3>2. QED
      BY ONLY <1>1, <1>2, <2>5, <2>8, <3>1 DEF ProcOK
  <2>14. /\ stage[p] # 1 /\ stage'[p] # 1 /\ par'[p] = 0 /\ pc'[p] \notin {"new", "child"}
         /\ old'[p] \in {0, old[p]} /\ pc'[p] # "dir"
    BY <1>2, <2>8
  <2>15. QED
    BY <1>2, <2>9, <2>10, <2>11, <2>12, <2>13, <2>14, QuietStep
<1>10. QED
  BY <1>8, <1>9

\* An inode nobody has locked is what the cache or the disk says.
LEMMA LockFree ==
  ASSUME Inv, NEW i \in Inums, lock[i] = NoProc
  PROVE  /\ ~Freeing(i) /\ Load(i) = disk.inode[i] /\ disk.inode[i] \in Dinode
         /\ mem[i] = NoInode \/ disk.inode[i].type # "free"
<1>1. ~Freeing(i)
  BY FileSysAssumption DEF Freeing
<1>2. mem[i] = NoInode \/ (mem[i] = disk.inode[i] /\ mem[i].type # "free")
  BY <1>1 DEF Inv, CacheFits
<1>3. disk.inode[i] \in Dinode
  BY DEF Inv, TypeOK, DiskOK
<1>4. QED
  BY <1>1, <1>2, <1>3 DEF Load

LEMMA HoldsPar ==
  ASSUME Inv, NEW p \in Procs, stage[p] = 0
  PROVE  \A j \in Inums : lock[j] = p => j = par[p]
BY DEF Inv, LocksHeld

LEMMA WriteKeeps ==
  ASSUME Inv, NEW p \in Procs, Write(p)
  PROVE  Inv'
<1>1. /\ TypeOK /\ RefsExact /\ FilesUsed /\ RegsTyped /\ CacheTyped /\ TableTyped /\ DiskOK(disk)
      /\ ProcOK(p) /\ Shape /\ OnlyDirs /\ Ranked /\ BlocksKept /\ Reached(p)
  BY TypeParts DEF Inv, Shape
<1>2. /\ pc[p] = "user" /\ par[p] = 0 /\ stage[p] = 0 /\ old[p] = 0
      /\ Blocks \ disk.used # {}
      /\ ref' = ref /\ lock' = lock /\ file' = file /\ ofile' = ofile /\ cwd' = cwd
      /\ pc' = pc /\ cur' = cur /\ par' = par /\ old' = old /\ put' = put /\ stage' = stage
  BY AtUser DEF Write, table, regs
<1>3. PICK fd \in 1..NOFILE :
        /\ ofile[p][fd] # 0 /\ lock[file[ofile[p][fd]].ip] = NoProc
        /\ Load(file[ofile[p][fd]].ip).type = "file" /\ Load(file[ofile[p][fd]].ip).blk = 0
        /\ disk' = Balloc(disk, file[ofile[p][fd]].ip)
        /\ mem' = [mem EXCEPT ![file[ofile[p][fd]].ip] = disk'.inode[file[ofile[p][fd]].ip]]
  BY DEF Write
<1>4. PICK i \in Inums : i = file[ofile[p][fd]].ip
  BY <1>1, <1>3, FdCounted
<1>5. /\ lock[i] = NoProc /\ Load(i).type = "file" /\ Load(i).blk = 0
      /\ disk' = Balloc(disk, i) /\ mem' = [mem EXCEPT ![i] = disk'.inode[i]]
  BY <1>3, <1>4
<1>6. /\ Load(i) = disk.inode[i] /\ disk.inode[i] \in Dinode
      /\ disk.inode[i].type = "file" /\ disk.inode[i].blk = 0
  BY <1>5, LockFree
<1>7. PICK b \in Blocks \ disk.used :
        /\ DiskOK(disk') /\ disk'.dir = disk.dir /\ disk'.used = disk.used \cup {b}
        /\ disk'.inode = [disk.inode EXCEPT ![i] = [disk.inode[i] EXCEPT !.blk = b]]
  <2>1. DiskOK(disk) /\ i \in Inums /\ Blocks \ disk.used # {}
    BY <1>1, <1>2
  <2>2. \E b \in Blocks \ disk.used :
           /\ DiskOK(Balloc(disk, i)) /\ Balloc(disk, i).dir = disk.dir
           /\ Balloc(disk, i).used = disk.used \cup {b}
           /\ Balloc(disk, i).inode = [disk.inode EXCEPT ![i] = [disk.inode[i] EXCEPT !.blk = b]]
    BY ONLY <2>1, BallocDoes
  <2>3. QED
    BY ONLY <2>2, <1>5
<1>8. /\ disk'.inode[i].type = "file" /\ disk'.inode[i].blk = b
      /\ \A j \in Inums \ {i} : disk'.inode[j] = disk.inode[j] /\ mem'[j] = mem[j]
      /\ mem'[i] = disk'.inode[i] /\ disk'.inode[i] \in Dinode
  <2>1. disk.inode \in [Inums -> Dinode] /\ disk'.inode \in [Inums -> Dinode] /\ mem \in [Inums -> Dinode \cup {NoInode}]
    BY <1>1, <1>7 DEF DiskOK, CacheTyped
  <2>2. disk'.inode[i] = [disk.inode[i] EXCEPT !.blk = b]
    BY ONLY <2>1, <1>7
  <2>3. disk'.inode[i].type = "file" /\ disk'.inode[i].blk = b
    BY ONLY <2>2, <1>6 DEF Dinode
  <2>4. QED
    BY ONLY <2>1, <2>3, <1>5, <1>7
<1>9. OthersStay(p)
  BY <1>2 DEF OthersStay
<1>10. TypeOK'
  <2>1. RegsTyped' /\ TableTyped' /\ DiskOK(disk)'
    BY ONLY <1>1, <1>2, <1>7 DEF RegsTyped, TableTyped
  <2>2. CacheTyped'
    BY ONLY <1>1, <1>2, <1>5, <1>8 DEF CacheTyped
  <2>3. QED
    BY <2>1, <2>2, TypePartsNext
<1>11. RefsExact' /\ FilesUsed'
  BY <1>1, <1>2, RefsSame DEF FilesUsed, table
<1>12. ProcOK(p)'
  BY ONLY <1>1, <1>2 DEF ProcOK
<1>13. Reached(p)'
  BY <1>2 DEF Reached
<1>14. OnlyDirs'
  BY ONLY <1>1, <1>6, <1>7, <1>8 DEF OnlyDirs
<1>15. Ranked'
  BY <1>1, <1>2, <1>7, RankKept
<1>16. BlocksKept'
  <2>1. BlocksOwned(disk')
    <3>1. BlocksOwned(disk) /\ disk'.inode[i].blk = b /\ disk.inode[i].blk = 0
      BY <1>1, <1>6, <1>8 DEF BlocksKept
    <3>2. \A j \in Inums \ {i} : disk'.inode[j].blk = disk.inode[j].blk
      BY <1>8
    <3>3. QED
      BY ONLY <3>1, <3>2, <1>7, OwnedTaken
  <2>2. \A j \in Inums : disk'.inode[j].type = "free" => disk'.inode[j].blk = 0
    BY ONLY <1>1, <1>8 DEF BlocksKept
  <2>3. ASSUME NEW q \in Procs, pc[q] = "new"
        PROVE  disk'.inode[cur[q]].type = "dir" => disk'.inode[cur[q]].blk = 0
    <3>1. cur[q] \in Inums
      BY ONLY <1>1, <2>3 DEF Shape, ProcOK, RegsTyped
    <3>2. disk.inode[cur[q]].type = "dir" => disk.inode[cur[q]].blk = 0
      BY ONLY <1>1, <2>3 DEF BlocksKept
    <3>3. QED
      BY ONLY <3>1, <3>2, <1>8
  <2>4. QED
    BY ONLY <2>1, <2>2, <2>3, <1>1, <1>2 DEF BlocksKept, BlocksOwned
<1>17. \A j \in Inums : lock'[j] = lock[j] /\ (lock[j] = p => j = par'[p])
  BY <1>2, HoldsPar
<1>18. /\ stage'[p] = 0 /\ (par'[p] # 0 => lock'[par'[p]] = p)
       /\ \A j \in Inums : \/ mem'[j] = mem[j] /\ disk'.inode[j] = disk.inode[j]
                           \/ mem'[j] = disk'.inode[j] /\ disk'.inode[j].type # "free"
       /\ \A j \in Inums : disk'.inode[j].type = disk.inode[j].type
       /\ \A j \in Inums : disk'.dir[j] = disk.dir[j]
  BY ONLY <1>2, <1>6, <1>7, <1>8
<1>19. QED
  BY <1>2, <1>9, <1>10, <1>11, <1>12, <1>13, <1>14, <1>15, <1>16, <1>17, <1>18, DiskStep

-----------------------------------------------------------------------------
(* fork(). *)

LEMMA PairsCounted ==
  ASSUME NEW q, NEW R, IsFiniteSet(R)
  PROVE  IsFiniteSet({q} \X R) /\ Cardinality({q} \X R) = Cardinality(R)
<1>1. IsFiniteSet({q}) /\ Cardinality({q}) = 1
  BY FS_Singleton
<1>2. /\ IsFiniteSet({q} \X R)
      /\ Cardinality({q} \X R) = Cardinality({q}) * Cardinality(R)
  BY <1>1, FS_Product
<1>3. Cardinality(R) \in Nat
  BY FS_CardinalityType
<1>4. QED
  BY <1>1, <1>2, <1>3

\* The child has the descriptors of its parent.
LEMMA ForkedFds ==
  ASSUME TableTyped, NEW p \in Procs, NEW q \in Procs, ofile' = [ofile EXCEPT ![q] = ofile[p]],
         NEW f \in 1..NFILE, \A fd \in 1..NOFILE : ofile[q][fd] = 0
  PROVE  /\ Count(Fds(f)) \in Nat /\ Cardinality({fd \in 1..NOFILE : ofile[p][fd] = f}) \in Nat
         /\ Count(Fds(f))' = Count(Fds(f)) + Cardinality({fd \in 1..NOFILE : ofile[p][fd] = f})
<1>1. PICK R : R = {fd \in 1..NOFILE : ofile[p][fd] = f}
  OBVIOUS
<1>2. IsFiniteSet(R) /\ IsFiniteSet(Fds(f))
  <2>1. 1 \in Int /\ NOFILE \in Int
    BY FileSysAssumption
  <2>2. IsFiniteSet(1..NOFILE)
    BY <2>1, FS_Interval
  <2>3. IsFiniteSet(R)
    BY <2>2, <1>1, FS_Subset
  <2>4. QED
    BY <2>3, FiniteSets, FS_Subset DEF Fds
<1>3. IsFiniteSet({q} \X R) /\ Cardinality({q} \X R) = Cardinality(R)
  BY <1>2, PairsCounted
<1>4. PICK A, B, C : A = Fds(f) /\ B = {q} \X R /\ C = {x \in Procs \X (1..NOFILE) : ofile'[x[1]][x[2]] = f}
  OBVIOUS
<1>5. C = A \cup B
  <2>1. ASSUME NEW t \in Procs, NEW k \in 1..NOFILE
        PROVE  <<t, k>> \in C <=> <<t, k>> \in A \/ <<t, k>> \in B
    <3>1. <<t, k>> \in C <=> ofile'[t][k] = f
      BY <1>4
    <3>2. <<t, k>> \in A <=> ofile[t][k] = f
      BY <1>4 DEF Fds
    <3>3. <<t, k>> \in B <=> t = q /\ ofile[p][k] = f
      BY <1>1, <1>4
    <3>4. ofile'[t] = IF t = q THEN ofile[p] ELSE ofile[t]
      BY DEF TableTyped
    <3>5. t = q => ofile[t][k] # f
      OBVIOUS
    <3>6. QED
      BY ONLY <3>1, <3>2, <3>3, <3>4, <3>5
  <2>2. /\ A \subseteq Procs \X (1..NOFILE) /\ B \subseteq Procs \X (1..NOFILE)
        /\ C \subseteq Procs \X (1..NOFILE)
    BY <1>1, <1>4 DEF Fds
  <2>3. ASSUME NEW x \in Procs \X (1..NOFILE)
        PROVE  x \in C <=> x \in A \cup B
    <3>1. PICK t \in Procs, k \in 1..NOFILE : x = <<t, k>>
      OBVIOUS
    <3>2. QED
      BY ONLY <2>1, <3>1
  <2>4. QED
    BY ONLY <2>2, <2>3
<1>6. A \cap B = {}
  <2>1. ASSUME NEW x \in A, x \in B
        PROVE  FALSE
    <3>1. x[1] = q /\ x[2] \in 1..NOFILE /\ ofile[x[1]][x[2]] = f
      BY <2>1, <1>1, <1>4 DEF Fds
    <3>2. QED
      BY <3>1
  <2>2. QED
    BY <2>1
<1>7. IsFiniteSet(A) /\ IsFiniteSet(B)
  BY <1>2, <1>3, <1>4
<1>8. Cardinality(C) = Cardinality(A) + Cardinality(B) - Cardinality({})
  BY ONLY <1>5, <1>6, <1>7, FS_Union
<1>9. Cardinality(A) \in Nat /\ Cardinality(B) \in Nat /\ Cardinality({}) = 0
  BY ONLY <1>7, FS_CardinalityType, FS_EmptySet
<1>10. Count(Fds(f))' = Cardinality(C)
  BY <1>4 DEF Fds, Count
<1>11. QED
  BY ONLY <1>1, <1>3, <1>4, <1>8, <1>9, <1>10 DEF Count

LEMMA ForkKeeps ==
  ASSUME Inv, NEW p \in Procs, NEW q \in Procs, Fork(p, q)
  PROVE  Inv'
<1>1. /\ TypeOK /\ RefsExact /\ FilesUsed /\ RegsTyped /\ CacheTyped /\ TableTyped /\ DiskOK(disk)
      /\ ProcOK(q) /\ \A fd \in 1..NOFILE : ofile[p][fd] # 0 => ofile[p][fd] \in 1..NFILE
  <2>1. /\ TypeOK /\ RefsExact /\ FilesUsed /\ RegsTyped /\ CacheTyped /\ TableTyped /\ DiskOK(disk)
        /\ ProcOK(q)
    BY TypeParts DEF Inv, Shape
  <2>2. QED
    BY <2>1, FdCounted
<1>2. /\ pc[p] = "user" /\ cwd[p] # 0 /\ pc[q] = "user" /\ cwd[q] = 0
      /\ ofile' = [ofile EXCEPT ![q] = ofile[p]]
      /\ file' = [f \in 1..NFILE |-> [file[f] EXCEPT !.ref =
                    @ + Cardinality({fd \in 1..NOFILE : ofile[p][fd] = f})]]
      /\ cwd' = [cwd EXCEPT ![q] = cwd[p]] /\ iget(cwd[p])
      /\ disk' = disk /\ mem' = mem /\ lock' = lock
      /\ pc' = pc /\ cur' = cur /\ par' = par /\ old' = old /\ put' = put /\ stage' = stage
  BY DEF Fork, regs
<1>3. /\ cur[q] = 0 /\ par[q] = 0 /\ old[q] = 0 /\ put[q] = <<>> /\ stage[q] = 0
  BY <1>2, AtUser
<1>4. PICK d \in Inums : d = cwd[p]
  BY <1>1, <1>2 DEF TableTyped
<1>5. ref' \in [Inums -> Nat] /\ \A j \in Inums : ref'[j] = ref[j] + Same(d, j)
  BY <1>1, <1>2, <1>4, IgetDoes
<1>6. /\ cwd'[q] = d /\ \A t \in Procs \ {q} : cwd'[t] = cwd[t] /\ ofile'[t] = ofile[t]
      /\ cwd' \in [Procs -> {0} \cup Inums] /\ ofile'[q] = ofile[p]
      /\ ofile' \in [Procs -> [1..NOFILE -> 0..NFILE]]
  BY ONLY <1>1, <1>2, <1>4 DEF TableTyped
<1>7. \A fd \in 1..NOFILE : ofile[q][fd] = 0
  BY <1>1, <1>2 DEF ProcOK
<1>8. ASSUME NEW f \in 1..NFILE
      PROVE  /\ Count(Fds(f)) \in Nat /\ Cardinality({fd \in 1..NOFILE : ofile[p][fd] = f}) \in Nat
             /\ Count(Fds(f))' = Count(Fds(f)) + Cardinality({fd \in 1..NOFILE : ofile[p][fd] = f})
             /\ file'[f].ref = file[f].ref + Cardinality({fd \in 1..NOFILE : ofile[p][fd] = f})
             /\ file'[f].ip = file[f].ip /\ file[f].ref = Count(Fds(f))
             /\ file'[f] \in [ref : Nat, ip : {0} \cup Inums]
  <2>1. TableTyped /\ ofile' = [ofile EXCEPT ![q] = ofile[p]] /\ p \in Procs /\ q \in Procs
    BY <1>1, <1>2
  <2>2. /\ Count(Fds(f)) \in Nat /\ Cardinality({fd \in 1..NOFILE : ofile[p][fd] = f}) \in Nat
        /\ Count(Fds(f))' = Count(Fds(f)) + Cardinality({fd \in 1..NOFILE : ofile[p][fd] = f})
    BY ONLY <2>1, <1>7, <1>8, ForkedFds
  <2>3. PICK n \in Nat : n = Cardinality({fd \in 1..NOFILE : ofile[p][fd] = f})
    BY ONLY <2>2
  <2>4. file'[f] = [file[f] EXCEPT !.ref = @ + n]
    BY ONLY <1>2, <2>3, <1>8
  <2>5. file[f] \in [ref : Nat, ip : {0} \cup Inums]
    BY <1>1 DEF TableTyped
  <2>6. file'[f].ref = file[f].ref + n /\ file'[f].ip = file[f].ip /\ file'[f] \in [ref : Nat, ip : {0} \cup Inums]
    BY ONLY <2>4, <2>5, <2>3
  <2>7. file[f].ref = Count(Fds(f))
    BY <1>1 DEF RefsExact, Fds
  <2>8. QED
    BY ONLY <2>2, <2>3, <2>6, <2>7
<1>9. OthersStay(q)
  BY <1>2, <1>6 DEF OthersStay
<1>10. TypeOK'
  <2>1. RegsTyped' /\ CacheTyped' /\ DiskOK(disk)'
    BY ONLY <1>1, <1>2, <1>5 DEF RegsTyped, CacheTyped
  <2>2. TableTyped'
    <3>1. file' \in [1..NFILE -> [ref : Nat, ip : {0} \cup Inums]]
      <4>1. \A f \in 1..NFILE : file'[f] \in [ref : Nat, ip : {0} \cup Inums]
        BY ONLY <1>8
      <4>2. PICK g : g = [f \in 1..NFILE |-> file'[f]]
        OBVIOUS
      <4>3. file' = g
        BY ONLY <1>2, <4>2
      <4>4. QED
        BY ONLY <4>1, <4>2, <4>3
    <3>2. QED
      BY ONLY <3>1, <1>6 DEF TableTyped
  <2>3. QED
    BY <2>1, <2>2, TypePartsNext
<1>11. RefsExact'
  <2>1. ASSUME NEW i \in Inums
        PROVE  ref'[i] = Pointers(i)'
    <3>1. put'[q] \in Seq(Inums)
      BY ONLY <1>2, <1>3, SeqsOfInums
    <3>2. \A t \in Procs \ {q} : /\ cwd'[t] = cwd[t] /\ cur'[t] = cur[t] /\ par'[t] = par[t]
                                 /\ old'[t] = old[t] /\ put'[t] = put[t]
      BY ONLY <1>2, <1>6
    <3>3. q \in Procs /\ i \in Inums
      OBVIOUS
    <3>4. /\ Pointers(i) \in Nat /\ Count(FilesAt(i)) \in Nat
          /\ Pointers(i)' = Pointers(i) - Own(q, i) + Own(q, i)'
                            - Count(FilesAt(i)) + Count(FilesAt(i)')
      BY ONLY <1>1, <3>1, <3>2, <3>3, PointersMove
    <3>5. FilesAt(i)' = FilesAt(i)
      BY ONLY <1>8 DEF FilesAt
    <3>6. Own(q, i) = 0
      BY <1>2, <1>3, InPutIs DEF Own, Same, Inums
    <3>7. Own(q, i)' = Same(d, i)
      BY <1>2, <1>3, <1>6, InPutIs DEF Own, Same, Inums
    <3>8. ref[i] = Pointers(i) /\ Same(d, i) \in Nat
      BY <1>1 DEF RefsExact, Same
    <3>9. QED
      BY ONLY <3>3, <3>4, <3>5, <3>6, <3>7, <3>8, <1>5
  <2>2. ASSUME NEW f \in 1..NFILE
        PROVE  file'[f].ref = Count(Fds(f))'
    BY ONLY <1>8, <2>2
  <2>3. QED
    BY <2>1, <2>2 DEF RefsExact, Fds, Count
<1>12. FilesUsed'
  <2>1. ASSUME NEW f \in 1..NFILE
        PROVE  file'[f].ref = 0 <=> file'[f].ip = 0
    <3>1. file[f].ref = 0 <=> file[f].ip = 0
      BY <1>1 DEF FilesUsed
    <3>2. PICK n \in Nat : n = Cardinality({fd \in 1..NOFILE : ofile[p][fd] = f})
      BY ONLY <1>8, <2>1
    <3>3. file[f].ref \in Nat /\ file'[f].ref = file[f].ref + n /\ file'[f].ip = file[f].ip
      BY ONLY <1>8, <2>1, <3>2
    <3>4. ASSUME file[f].ref = 0
          PROVE  n = 0
      <4>1. Count(Fds(f)) = 0 /\ IsFiniteSet(Fds(f))
        BY <3>4, <1>8, FiniteSets, FS_Subset DEF Fds
      <4>2. Fds(f) = {}
        BY ONLY <4>1, FS_EmptySet DEF Count
      <4>3. {fd \in 1..NOFILE : ofile[p][fd] = f} = {}
        <5>1. ASSUME NEW fd \in 1..NOFILE, ofile[p][fd] = f
              PROVE  <<p, fd>> \in Fds(f)
          BY <5>1 DEF Fds
        <5>2. QED
          BY <5>1, <4>2
      <4>4. QED
        BY ONLY <4>3, <3>2, FS_EmptySet
    <3>5. QED
      BY ONLY <3>1, <3>2, <3>3, <3>4
  <2>2. QED
    BY <2>1 DEF FilesUsed
<1>13. ProcOK(q)'
  BY ONLY <1>1, <1>2, <1>3, <1>4, <1>6 DEF ProcOK, Inums
<1>14. /\ stage[q] # 1 /\ stage'[q] # 1 /\ par'[q] = 0 /\ pc'[q] \notin {"new", "child"}
       /\ old'[q] \in {0, old[q]} /\ pc'[q] # "dir"
  BY <1>2, <1>3
<1>15. QED
  BY <1>2, <1>3, <1>9, <1>10, <1>11, <1>12, <1>13, <1>14, QuietStep

-----------------------------------------------------------------------------
(* link(). *)

RegsStay(p) ==
  /\ stage' = stage
  /\ \A q \in Procs \ {p} : /\ pc'[q] = pc[q] /\ cur'[q] = cur[q] /\ par'[q] = par[q]
                            /\ old'[q] = old[q] /\ put'[q] = put[q]

\* A step of p that moves its pointers, and opens and closes nothing.
LEMMA MoveDoes ==
  ASSUME Inv, NEW p \in Procs, put[p] = <<>>, stage[p] = 0,
         RegsTyped', RegsStay(p), file' = file, ofile' = ofile, cwd' = cwd,
         DiskOK(disk'), lock' \in [Inums -> Procs \cup {NoProc}],
         mem' \in [Inums -> Dinode \cup {NoInode}], ref' \in [Inums -> Nat],
         \A j \in Inums : ref'[j] + Same(cur[p], j) + Same(par[p], j) + Same(old[p], j)
                          = ref[j] + Same(cur'[p], j) + Same(par'[p], j) + Same(old'[p], j)
                            + InPut(put'[p], j)
  PROVE  TypeOK' /\ RefsExact' /\ FilesUsed' /\ OthersStay(p)
<1>1. /\ TypeOK /\ RefsExact /\ FilesUsed /\ RegsTyped /\ CacheTyped /\ TableTyped
  BY TypeParts DEF Inv
<1>2. put'[p] \in Seq(Inums)
  BY DEF RegsTyped
<1>3. OthersStay(p)
  BY DEF OthersStay, RegsStay
<1>4. TypeOK'
  <2>1. CacheTyped' /\ TableTyped' /\ DiskOK(disk)'
    BY <1>1 DEF CacheTyped, TableTyped
  <2>2. QED
    BY <2>1, TypePartsNext
<1>5. RefsExact'
  <2>1. ASSUME NEW j \in Inums
        PROVE  ref'[j] = ref[j] - Own(p, j) + Own(p, j)'
    <3>1. Own(p, j) = Same(cwd[p], j) + Same(cur[p], j) + Same(par[p], j) + Same(old[p], j) + 0
      BY InPutIs DEF Own
    <3>2. Own(p, j)' = Same(cwd[p], j) + Same(cur'[p], j) + Same(par'[p], j) + Same(old'[p], j)
                       + InPut(put'[p], j)
      BY DEF Own, Same, InPut
    <3>3. /\ Same(cwd[p], j) \in Nat /\ Same(cur[p], j) \in Nat /\ Same(par[p], j) \in Nat
          /\ Same(old[p], j) \in Nat /\ Same(cur'[p], j) \in Nat /\ Same(par'[p], j) \in Nat
          /\ Same(old'[p], j) \in Nat /\ InPut(put'[p], j) \in Nat
      BY ONLY DEF Same, InPut
    <3>4. ref[j] \in Nat /\ ref'[j] \in Nat
      BY <1>1 DEF CacheTyped
    <3>5. ref'[j] + Same(cur[p], j) + Same(par[p], j) + Same(old[p], j)
          = ref[j] + Same(cur'[p], j) + Same(par'[p], j) + Same(old'[p], j) + InPut(put'[p], j)
      BY <2>1
    <3>6. PICK r \in Nat, s \in Nat, w \in Nat, a1 \in Nat, a2 \in Nat, a3 \in Nat :
            /\ r = ref[j] /\ s = ref'[j] /\ w = Same(cwd[p], j)
            /\ a1 = Same(cur[p], j) /\ a2 = Same(par[p], j) /\ a3 = Same(old[p], j)
      BY ONLY <3>3, <3>4
    <3>7. PICK b1 \in Nat, b2 \in Nat, b3 \in Nat, b4 \in Nat :
            /\ b1 = Same(cur'[p], j) /\ b2 = Same(par'[p], j) /\ b3 = Same(old'[p], j) /\ b4 = InPut(put'[p], j)
      BY ONLY <3>3
    <3>8. s + a1 + a2 + a3 = r + b1 + b2 + b3 + b4
      BY ONLY <3>5, <3>6, <3>7
    <3>9. s = r - (w + a1 + a2 + a3 + 0) + (w + b1 + b2 + b3 + b4)
      <4>1. /\ r \in Nat /\ s \in Nat /\ w \in Nat /\ a1 \in Nat /\ a2 \in Nat /\ a3 \in Nat
            /\ b1 \in Nat /\ b2 \in Nat /\ b3 \in Nat /\ b4 \in Nat
        OBVIOUS
      <4>2. QED
        BY ONLY <3>8, <4>1
    <3>10. QED
      BY ONLY <3>1, <3>2, <3>6, <3>7, <3>9
  <2>2. file' = file /\ ofile' = ofile /\ p \in Procs /\ put'[p] \in Seq(Inums)
    BY <1>2
  <2>3. QED
    BY ONLY <1>1, <1>3, <2>1, <2>2, RefsKept
<1>6. FilesUsed'
  BY <1>1 DEF FilesUsed
<1>7. QED
  BY <1>3, <1>4, <1>5, <1>6

\* Where it moves them.
LEMMA GotoSets ==
  ASSUME Inv, NEW p \in Procs, NEW l, NEW c, NEW d, NEW o, NEW puts, Goto(p, l, c, d, o, puts)
  PROVE  /\ RegsStay(p)
         /\ pc'[p] = l /\ cur'[p] = c /\ par'[p] = d /\ old'[p] = o /\ put'[p] = puts
         /\ stage' = stage
BY TypeParts DEF Inv, RegsTyped, Goto, RegsStay

LEMMA GotoTyped ==
  ASSUME Inv, NEW p \in Procs, NEW l \in Pcs, NEW c \in {0} \cup Inums, NEW d \in {0} \cup Inums,
         NEW o \in {0} \cup Inums, NEW puts \in Seq(Inums), Goto(p, l, c, d, o, puts)
  PROVE  RegsTyped'
BY TypeParts, GotoDoes DEF Inv

LEMMA LinkEntersKeeps ==
  ASSUME Inv, NEW p \in Procs, LinkEnters(p)
  PROVE  Inv'
<1>1. /\ TypeOK /\ Shape /\ RegsTyped /\ CacheTyped /\ TableTyped /\ DiskOK(disk)
      /\ OnlyDirs /\ Ranked /\ BlocksKept /\ \A q \in Procs : Reached(q) /\ ProcOK(q)
  BY TypeParts DEF Inv, Shape
<1>2. /\ At(p, "dir", cur[p]) /\ old[p] # 0 /\ Load(cur[p]).type # "free" /\ Seen(cur[p])
      /\ Leave(p, <<cur[p], old[p]>>)
      /\ ref' = ref /\ lock' = lock /\ file' = file /\ ofile' = ofile /\ cwd' = cwd
  BY DEF LinkEnters, table
<1>3. /\ cur[p] \in Inums /\ stage[p] = 0 /\ par[p] = 0 /\ cwd[p] # 0 /\ put[p] = <<>>
      /\ lock[cur[p]] = NoProc /\ Load(cur[p]) = disk.inode[cur[p]]
      /\ disk.inode[cur[p]] \in Dinode /\ old[p] \in Inums /\ pc[p] = "dir"
  BY <1>2, AtStep DEF At
<1>4. PICK dp \in Inums, o \in Inums : dp = cur[p] /\ o = old[p]
  BY <1>3
<1>5. disk.inode[dp].type = "dir" /\ disk.inode[o].type = "file" /\ o # dp
  BY ONLY <1>1, <1>2, <1>3, <1>4 DEF Reached
<1>6. PICK n \in Names : disk.dir[dp][n] = 0 /\ disk' = dirlink(disk, dp, n, o)
  BY <1>4 DEF LinkEnters
<1>7. /\ DiskOK(disk') /\ disk'.inode = disk.inode /\ disk'.used = disk.used
      /\ disk'.dir = [disk.dir EXCEPT ![dp] = [disk.dir[dp] EXCEPT ![n] = o]]
  <2>1. n \in Entries /\ dp \in Inums /\ o \in {0} \cup Inums
    BY DEF Entries
  <2>2. QED
    BY ONLY <1>1, <1>6, <2>1, DirlinkDoes
<1>8. /\ \A j \in Inums \ {dp} : disk'.dir[j] = disk.dir[j]
      /\ \A m \in Names : m # n => disk'.dir[dp][m] = disk.dir[dp][m]
      /\ disk'.dir[dp][n] = o
  <2>1. disk.dir \in [Inums -> [Entries -> {0} \cup Inums]] /\ dp \in Inums /\ Names \subseteq Entries
    BY <1>1 DEF DiskOK, Entries
  <2>2. disk'.dir[dp] = [disk.dir[dp] EXCEPT ![n] = o]
    BY ONLY <1>7, <2>1
  <2>3. n \in Names
    OBVIOUS
  <2>4. QED
    BY ONLY <1>7, <2>1, <2>2, <2>3
<1>9. /\ mem' \in [Inums -> Dinode \cup {NoInode}]
      /\ \A j \in Inums : \/ mem'[j] = mem[j]
                          \/ mem'[j] = disk.inode[j] /\ disk.inode[j].type # "free"
  BY <1>1, <1>2, <1>3, SeenDoes
<1>10. <<dp, o>> \in Seq(Inums) /\ <<dp, o>> # <<>> /\ Len(<<dp, o>>) = 2
  OBVIOUS
<1>11. Goto(p, "end", 0, 0, 0, <<dp, o>>)
  BY <1>2, <1>4, <1>10 DEF Leave
<1>a. /\ RegsTyped' /\ RegsStay(p) /\ pc'[p] = "end" /\ cur'[p] = 0 /\ par'[p] = 0 /\ old'[p] = 0
      /\ put'[p] = <<dp, o>> /\ stage' = stage
  <2>1. Inv /\ p \in Procs /\ "end" \in Pcs /\ 0 \in {0} \cup Inums
    BY DEF Pcs
  <2>2. QED
    BY ONLY <2>1, <1>10, <1>11, GotoTyped, GotoSets
<1>12. /\ TypeOK' /\ RefsExact' /\ FilesUsed' /\ OthersStay(p)
       /\ pc'[p] = "end" /\ cur'[p] = 0 /\ par'[p] = 0 /\ old'[p] = 0 /\ put'[p] = <<dp, o>>
       /\ stage'[p] = 0
  <2>1. ASSUME NEW j \in Inums
        PROVE  ref'[j] + Same(cur[p], j) + Same(par[p], j) + Same(old[p], j)
               = ref[j] + Same(cur'[p], j) + Same(par'[p], j) + Same(old'[p], j) + InPut(put'[p], j)
    <3>1. InPut(<<dp, o>>, j) = Same(dp, j) + Same(o, j)
      BY ONLY InPutIs
    <3>2. Same(0, j) = 0 /\ Same(par[p], j) = 0 /\ ref[j] \in Nat /\ Same(dp, j) \in Nat /\ Same(o, j) \in Nat
      BY <1>1, <1>3 DEF Same, Inums, CacheTyped
    <3>3. QED
      BY ONLY <3>1, <3>2, <1>2, <1>4, <1>a
  <2>2. lock' \in [Inums -> Procs \cup {NoProc}] /\ ref' \in [Inums -> Nat]
    BY <1>1, <1>2 DEF CacheTyped
  <2>3. Inv /\ p \in Procs
    OBVIOUS
  <2>4. TypeOK' /\ RefsExact' /\ FilesUsed' /\ OthersStay(p)
    BY ONLY <1>2, <1>3, <1>7, <1>9, <1>a, <2>1, <2>2, <2>3, MoveDoes
  <2>5. QED
    BY ONLY <1>3, <1>a, <2>4
<1>13. ProcOK(p)'
  BY ONLY <1>2, <1>3, <1>10, <1>12 DEF ProcOK
<1>14. Reached(p)'
  BY ONLY <1>12 DEF Reached
<1>15. OnlyDirs'
  BY ONLY <1>1, <1>5, <1>7, <1>8 DEF OnlyDirs
<1>16. Ranked'
  <2>1. \A q \in Procs : pc[q] = "new" => par[q] \in Inums \ {o} /\ cur[q] \in Inums
    <3>1. ASSUME NEW q \in Procs, pc[q] = "new"
          PROVE  par[q] \in Inums \ {o} /\ cur[q] \in Inums
      <4>1. par[q] # 0 /\ cur[q] # 0 /\ par[q] \in {0} \cup Inums /\ cur[q] \in {0} \cup Inums
        BY ONLY <1>1, <3>1 DEF ProcOK, RegsTyped
      <4>2. disk.inode[par[q]].type = "dir"
        BY ONLY <1>1, <3>1, <4>1 DEF Reached
      <4>3. QED
        BY ONLY <4>1, <4>2, <1>5
    <3>2. QED
      BY ONLY <3>1
  <2>2. \A m \in Names : disk.dir[o][m] = 0
    BY <1>1, <1>5 DEF OnlyDirs, Entries
  <2>3. \A j \in Inums, m \in Names : \/ disk'.dir[j][m] = 0 \/ disk'.dir[j][m] = disk.dir[j][m]
                                      \/ j = dp /\ disk'.dir[j][m] = o
    BY ONLY <1>8
  <2>4. \A q \in Procs : pc'[q] = "new" => pc[q] = "new" /\ par'[q] = par[q] /\ cur'[q] = cur[q]
    BY ONLY <1>12 DEF OthersStay
  <2>5. o \in Inums /\ dp \in Inums /\ o # dp
    BY <1>5
  <2>6. QED
    BY ONLY <1>1, <2>1, <2>2, <2>3, <2>4, <2>5, RankRaised
<1>17. BlocksKept'
  <2>1. \A q \in Procs : pc'[q] = "new" => pc[q] = "new" /\ cur'[q] = cur[q]
    BY ONLY <1>12 DEF OthersStay
  <2>2. QED
    BY <1>1, <1>7, <2>1, BlocksSame
<1>18. /\ \A j \in Inums : lock'[j] = lock[j] /\ (lock[j] = p => j = par'[p])
       /\ par'[p] # 0 => lock'[par'[p]] = p
       /\ \A j \in Inums : \/ mem'[j] = mem[j] /\ disk'.inode[j] = disk.inode[j]
                           \/ mem'[j] = disk'.inode[j] /\ disk'.inode[j].type # "free"
       /\ \A j \in Inums : disk'.inode[j].type = disk.inode[j].type
       /\ \A j \in Inums : disk'.dir[j] = disk.dir[j] \/ lock[j] \in {p, NoProc}
  <2>1. \A j \in Inums : lock[j] = p => j = par[p]
    BY <1>3, HoldsPar
  <2>2. QED
    BY ONLY <2>1, <1>2, <1>3, <1>4, <1>7, <1>8, <1>9, <1>12
<1>19. QED
  <2>1. Inv /\ p \in Procs
    OBVIOUS
  <2>2. QED
    BY ONLY <2>1, <1>3, <1>12, <1>13, <1>14, <1>15, <1>16, <1>17, <1>18, DiskStep

\* The inode at i is written, and nothing but it; no blocks change hands.
LEMMA InodeWritten ==
  ASSUME DiskOK(disk), CacheTyped, NEW i \in Inums, NEW ip \in Dinode,
         disk' = iupdate(disk, i, ip), mem' = [mem EXCEPT ![i] = disk'.inode[i]],
         ip.type = disk.inode[i].type, ip.blk = disk.inode[i].blk, ip.type # "free"
  PROVE  /\ DiskOK(disk') /\ disk'.dir = disk.dir /\ disk'.used = disk.used
         /\ mem' \in [Inums -> Dinode \cup {NoInode}]
         /\ \A j \in Inums : /\ disk'.inode[j].type = disk.inode[j].type
                             /\ disk'.inode[j].blk = disk.inode[j].blk
         /\ \A j \in Inums : \/ mem'[j] = mem[j] /\ disk'.inode[j] = disk.inode[j]
                             \/ mem'[j] = disk'.inode[j] /\ disk'.inode[j].type # "free"
<1>1. /\ DiskOK(disk') /\ disk'.inode = [disk.inode EXCEPT ![i] = ip]
      /\ disk'.dir = disk.dir /\ disk'.used = disk.used
  BY IupdateDoes
<1>2. disk.inode \in [Inums -> Dinode] /\ mem \in [Inums -> Dinode \cup {NoInode}]
  BY DEF DiskOK, CacheTyped
<1>3. disk'.inode[i] = ip /\ \A j \in Inums \ {i} : disk'.inode[j] = disk.inode[j]
  BY <1>1, <1>2
<1>4. mem'[i] = ip /\ \A j \in Inums \ {i} : mem'[j] = mem[j]
  BY <1>2, <1>3
<1>5. mem' \in [Inums -> Dinode \cup {NoInode}]
  BY <1>2, <1>3
<1>6. QED
  BY <1>1, <1>3, <1>4, <1>5

\* The rest of a step of p that writes an inode, and takes and gives back no lock.
LEMMA InodeStep ==
  ASSUME Inv, NEW p \in Procs, OthersStay(p), stage[p] = 0, stage'[p] = 0, par[p] = 0, par'[p] = 0,
         TypeOK', RefsExact', FilesUsed', ProcOK(p)', Reached(p)', pc'[p] # "new", lock' = lock,
         disk'.dir = disk.dir, disk'.used = disk.used,
         \A j \in Inums : /\ disk'.inode[j].type = disk.inode[j].type
                          /\ disk'.inode[j].blk = disk.inode[j].blk,
         \A j \in Inums : \/ mem'[j] = mem[j] /\ disk'.inode[j] = disk.inode[j]
                          \/ mem'[j] = disk'.inode[j] /\ disk'.inode[j].type # "free"
  PROVE  Inv'
<1>1. /\ Shape /\ RegsTyped /\ OnlyDirs /\ Ranked /\ BlocksKept
  BY TypeParts DEF Inv
<1>2. \A q \in Procs : pc'[q] = "new" => pc[q] = "new" /\ par'[q] = par[q] /\ cur'[q] = cur[q]
  BY DEF OthersStay
<1>3. OnlyDirs'
  BY <1>1 DEF OnlyDirs
<1>4. Ranked'
  <2>1. \A j \in Inums, n \in Names : disk'.dir[j][n] = disk.dir[j][n]
    OBVIOUS
  <2>2. QED
    BY ONLY <1>1, <1>2, <2>1, RankKept
<1>5. BlocksKept'
  <2>1. disk'.used = disk.used
    OBVIOUS
  <2>2. \A j \in Inums : /\ disk'.inode[j].type = disk.inode[j].type
                         /\ disk'.inode[j].blk = disk.inode[j].blk
    OBVIOUS
  <2>3. QED
    BY ONLY <1>1, <1>2, <2>1, <2>2, BlocksSame
<1>6. \A j \in Inums : lock'[j] = lock[j] /\ (lock[j] = p => j = par'[p])
  BY HoldsPar
<1>7. par'[p] # 0 => lock'[par'[p]] = p
  OBVIOUS
<1>8. QED
  BY <1>3, <1>4, <1>5, <1>6, <1>7, DiskStep

LEMMA LinkKeeps ==
  ASSUME Inv, NEW p \in Procs, Link(p)
  PROVE  Inv'
<1>1. /\ TypeOK /\ Shape /\ RegsTyped /\ CacheTyped /\ TableTyped /\ DiskOK(disk)
  BY TypeParts DEF Inv
<1>2. /\ At(p, "namei", cur[p]) /\ Load(cur[p]).type = "file"
      /\ disk' = iupdate(disk, cur[p], nlink(Load(cur[p]), 1))
      /\ mem' = [mem EXCEPT ![cur[p]] = disk'.inode[cur[p]]]
      /\ lock' = lock /\ file' = file /\ ofile' = ofile /\ cwd' = cwd
  BY DEF Link, table
<1>3. /\ cur[p] \in Inums /\ stage[p] = 0 /\ par[p] = 0 /\ cwd[p] # 0 /\ put[p] = <<>>
      /\ cwd[p] \in Inums /\ old[p] = 0
      /\ Load(cur[p]) = disk.inode[cur[p]] /\ disk.inode[cur[p]] \in Dinode
  BY <1>2, AtStep
<1>4. PICK i \in Inums : i = cur[p]
  BY <1>3
<1>5. PICK ip \in Dinode : /\ ip = nlink(Load(cur[p]), 1)
                           /\ ip.type = disk.inode[i].type /\ ip.blk = disk.inode[i].blk
  BY <1>3, <1>4, NlinkDoes
<1>6. disk.inode[i].type = "file" /\ ip.type = "file"
  BY <1>2, <1>3, <1>4, <1>5
<1>7. /\ DiskOK(disk') /\ disk'.dir = disk.dir /\ disk'.used = disk.used
      /\ mem' \in [Inums -> Dinode \cup {NoInode}]
      /\ \A j \in Inums : /\ disk'.inode[j].type = disk.inode[j].type
                          /\ disk'.inode[j].blk = disk.inode[j].blk
      /\ \A j \in Inums : \/ mem'[j] = mem[j] /\ disk'.inode[j] = disk.inode[j]
                          \/ mem'[j] = disk'.inode[j] /\ disk'.inode[j].type # "free"
  <2>1. /\ DiskOK(disk) /\ CacheTyped /\ i \in Inums /\ ip \in Dinode
        /\ disk' = iupdate(disk, i, ip) /\ mem' = [mem EXCEPT ![i] = disk'.inode[i]]
        /\ ip.type = disk.inode[i].type /\ ip.blk = disk.inode[i].blk /\ ip.type # "free"
    BY <1>1, <1>2, <1>4, <1>5, <1>6
  <2>2. QED
    BY ONLY <2>1, InodeWritten
<1>8. PICK start \in {Root, cwd[p]} : iget(start) /\ Goto(p, "parent", start, 0, i, <<>>)
  BY <1>4 DEF Link
<1>9. start \in Inums /\ start # 0
  BY <1>3, FileSysAssumption DEF Inums, Root
<1>10. ref' \in [Inums -> Nat] /\ \A j \in Inums : ref'[j] = ref[j] + Same(start, j)
  BY <1>1, <1>8, <1>9, IgetDoes
<1>12. /\ RegsTyped' /\ RegsStay(p) /\ pc'[p] = "parent" /\ cur'[p] = start /\ par'[p] = 0
       /\ old'[p] = i /\ put'[p] = <<>> /\ stage' = stage
  <2>1. /\ Inv /\ p \in Procs /\ "parent" \in Pcs /\ 0 \in {0} \cup Inums /\ start \in {0} \cup Inums
        /\ i \in {0} \cup Inums
    BY <1>9 DEF Pcs
  <2>2. QED
    BY ONLY <2>1, <1>8, SeqsOfInums, GotoTyped, GotoSets
<1>11. TypeOK' /\ RefsExact' /\ FilesUsed' /\ OthersStay(p)
  <2>1. ASSUME NEW j \in Inums
        PROVE  ref'[j] + Same(cur[p], j) + Same(par[p], j) + Same(old[p], j)
               = ref[j] + Same(cur'[p], j) + Same(par'[p], j) + Same(old'[p], j) + InPut(put'[p], j)
    <3>1. /\ Same(0, j) = 0 /\ Same(par[p], j) = 0 /\ Same(old[p], j) = 0 /\ InPut(<<>>, j) = 0
          /\ ref[j] \in Nat /\ Same(start, j) \in Nat /\ Same(i, j) \in Nat
      BY <1>1, <1>3, InPutIs DEF Same, Inums, CacheTyped
    <3>2. ref'[j] = ref[j] + Same(start, j)
      BY <1>10
    <3>3. QED
      BY ONLY <3>1, <3>2, <1>4, <1>12
  <2>2. lock' \in [Inums -> Procs \cup {NoProc}]
    BY <1>1, <1>2 DEF CacheTyped
  <2>3. Inv /\ p \in Procs
    OBVIOUS
  <2>4. QED
    BY ONLY <1>2, <1>3, <1>7, <1>10, <1>12, <2>1, <2>2, <2>3, MoveDoes
<1>13. ProcOK(p)'
  BY ONLY <1>2, <1>3, <1>9, <1>12 DEF ProcOK
<1>14. Reached(p)'
  BY ONLY <1>6, <1>7, <1>12 DEF Reached
<1>15. Inv /\ p \in Procs /\ par'[p] = 0 /\ pc'[p] # "new" /\ stage'[p] = 0
  BY <1>3, <1>12
<1>16. QED
  BY ONLY <1>2, <1>3, <1>7, <1>11, <1>13, <1>14, <1>15, InodeStep

LEMMA LinkBadKeeps ==
  ASSUME Inv, NEW p \in Procs, LinkBad(p)
  PROVE  Inv'
<1>1. /\ TypeOK /\ Shape /\ CacheFits /\ RegsTyped /\ CacheTyped /\ TableTyped /\ DiskOK(disk)
      /\ Reached(p)
  BY TypeParts DEF Inv
<1>2. /\ At(p, "bad", old[p]) /\ Leave(p, <<old[p]>>)
      /\ disk' = iupdate(disk, old[p], nlink(Load(old[p]), -1))
      /\ mem' = [mem EXCEPT ![old[p]] = disk'.inode[old[p]]]
      /\ ref' = ref /\ lock' = lock /\ file' = file /\ ofile' = ofile /\ cwd' = cwd
  BY DEF LinkBad, table
<1>3. /\ cur[p] = 0 /\ stage[p] = 0 /\ par[p] = 0 /\ cwd[p] \in Inums /\ put[p] = <<>>
      /\ old[p] \in Inums /\ pc[p] = "bad"
      /\ Load(old[p]) = disk.inode[old[p]] /\ disk.inode[old[p]] \in Dinode
  BY <1>1, <1>2, AtOld
<1>4. PICK i \in Inums : i = old[p]
  BY <1>3
<1>5. PICK ip \in Dinode : /\ ip = nlink(Load(old[p]), -1)
                           /\ ip.type = disk.inode[i].type /\ ip.blk = disk.inode[i].blk
  BY <1>3, <1>4, NlinkDoes
<1>6. disk.inode[i].type = "file" /\ ip.type = "file" /\ i # 0
  BY <1>1, <1>4, <1>5 DEF Reached, Inums
<1>7. /\ DiskOK(disk') /\ disk'.dir = disk.dir /\ disk'.used = disk.used
      /\ mem' \in [Inums -> Dinode \cup {NoInode}]
      /\ \A j \in Inums : /\ disk'.inode[j].type = disk.inode[j].type
                          /\ disk'.inode[j].blk = disk.inode[j].blk
      /\ \A j \in Inums : \/ mem'[j] = mem[j] /\ disk'.inode[j] = disk.inode[j]
                          \/ mem'[j] = disk'.inode[j] /\ disk'.inode[j].type # "free"
  <2>1. /\ DiskOK(disk) /\ CacheTyped /\ i \in Inums /\ ip \in Dinode
        /\ disk' = iupdate(disk, i, ip) /\ mem' = [mem EXCEPT ![i] = disk'.inode[i]]
        /\ ip.type = disk.inode[i].type /\ ip.blk = disk.inode[i].blk /\ ip.type # "free"
    BY <1>1, <1>2, <1>4, <1>5, <1>6
  <2>2. QED
    BY ONLY <2>1, InodeWritten
<1>8. <<i>> \in Seq(Inums) /\ <<i>> # <<>> /\ Len(<<i>>) = 1
  OBVIOUS
<1>9. Goto(p, "end", 0, 0, 0, <<i>>)
  BY <1>2, <1>4, <1>8 DEF Leave
<1>12. /\ RegsTyped' /\ RegsStay(p) /\ pc'[p] = "end" /\ cur'[p] = 0 /\ par'[p] = 0 /\ old'[p] = 0
       /\ put'[p] = <<i>> /\ stage' = stage
  <2>1. Inv /\ p \in Procs /\ "end" \in Pcs /\ 0 \in {0} \cup Inums
    BY DEF Pcs
  <2>2. QED
    BY ONLY <2>1, <1>8, <1>9, GotoTyped, GotoSets
<1>11. TypeOK' /\ RefsExact' /\ FilesUsed' /\ OthersStay(p)
  <2>1. ASSUME NEW j \in Inums
        PROVE  ref'[j] + Same(cur[p], j) + Same(par[p], j) + Same(old[p], j)
               = ref[j] + Same(cur'[p], j) + Same(par'[p], j) + Same(old'[p], j) + InPut(put'[p], j)
    <3>1. /\ Same(0, j) = 0 /\ Same(par[p], j) = 0 /\ Same(cur[p], j) = 0
          /\ InPut(<<i>>, j) = Same(i, j) /\ ref[j] \in Nat /\ Same(i, j) \in Nat
      BY <1>1, <1>3, InPutIs DEF Same, Inums, CacheTyped
    <3>2. QED
      BY ONLY <3>1, <1>2, <1>4, <1>12
  <2>2. lock' \in [Inums -> Procs \cup {NoProc}] /\ ref' \in [Inums -> Nat]
    BY <1>1, <1>2 DEF CacheTyped
  <2>3. Inv /\ p \in Procs
    OBVIOUS
  <2>4. QED
    BY ONLY <1>2, <1>3, <1>7, <1>12, <2>1, <2>2, <2>3, MoveDoes
<1>13. ProcOK(p)'
  BY ONLY <1>2, <1>3, <1>8, <1>12 DEF ProcOK, Inums
<1>14. Reached(p)'
  BY ONLY <1>12 DEF Reached
<1>15. Inv /\ p \in Procs /\ par'[p] = 0 /\ pc'[p] # "new" /\ stage'[p] = 0
  BY <1>3, <1>12
<1>16. QED
  BY ONLY <1>2, <1>3, <1>7, <1>11, <1>13, <1>14, <1>15, InodeStep

\* A panic leaves everything as it is.
LEMMA PanicsKeeps ==
  ASSUME Inv, NEW p \in Procs, Panics(p)
  PROVE  Inv'
<1>1. /\ TypeOK /\ RefsExact /\ FilesUsed /\ RegsTyped /\ CacheTyped /\ TableTyped /\ DiskOK(disk)
      /\ ProcOK(p) /\ Reached(p) /\ Shape /\ OnlyDirs /\ Ranked /\ BlocksKept /\ LocksHeld
  BY TypeParts DEF Inv, Shape
<1>2. /\ pc' = [pc EXCEPT ![p] = "panic"] /\ disk' = disk /\ ref' = ref /\ mem' = mem /\ lock' = lock
      /\ file' = file /\ ofile' = ofile /\ cwd' = cwd
      /\ cur' = cur /\ par' = par /\ old' = old /\ put' = put /\ stage' = stage
  BY DEF Panics, table, cache
<1>3. put[p] = <<>> /\ pc[p] \notin {"user", "end"} /\ stage[p] = 0
  <2>1. put[p] = <<>> /\ pc[p] \in {"namei", "parent", "dir", "found", "new", "child", "bad"}
    BY DEF Panics, At
  <2>2. QED
    BY <2>1, <1>1 DEF ProcOK, RegsTyped
<1>4. pc'[p] = "panic" /\ RegsTyped' /\ \A q \in Procs \ {p} : pc'[q] = pc[q]
  BY ONLY <1>1, <1>2 DEF RegsTyped, Pcs
<1>5. TypeOK'
  <2>1. CacheTyped' /\ TableTyped' /\ DiskOK(disk)'
    BY ONLY <1>1, <1>2 DEF CacheTyped, TableTyped
  <2>2. QED
    BY <1>4, <2>1, TypePartsNext
<1>6. RefsExact' /\ FilesUsed'
  BY <1>1, <1>2, RefsSame DEF FilesUsed, table
<1>7. OthersStay(p) /\ stage'[p] = 0
  BY <1>2, <1>3, <1>4 DEF OthersStay
<1>8. ProcOK(p)'
  BY ONLY <1>1, <1>2, <1>3, <1>4 DEF ProcOK
<1>9. Reached(p)'
  BY ONLY <1>1, <1>2, <1>4 DEF Reached
<1>10. OnlyDirs' /\ Ranked' /\ BlocksKept'
  <2>1. OnlyDirs'
    BY ONLY <1>1, <1>2 DEF OnlyDirs
  <2>2. \A q \in Procs : pc'[q] = "new" => pc[q] = "new" /\ par'[q] = par[q] /\ cur'[q] = cur[q]
    BY ONLY <1>2, <1>4
  <2>3. Ranked'
    BY <2>2, <1>1, <1>2, RankKept
  <2>4. BlocksKept'
    BY <2>2, <1>1, <1>2, BlocksSame
  <2>5. QED
    BY <2>1, <2>3, <2>4
<1>11. /\ \A j \in Inums : lock'[j] = lock[j] /\ (lock[j] = p => j = par'[p])
       /\ par'[p] # 0 => lock'[par'[p]] = p
  BY <1>1, <1>2, <1>3, HoldsPar DEF LocksHeld
<1>12. QED
  BY <1>2, <1>3, <1>5, <1>6, <1>7, <1>8, <1>9, <1>10, <1>11, DiskStep

-----------------------------------------------------------------------------
(* unlink(). *)

\* The disk as it was, and nobody about to enter a name but those who were.
LEMMA DiskStays ==
  ASSUME Inv, disk' = disk,
         \A q \in Procs : pc'[q] = "new" => pc[q] = "new" /\ par'[q] = par[q] /\ cur'[q] = cur[q]
  PROVE  OnlyDirs' /\ Ranked' /\ BlocksKept'
<1>1. OnlyDirs /\ Ranked /\ BlocksKept /\ RegsTyped /\ Shape
  BY TypeParts DEF Inv
<1>2. OnlyDirs'
  BY <1>1 DEF OnlyDirs
<1>3. Ranked'
  BY <1>1, RankKept
<1>4. BlocksKept'
  BY <1>1, BlocksSame
<1>5. QED
  BY <1>2, <1>3, <1>4

\* One lock changes hands.
LEMMA LockMoves ==
  ASSUME CacheTyped, NEW i \in Inums, NEW v \in Procs \cup {NoProc}, lock' = [lock EXCEPT ![i] = v]
  PROVE  /\ lock' \in [Inums -> Procs \cup {NoProc}] /\ lock'[i] = v
         /\ \A j \in Inums \ {i} : lock'[j] = lock[j]
BY DEF CacheTyped

LEMMA UnlinkFindsKeeps ==
  ASSUME Inv, NEW p \in Procs, UnlinkFinds(p)
  PROVE  Inv'
<1>1. /\ RegsTyped /\ CacheTyped /\ TableTyped /\ DiskOK(disk) /\ Reached(p)
  BY TypeParts DEF Inv
<1>2. /\ At(p, "dir", cur[p]) /\ old[p] = 0 /\ Load(cur[p]).type # "free" /\ Seen(cur[p])
      /\ lock' = [lock EXCEPT ![cur[p]] = p]
      /\ disk' = disk /\ file' = file /\ ofile' = ofile /\ cwd' = cwd
  BY DEF UnlinkFinds, table
<1>3. /\ cur[p] \in Inums /\ stage[p] = 0 /\ par[p] = 0 /\ cwd[p] # 0 /\ put[p] = <<>>
      /\ lock[cur[p]] = NoProc /\ Load(cur[p]) = disk.inode[cur[p]]
      /\ disk.inode[cur[p]] \in Dinode /\ pc[p] = "dir"
  BY <1>2, AtStep DEF At
<1>4. PICK dp \in Inums : dp = cur[p]
  BY <1>3
<1>5. disk.inode[dp].type = "dir"
  BY ONLY <1>1, <1>3, <1>4 DEF Reached
<1>6. PICK n \in Names : /\ disk.dir[dp][n] # 0 /\ iget(disk.dir[dp][n])
                         /\ Goto(p, "child", disk.dir[dp][n], dp, 0, <<>>)
  BY <1>4 DEF UnlinkFinds
<1>7. PICK i \in Inums : i = disk.dir[dp][n] /\ i # 0
  <2>1. n \in Entries
    BY DEF Entries
  <2>2. disk.dir[dp][n] \in {0} \cup Inums
    BY <2>1, EntryIs
  <2>3. QED
    BY <2>2, <1>6
<1>8. ref' \in [Inums -> Nat] /\ \A j \in Inums : ref'[j] = ref[j] + Same(i, j)
  BY <1>1, <1>6, <1>7, IgetDoes
<1>9. /\ mem' \in [Inums -> Dinode \cup {NoInode}]
      /\ \A j \in Inums : \/ mem'[j] = mem[j]
                          \/ mem'[j] = disk.inode[j] /\ disk.inode[j].type # "free"
  BY <1>1, <1>2, <1>3, SeenDoes
<1>10. /\ lock' \in [Inums -> Procs \cup {NoProc}] /\ lock'[dp] = p
       /\ \A j \in Inums \ {dp} : lock'[j] = lock[j]
  BY <1>1, <1>2, <1>4, LockMoves
<1>11. /\ RegsTyped' /\ RegsStay(p) /\ pc'[p] = "child" /\ cur'[p] = i /\ par'[p] = dp
       /\ old'[p] = 0 /\ put'[p] = <<>> /\ stage' = stage
  <2>1. /\ Inv /\ p \in Procs /\ "child" \in Pcs /\ 0 \in {0} \cup Inums /\ i \in {0} \cup Inums
        /\ dp \in {0} \cup Inums /\ Goto(p, "child", i, dp, 0, <<>>)
    BY <1>6, <1>7 DEF Pcs
  <2>2. QED
    BY ONLY <2>1, SeqsOfInums, GotoTyped, GotoSets
<1>12. TypeOK' /\ RefsExact' /\ FilesUsed' /\ OthersStay(p) /\ stage'[p] = 0
  <2>1. ASSUME NEW j \in Inums
        PROVE  ref'[j] + Same(cur[p], j) + Same(par[p], j) + Same(old[p], j)
               = ref[j] + Same(cur'[p], j) + Same(par'[p], j) + Same(old'[p], j) + InPut(put'[p], j)
    <3>1. /\ Same(0, j) = 0 /\ Same(par[p], j) = 0 /\ Same(old[p], j) = 0 /\ InPut(<<>>, j) = 0
          /\ ref[j] \in Nat /\ Same(dp, j) \in Nat /\ Same(i, j) \in Nat
      BY <1>1, <1>2, <1>3, InPutIs DEF Same, Inums, CacheTyped
    <3>2. ref'[j] = ref[j] + Same(i, j)
      BY <1>8
    <3>3. QED
      BY ONLY <3>1, <3>2, <1>4, <1>11
  <2>2. Inv /\ p \in Procs /\ DiskOK(disk')
    BY <1>1, <1>2
  <2>3. TypeOK' /\ RefsExact' /\ FilesUsed' /\ OthersStay(p)
    BY ONLY <1>2, <1>3, <1>8, <1>9, <1>10, <1>11, <2>1, <2>2, MoveDoes
  <2>4. QED
    BY ONLY <1>3, <1>11, <2>3
<1>13. ProcOK(p)'
  <2>1. Len(<<>>) = 0 /\ dp # 0 /\ i # 0 /\ p \in Procs
    BY <1>7 DEF Inums
  <2>2. QED
    BY ONLY <1>2, <1>3, <1>11, <1>12, <2>1 DEF ProcOK
<1>14. Reached(p)'
  <2>1. n \in Names
    OBVIOUS
  <2>2. QED
    BY ONLY <1>2, <1>5, <1>7, <1>11, <2>1 DEF Reached
<1>15. OnlyDirs' /\ Ranked' /\ BlocksKept'
  <2>1. \A q \in Procs : pc'[q] = "new" => pc[q] = "new" /\ par'[q] = par[q] /\ cur'[q] = cur[q]
    BY ONLY <1>11 DEF RegsStay
  <2>2. QED
    BY <2>1, <1>2, DiskStays
<1>16. /\ \A j \in Inums : \/ lock'[j] = lock[j] /\ (lock[j] = p => j = par'[p])
                           \/ lock[j] \in {p, NoProc} /\ lock'[j] = p /\ j = par'[p]
       /\ par'[p] # 0 => lock'[par'[p]] = p
       /\ \A j \in Inums : \/ mem'[j] = mem[j] /\ disk'.inode[j] = disk.inode[j]
                           \/ mem'[j] = disk'.inode[j] /\ disk'.inode[j].type # "free"
       /\ \A j \in Inums : disk'.inode[j].type = disk.inode[j].type
       /\ \A j \in Inums : disk'.dir[j] = disk.dir[j]
  <2>1. \A j \in Inums : lock[j] # p
    BY <1>3, HoldsPar DEF Inums
  <2>2. QED
    BY ONLY <2>1, <1>2, <1>3, <1>4, <1>9, <1>10, <1>11
<1>17. QED
  <2>1. Inv /\ p \in Procs
    OBVIOUS
  <2>2. QED
    BY ONLY <2>1, <1>3, <1>12, <1>13, <1>14, <1>15, <1>16, DiskStep

LEMMA UnlinkNotEmptyKeeps ==
  ASSUME Inv, NEW p \in Procs, UnlinkNotEmpty(p)
  PROVE  Inv'
<1>1. /\ TypeOK /\ Shape /\ CacheFits /\ LocksHeld
      /\ RegsTyped /\ CacheTyped /\ TableTyped /\ DiskOK(disk) /\ Reached(p)
  BY TypeParts DEF Inv
<1>2. /\ At(p, "child", cur[p]) /\ Load(cur[p]).type = "dir" /\ Seen(cur[p])
      /\ Leave(p, <<cur[p], par[p]>>) /\ lock' = [lock EXCEPT ![par[p]] = NoProc]
      /\ disk' = disk /\ ref' = ref /\ file' = file /\ ofile' = ofile /\ cwd' = cwd
  BY DEF UnlinkNotEmpty, table
<1>3. /\ cur[p] \in Inums /\ stage[p] = 0 /\ cwd[p] \in Inums /\ put[p] = <<>>
      /\ lock[cur[p]] = NoProc /\ Load(cur[p]) = disk.inode[cur[p]]
      /\ disk.inode[cur[p]] \in Dinode /\ pc[p] = "child"
  BY <1>1, <1>2, AtCur
<1>4. par[p] \in Inums /\ lock[par[p]] = p /\ old[p] = 0
  BY <1>1, <1>2, AtPar
<1>5. PICK i \in Inums, dp \in Inums : i = cur[p] /\ dp = par[p]
  BY <1>3, <1>4
<1>6. /\ mem' \in [Inums -> Dinode \cup {NoInode}]
      /\ \A j \in Inums : \/ mem'[j] = mem[j]
                          \/ mem'[j] = disk.inode[j] /\ disk.inode[j].type # "free"
  BY <1>1, <1>2, <1>3, SeenDoes
<1>7. /\ lock' \in [Inums -> Procs \cup {NoProc}] /\ lock'[dp] = NoProc
      /\ \A j \in Inums \ {dp} : lock'[j] = lock[j]
  BY <1>1, <1>2, <1>5, LockMoves
<1>8. <<i, dp>> \in Seq(Inums) /\ <<i, dp>> # <<>> /\ Len(<<i, dp>>) = 2
  OBVIOUS
<1>9. /\ RegsTyped' /\ RegsStay(p) /\ pc'[p] = "end" /\ cur'[p] = 0 /\ par'[p] = 0
      /\ old'[p] = 0 /\ put'[p] = <<i, dp>> /\ stage' = stage
  <2>1. Inv /\ p \in Procs /\ "end" \in Pcs /\ 0 \in {0} \cup Inums
    BY DEF Pcs
  <2>2. Goto(p, "end", 0, 0, 0, <<i, dp>>)
    BY <1>2, <1>5, <1>8 DEF Leave
  <2>3. QED
    BY ONLY <2>1, <2>2, <1>8, GotoTyped, GotoSets
<1>10. TypeOK' /\ RefsExact' /\ FilesUsed' /\ OthersStay(p) /\ stage'[p] = 0
  <2>1. ASSUME NEW j \in Inums
        PROVE  ref'[j] + Same(cur[p], j) + Same(par[p], j) + Same(old[p], j)
               = ref[j] + Same(cur'[p], j) + Same(par'[p], j) + Same(old'[p], j) + InPut(put'[p], j)
    <3>1. /\ Same(0, j) = 0 /\ Same(old[p], j) = 0
          /\ ref[j] \in Nat /\ Same(dp, j) \in Nat /\ Same(i, j) \in Nat
      BY <1>1, <1>4 DEF Same, Inums, CacheTyped
    <3>2. InPut(<<i, dp>>, j) = Same(i, j) + Same(dp, j)
      BY ONLY InPutIs
    <3>3. QED
      BY ONLY <3>1, <3>2, <1>2, <1>5, <1>9
  <2>2. Inv /\ p \in Procs /\ DiskOK(disk') /\ ref' \in [Inums -> Nat]
    BY <1>1, <1>2 DEF CacheTyped
  <2>3. TypeOK' /\ RefsExact' /\ FilesUsed' /\ OthersStay(p)
    BY ONLY <1>2, <1>3, <1>6, <1>7, <1>9, <2>1, <2>2, MoveDoes
  <2>4. QED
    BY ONLY <1>3, <1>9, <2>3
<1>11. ProcOK(p)'
  <2>1. cwd[p] # 0 /\ p \in Procs
    BY <1>3 DEF Inums
  <2>2. QED
    BY ONLY <2>1, <1>2, <1>8, <1>9, <1>10 DEF ProcOK
<1>12. Reached(p)'
  BY ONLY <1>9 DEF Reached
<1>13. OnlyDirs' /\ Ranked' /\ BlocksKept'
  <2>1. \A q \in Procs : pc'[q] = "new" => pc[q] = "new" /\ par'[q] = par[q] /\ cur'[q] = cur[q]
    BY ONLY <1>9 DEF RegsStay
  <2>2. QED
    BY <2>1, <1>2, DiskStays
<1>14. /\ \A j \in Inums : \/ lock'[j] = lock[j] /\ (lock[j] = p => j = par'[p])
                           \/ lock[j] \in {p, NoProc} /\ lock'[j] = NoProc
       /\ \A j \in Inums : \/ mem'[j] = mem[j] /\ disk'.inode[j] = disk.inode[j]
                           \/ mem'[j] = disk'.inode[j] /\ disk'.inode[j].type # "free"
       /\ \A j \in Inums : disk'.inode[j].type = disk.inode[j].type
       /\ \A j \in Inums : disk'.dir[j] = disk.dir[j]
  <2>1. \A j \in Inums : lock[j] = p => j = par[p]
    BY <1>3, HoldsPar
  <2>2. QED
    BY ONLY <2>1, <1>2, <1>4, <1>5, <1>6, <1>7
<1>15. QED
  <2>1. Inv /\ p \in Procs /\ par'[p] = 0
    BY <1>9
  <2>2. QED
    BY ONLY <2>1, <1>3, <1>10, <1>11, <1>12, <1>13, <1>14, DiskStep

\* Two inodes are written, and what the cache has of them.
LEMMA TwoWritten ==
  ASSUME CacheTyped, DiskOK(disk'), NEW i \in Inums, NEW k \in Inums,
         \A j \in Inums \ {i, k} : disk'.inode[j] = disk.inode[j],
         mem' = [mem EXCEPT ![i] = disk'.inode[i], ![k] = disk'.inode[k]],
         disk'.inode[i].type = disk.inode[i].type, disk'.inode[k].type = disk.inode[k].type,
         disk.inode[i].type # "free", disk.inode[k].type # "free"
  PROVE  /\ mem' \in [Inums -> Dinode \cup {NoInode}]
         /\ \A j \in Inums : disk'.inode[j].type = disk.inode[j].type
         /\ \A j \in Inums : \/ mem'[j] = mem[j] /\ disk'.inode[j] = disk.inode[j]
                             \/ mem'[j] = disk'.inode[j] /\ disk'.inode[j].type # "free"
<1>1. disk'.inode \in [Inums -> Dinode] /\ mem \in [Inums -> Dinode \cup {NoInode}]
  BY DEF DiskOK, CacheTyped
<1>2. \A j \in {i, k} : mem'[j] = disk'.inode[j]
  BY <1>1
<1>3. \A j \in Inums \ {i, k} : mem'[j] = mem[j]
  BY <1>1
<1>4. mem' \in [Inums -> Dinode \cup {NoInode}]
  BY <1>1
<1>5. QED
  BY <1>2, <1>3, <1>4

\* What unlink() writes: the entry, and the links of the inode and the directory.
LEMMA UnlinkWrites ==
  ASSUME DiskOK(disk), NEW i \in Inums, NEW dp \in Inums, i # dp, NEW n \in Names,
         \/ disk' = dirlink(iupdate(disk, i, nlink(disk.inode[i], -1)), dp, n, 0)
         \/ disk' = iupdate(dirlink(iupdate(disk, i, nlink(disk.inode[i], -1)), dp, n, 0),
                            dp, nlink(disk.inode[dp], -1))
  PROVE  /\ DiskOK(disk') /\ disk'.used = disk.used
         /\ \A j \in Inums \ {dp} : disk'.dir[j] = disk.dir[j]
         /\ disk'.dir[dp] = [disk.dir[dp] EXCEPT ![n] = 0]
         /\ \A j \in Inums \ {i, dp} : disk'.inode[j] = disk.inode[j]
         /\ disk'.inode[i] = nlink(disk.inode[i], -1)
         /\ \A j \in {i, dp} : /\ disk'.inode[j].type = disk.inode[j].type
                               /\ disk'.inode[j].blk = disk.inode[j].blk
<1>1. disk.inode[i] \in Dinode /\ disk.inode[dp] \in Dinode /\ disk.inode \in [Inums -> Dinode]
  BY DEF DiskOK
<1>2. PICK ip \in Dinode : /\ ip = nlink(disk.inode[i], -1)
                           /\ ip.type = disk.inode[i].type /\ ip.blk = disk.inode[i].blk
  BY <1>1, NlinkDoes
<1>3. PICK c : c = iupdate(disk, i, ip)
  OBVIOUS
<1>4. /\ DiskOK(c) /\ c.inode = [disk.inode EXCEPT ![i] = ip]
      /\ c.dir = disk.dir /\ c.used = disk.used
  BY <1>3, IupdateDoes
<1>5. PICK d : d = dirlink(c, dp, n, 0)
  OBVIOUS
<1>6. /\ DiskOK(d) /\ d.inode = c.inode /\ d.used = c.used
      /\ d.dir = [c.dir EXCEPT ![dp] = [c.dir[dp] EXCEPT ![n] = 0]]
  <2>1. n \in Entries /\ 0 \in {0} \cup Inums /\ dp \in Inums
    BY DEF Entries
  <2>2. QED
    BY ONLY <2>1, <1>4, <1>5, DirlinkDoes
<1>a. /\ d.inode[i] = ip /\ \A j \in Inums \ {i} : d.inode[j] = disk.inode[j]
      /\ \A j \in Inums \ {dp} : d.dir[j] = disk.dir[j]
      /\ d.dir[dp] = [disk.dir[dp] EXCEPT ![n] = 0] /\ d.used = disk.used
  <2>1. disk.dir \in [Inums -> [Entries -> {0} \cup Inums]]
    BY DEF DiskOK
  <2>2. QED
    BY <2>1, <1>1, <1>4, <1>6
<1>7. CASE disk' = d
  BY <1>2, <1>6, <1>7, <1>a
<1>8. CASE disk' = iupdate(d, dp, nlink(disk.inode[dp], -1))
  <2>1. PICK kp \in Dinode : /\ kp = nlink(disk.inode[dp], -1)
                             /\ kp.type = disk.inode[dp].type /\ kp.blk = disk.inode[dp].blk
    BY <1>1, NlinkDoes
  <2>2. disk' = iupdate(d, dp, kp) /\ dp \in Inums
    BY <2>1, <1>8
  <2>3. /\ DiskOK(disk') /\ disk'.inode = [d.inode EXCEPT ![dp] = kp]
        /\ disk'.dir = d.dir /\ disk'.used = d.used
    BY ONLY <2>2, <2>1, <1>6, IupdateDoes
  <2>4. disk'.inode[dp] = kp /\ \A j \in Inums \ {dp} : disk'.inode[j] = d.inode[j]
    <3>1. d.inode \in [Inums -> Dinode]
      BY <1>6 DEF DiskOK
    <3>2. QED
      BY <3>1, <2>3
  <2>5. QED
    BY <2>1, <2>3, <2>4, <1>2, <1>a
<1>9. QED
  BY <1>2, <1>3, <1>5, <1>7, <1>8

LEMMA UnlinkKeeps ==
  ASSUME Inv, NEW p \in Procs, Unlink(p)
  PROVE  Inv'
<1>1. /\ TypeOK /\ Shape /\ CacheFits /\ LocksHeld /\ OnlyDirs /\ Ranked /\ BlocksKept
      /\ RegsTyped /\ CacheTyped /\ TableTyped /\ DiskOK(disk) /\ Reached(p)
  BY TypeParts DEF Inv
<1>2. /\ At(p, "child", cur[p]) /\ Load(cur[p]).type # "free"
      /\ mem' = [mem EXCEPT ![cur[p]] = disk'.inode[cur[p]], ![par[p]] = disk'.inode[par[p]]]
      /\ Leave(p, <<par[p], cur[p]>>) /\ lock' = [lock EXCEPT ![par[p]] = NoProc]
      /\ ref' = ref /\ file' = file /\ ofile' = ofile /\ cwd' = cwd
  BY DEF Unlink, table
<1>3. /\ cur[p] \in Inums /\ stage[p] = 0 /\ cwd[p] \in Inums /\ put[p] = <<>>
      /\ lock[cur[p]] = NoProc /\ Load(cur[p]) = disk.inode[cur[p]]
  BY <1>1, <1>2, AtCur
<1>4. /\ par[p] \in Inums /\ lock[par[p]] = p /\ old[p] = 0 /\ par[p] # cur[p]
      /\ Load(par[p]) = disk.inode[par[p]] /\ disk.inode[par[p]].type = "dir"
  BY <1>1, <1>2, AtPar
<1>5. PICK i \in Inums, dp \in Inums : i = cur[p] /\ dp = par[p]
  BY <1>3, <1>4
<1>6. disk.inode[i].type # "free" /\ disk.inode[dp].type = "dir" /\ i # dp
  BY <1>2, <1>3, <1>4, <1>5
<1>7. PICK n \in Names :
        \/ disk' = dirlink(iupdate(disk, i, nlink(disk.inode[i], -1)), dp, n, 0)
        \/ disk' = iupdate(dirlink(iupdate(disk, i, nlink(disk.inode[i], -1)), dp, n, 0),
                           dp, nlink(disk.inode[dp], -1))
  BY <1>3, <1>4, <1>5 DEF Unlink
<1>8. /\ DiskOK(disk') /\ disk'.used = disk.used
      /\ \A j \in Inums \ {dp} : disk'.dir[j] = disk.dir[j]
      /\ disk'.dir[dp] = [disk.dir[dp] EXCEPT ![n] = 0]
      /\ \A j \in Inums \ {i, dp} : disk'.inode[j] = disk.inode[j]
      /\ \A j \in {i, dp} : /\ disk'.inode[j].type = disk.inode[j].type
                            /\ disk'.inode[j].blk = disk.inode[j].blk
  <2>1. DiskOK(disk) /\ i \in Inums /\ dp \in Inums /\ i # dp /\ n \in Names
    BY <1>1, <1>6
  <2>2. QED
    BY ONLY <2>1, <1>7, UnlinkWrites
<1>10. /\ mem' \in [Inums -> Dinode \cup {NoInode}]
       /\ \A j \in Inums : /\ disk'.inode[j].type = disk.inode[j].type
                           /\ disk'.inode[j].blk = disk.inode[j].blk
       /\ \A j \in Inums : \/ mem'[j] = mem[j] /\ disk'.inode[j] = disk.inode[j]
                           \/ mem'[j] = disk'.inode[j] /\ disk'.inode[j].type # "free"
  <2>1. /\ CacheTyped /\ i \in Inums /\ dp \in Inums
        /\ mem' = [mem EXCEPT ![i] = disk'.inode[i], ![dp] = disk'.inode[dp]]
        /\ disk'.inode[i].type = disk.inode[i].type /\ disk'.inode[dp].type = disk.inode[dp].type
        /\ disk.inode[i].type # "free" /\ disk.inode[dp].type # "free"
    BY <1>1, <1>2, <1>5, <1>6, <1>8
  <2>2. /\ mem' \in [Inums -> Dinode \cup {NoInode}]
        /\ \A j \in Inums : disk'.inode[j].type = disk.inode[j].type
        /\ \A j \in Inums : \/ mem'[j] = mem[j] /\ disk'.inode[j] = disk.inode[j]
                            \/ mem'[j] = disk'.inode[j] /\ disk'.inode[j].type # "free"
    BY ONLY <2>1, <1>8, TwoWritten
  <2>3. QED
    BY ONLY <2>2, <1>8
<1>11. /\ lock' \in [Inums -> Procs \cup {NoProc}] /\ lock'[dp] = NoProc
       /\ \A j \in Inums \ {dp} : lock'[j] = lock[j]
  BY <1>1, <1>2, <1>5, LockMoves
<1>12. <<dp, i>> \in Seq(Inums) /\ <<dp, i>> # <<>> /\ Len(<<dp, i>>) = 2
  OBVIOUS
<1>13. /\ RegsTyped' /\ RegsStay(p) /\ pc'[p] = "end" /\ cur'[p] = 0 /\ par'[p] = 0
       /\ old'[p] = 0 /\ put'[p] = <<dp, i>> /\ stage' = stage
  <2>1. Inv /\ p \in Procs /\ "end" \in Pcs /\ 0 \in {0} \cup Inums
    BY DEF Pcs
  <2>2. Goto(p, "end", 0, 0, 0, <<dp, i>>)
    BY <1>2, <1>5, <1>12 DEF Leave
  <2>3. QED
    BY ONLY <2>1, <2>2, <1>12, GotoTyped, GotoSets
<1>14. TypeOK' /\ RefsExact' /\ FilesUsed' /\ OthersStay(p) /\ stage'[p] = 0
  <2>1. ASSUME NEW j \in Inums
        PROVE  ref'[j] + Same(cur[p], j) + Same(par[p], j) + Same(old[p], j)
               = ref[j] + Same(cur'[p], j) + Same(par'[p], j) + Same(old'[p], j) + InPut(put'[p], j)
    <3>1. /\ Same(0, j) = 0 /\ Same(old[p], j) = 0
          /\ ref[j] \in Nat /\ Same(dp, j) \in Nat /\ Same(i, j) \in Nat
      BY <1>1, <1>4 DEF Same, Inums, CacheTyped
    <3>2. InPut(<<dp, i>>, j) = Same(dp, j) + Same(i, j)
      BY ONLY InPutIs
    <3>3. QED
      BY ONLY <3>1, <3>2, <1>2, <1>5, <1>13
  <2>2. Inv /\ p \in Procs /\ ref' \in [Inums -> Nat]
    BY <1>1, <1>2 DEF CacheTyped
  <2>3. TypeOK' /\ RefsExact' /\ FilesUsed' /\ OthersStay(p)
    BY ONLY <1>2, <1>3, <1>8, <1>10, <1>11, <1>13, <2>1, <2>2, MoveDoes
  <2>4. QED
    BY ONLY <1>3, <1>13, <2>3
<1>15. ProcOK(p)'
  <2>1. cwd[p] # 0 /\ p \in Procs
    BY <1>3 DEF Inums
  <2>2. QED
    BY ONLY <2>1, <1>2, <1>12, <1>13, <1>14 DEF ProcOK
<1>16. Reached(p)'
  BY ONLY <1>13 DEF Reached
<1>17. /\ \A j \in Inums \ {dp} : disk'.dir[j] = disk.dir[j]
       /\ \A m \in Entries : disk'.dir[dp][m] \in {0, disk.dir[dp][m]}
  <2>1. disk.dir \in [Inums -> [Entries -> {0} \cup Inums]] /\ dp \in Inums
    BY <1>1 DEF DiskOK
  <2>2. QED
    BY ONLY <1>8, <2>1
<1>18. OnlyDirs' /\ Ranked' /\ BlocksKept'
  <2>1. \A q \in Procs : pc'[q] = "new" => pc[q] = "new" /\ par'[q] = par[q] /\ cur'[q] = cur[q]
    BY ONLY <1>13 DEF RegsStay
  <2>2. OnlyDirs'
    BY ONLY <1>1, <1>6, <1>10, <1>17 DEF OnlyDirs
  <2>3. Ranked'
    <3>1. \A j \in Inums, m \in Names : disk'.dir[j][m] = 0 \/ disk'.dir[j][m] = disk.dir[j][m]
      BY <1>17 DEF Entries
    <3>2. QED
      BY ONLY <3>1, <2>1, <1>1, RankKept
  <2>4. BlocksKept'
    BY ONLY <2>1, <1>1, <1>8, <1>10, BlocksSame
  <2>5. QED
    BY <2>2, <2>3, <2>4
<1>19. /\ \A j \in Inums : \/ lock'[j] = lock[j] /\ (lock[j] = p => j = par'[p])
                           \/ lock[j] \in {p, NoProc} /\ lock'[j] = NoProc
       /\ \A j \in Inums : disk'.dir[j] = disk.dir[j] \/ lock[j] \in {p, NoProc}
  <2>1. \A j \in Inums : lock[j] = p => j = par[p]
    BY <1>3, HoldsPar
  <2>2. QED
    BY ONLY <2>1, <1>4, <1>5, <1>11, <1>17
<1>20. QED
  <2>1. Inv /\ p \in Procs /\ par'[p] = 0
    BY <1>13
  <2>2. QED
    BY ONLY <2>1, <1>3, <1>10, <1>14, <1>15, <1>16, <1>18, <1>19, DiskStep

-----------------------------------------------------------------------------
(* create() and open(). *)

\* A process that is about to enter a new inode holds two different ones.
LEMMA NewHolds ==
  ASSUME Inv, NEW q \in Procs, pc[q] = "new"
  PROVE  /\ par[q] \in Inums /\ cur[q] \in Inums
         /\ disk.inode[par[q]].type = "dir" /\ disk.inode[cur[q]].type # "free"
<1>1. ProcOK(q) /\ RegsTyped /\ Reached(q)
  BY TypeParts DEF Inv, Shape
<1>2. par[q] # 0 /\ cur[q] # 0 /\ par[q] \in {0} \cup Inums /\ cur[q] \in {0} \cup Inums
  BY <1>1 DEF ProcOK, RegsTyped
<1>3. QED
  BY <1>1, <1>2 DEF Reached

LEMMA CreateAllocsKeeps ==
  ASSUME Inv, NEW p \in Procs, CreateAllocs(p)
  PROVE  Inv'
<1>1. /\ RegsTyped /\ CacheTyped /\ TableTyped /\ DiskOK(disk) /\ Reached(p)
      /\ OnlyDirs /\ Ranked /\ BlocksKept
  BY TypeParts DEF Inv
<1>2. /\ At(p, "dir", cur[p]) /\ old[p] = 0 /\ Load(cur[p]).type # "free" /\ Seen(cur[p])
      /\ lock' = [lock EXCEPT ![cur[p]] = p] /\ file' = file /\ ofile' = ofile /\ cwd' = cwd
  BY DEF CreateAllocs, table
<1>3. /\ cur[p] \in Inums /\ stage[p] = 0 /\ par[p] = 0 /\ cwd[p] # 0 /\ put[p] = <<>>
      /\ lock[cur[p]] = NoProc /\ Load(cur[p]) = disk.inode[cur[p]]
      /\ disk.inode[cur[p]] \in Dinode /\ pc[p] = "dir"
  BY <1>2, AtStep DEF At
<1>4. PICK dp \in Inums : dp = cur[p]
  BY <1>3
<1>5. disk.inode[dp].type = "dir"
  BY ONLY <1>1, <1>3, <1>4 DEF Reached
<1>6. PICK i \in Inums, t \in {"dir", "file"} :
        /\ disk.inode[i].type = "free"
        /\ disk' = iupdate(disk, i, [type |-> t, nlink |-> 0, blk |-> 0])
        /\ iget(i) /\ Goto(p, "new", i, dp, 0, <<>>)
  BY <1>4 DEF CreateAllocs
<1>7. PICK ip \in Dinode : ip = [type |-> t, nlink |-> 0, blk |-> 0] /\ ip.type = t /\ ip.blk = 0
  <2>1. [type |-> t, nlink |-> 0, blk |-> 0] \in Dinode
    BY DEF Dinode
  <2>2. QED
    BY <2>1
<1>8. /\ DiskOK(disk') /\ disk'.dir = disk.dir /\ disk'.used = disk.used
      /\ disk'.inode[i] = ip /\ \A j \in Inums \ {i} : disk'.inode[j] = disk.inode[j]
  <2>1. DiskOK(disk) /\ i \in Inums /\ disk' = iupdate(disk, i, ip)
    BY <1>1, <1>6, <1>7
  <2>2. /\ DiskOK(disk') /\ disk'.dir = disk.dir /\ disk'.used = disk.used
        /\ disk'.inode = [disk.inode EXCEPT ![i] = ip]
    BY ONLY <2>1, <1>7, IupdateDoes
  <2>3. disk.inode \in [Inums -> Dinode]
    BY <1>1 DEF DiskOK
  <2>4. QED
    BY ONLY <2>1, <2>2, <2>3
<1>9. i # dp /\ i # 0 /\ dp # 0 /\ t # "free"
  BY <1>5, <1>6 DEF Inums
<1>10. ref' \in [Inums -> Nat] /\ \A j \in Inums : ref'[j] = ref[j] + Same(i, j)
  BY <1>1, <1>6, IgetDoes
<1>11. /\ mem' \in [Inums -> Dinode \cup {NoInode}]
       /\ \A j \in Inums : \/ mem'[j] = mem[j] /\ (j = dp => mem'[j] = disk.inode[j])
                           \/ j = dp /\ mem'[j] = disk.inode[j]
  <2>1. mem' = [mem EXCEPT ![dp] = disk.inode[dp]]
    BY <1>2, <1>3, <1>4 DEF Seen
  <2>2. mem \in [Inums -> Dinode \cup {NoInode}] /\ disk.inode[dp] \in Dinode /\ dp \in Inums
    BY <1>1, <1>3, <1>4 DEF CacheTyped
  <2>3. QED
    BY ONLY <2>1, <2>2
<1>12. /\ lock' \in [Inums -> Procs \cup {NoProc}] /\ lock'[dp] = p
       /\ \A j \in Inums \ {dp} : lock'[j] = lock[j]
  BY <1>1, <1>2, <1>4, LockMoves
<1>13. /\ RegsTyped' /\ RegsStay(p) /\ pc'[p] = "new" /\ cur'[p] = i /\ par'[p] = dp
       /\ old'[p] = 0 /\ put'[p] = <<>> /\ stage' = stage
  <2>1. /\ Inv /\ p \in Procs /\ "new" \in Pcs /\ 0 \in {0} \cup Inums /\ i \in {0} \cup Inums
        /\ dp \in {0} \cup Inums
    BY DEF Pcs
  <2>2. Goto(p, "new", i, dp, 0, <<>>) /\ <<>> \in Seq(Inums)
    BY <1>6
  <2>3. QED
    BY ONLY <2>1, <2>2, GotoTyped, GotoSets
<1>14. TypeOK' /\ RefsExact' /\ FilesUsed' /\ OthersStay(p) /\ stage'[p] = 0
  <2>1. ASSUME NEW j \in Inums
        PROVE  ref'[j] + Same(cur[p], j) + Same(par[p], j) + Same(old[p], j)
               = ref[j] + Same(cur'[p], j) + Same(par'[p], j) + Same(old'[p], j) + InPut(put'[p], j)
    <3>1. /\ Same(0, j) = 0 /\ Same(par[p], j) = 0 /\ Same(old[p], j) = 0 /\ InPut(<<>>, j) = 0
          /\ ref[j] \in Nat /\ Same(dp, j) \in Nat /\ Same(i, j) \in Nat
      BY <1>1, <1>2, <1>3, InPutIs DEF Same, Inums, CacheTyped
    <3>2. ref'[j] = ref[j] + Same(i, j)
      BY <1>10
    <3>3. QED
      BY ONLY <3>1, <3>2, <1>4, <1>13
  <2>2. Inv /\ p \in Procs
    OBVIOUS
  <2>3. TypeOK' /\ RefsExact' /\ FilesUsed' /\ OthersStay(p)
    BY ONLY <1>2, <1>3, <1>8, <1>10, <1>11, <1>12, <1>13, <2>1, <2>2, MoveDoes
  <2>4. QED
    BY ONLY <1>3, <1>13, <2>3
<1>15. ProcOK(p)'
  <2>1. Len(<<>>) = 0 /\ p \in Procs
    OBVIOUS
  <2>2. QED
    BY ONLY <1>2, <1>3, <1>9, <1>13, <1>14, <2>1 DEF ProcOK
<1>16. Reached(p)'
  <2>1. dp \in Inums /\ i \in Inums
    OBVIOUS
  <2>2. QED
    BY ONLY <1>5, <1>7, <1>8, <1>9, <1>13, <2>1 DEF Reached
<1>17. OnlyDirs'
  BY ONLY <1>1, <1>6, <1>8 DEF OnlyDirs
<1>18. \A q \in Procs : \/ q = p
                        \/ pc'[q] = pc[q] /\ par'[q] = par[q] /\ cur'[q] = cur[q]
  BY ONLY <1>13 DEF RegsStay
<1>19. Ranked'
  <2>1. \A q \in Procs : pc[q] = "new" => par[q] \in Inums \ {i} /\ cur[q] \in Inums
    BY <1>6, NewHolds
  <2>2. \A m \in Names : disk.dir[i][m] = 0
    BY <1>1, <1>6 DEF OnlyDirs, Entries
  <2>3. \A j \in Inums, m \in Names : disk'.dir[j][m] = disk.dir[j][m]
    BY ONLY <1>8
  <2>4. \A q \in Procs : pc'[q] = "new" =>
          \/ pc[q] = "new" /\ par'[q] = par[q] /\ cur'[q] = cur[q]
          \/ par'[q] = dp /\ cur'[q] = i
    BY ONLY <1>13, <1>18
  <2>5. i \in Inums /\ dp \in Inums /\ i # dp
    BY <1>9
  <2>6. QED
    BY ONLY <1>1, <2>1, <2>2, <2>3, <2>4, <2>5, RankRaised
<1>20. BlocksKept'
  <2>1. disk.inode[i].blk = 0 /\ disk'.inode[i].blk = 0
    BY <1>1, <1>6, <1>7, <1>8 DEF BlocksKept
  <2>2. \A j \in Inums : disk'.inode[j].blk = disk.inode[j].blk
    BY ONLY <2>1, <1>8
  <2>3. BlocksOwned(disk')
    BY <2>2, <1>1, <1>8, OwnedSame DEF BlocksKept
  <2>4. \A j \in Inums : disk'.inode[j].type = "free" => disk'.inode[j].blk = 0
    BY <2>1, <1>1, <1>8 DEF BlocksKept
  <2>5. ASSUME NEW q \in Procs, pc[q] = "new"
        PROVE  cur[q] # i /\ disk'.inode[cur[q]] = disk.inode[cur[q]]
    BY <2>5, <1>6, <1>8, NewHolds
  <2>6. ASSUME NEW q \in Procs, pc'[q] = "new"
        PROVE  /\ disk'.inode[cur'[q]].type = "dir" => disk'.inode[cur'[q]].blk = 0
               /\ \A r \in Procs : pc'[r] = "new" /\ cur'[r] = cur'[q] => r = q
    <3>1. CASE q = p
      <4>1. \A r \in Procs : pc'[r] = "new" /\ cur'[r] = i => r = p
        BY <2>5, <1>18
      <4>2. QED
        BY <4>1, <3>1, <2>1, <1>13
    <3>2. CASE q # p
      <4>1. pc[q] = "new" /\ cur'[q] = cur[q]
        BY <3>2, <2>6, <1>18
      <4>2. /\ disk.inode[cur[q]].type = "dir" => disk.inode[cur[q]].blk = 0
            /\ \A r \in Procs : pc[r] = "new" /\ cur[r] = cur[q] => r = q
        BY <4>1, <1>1 DEF BlocksKept
      <4>3. cur[q] # i /\ disk'.inode[cur[q]] = disk.inode[cur[q]]
        BY <4>1, <2>5
      <4>4. QED
        BY ONLY <4>1, <4>2, <4>3, <1>13, <1>18
    <3>3. QED
      BY <3>1, <3>2
  <2>7. QED
    BY ONLY <2>3, <2>4, <2>6 DEF BlocksKept
<1>21. /\ \A j \in Inums : \/ lock'[j] = lock[j] /\ (lock[j] = p => j = par'[p])
                           \/ lock[j] \in {p, NoProc} /\ lock'[j] = p /\ j = par'[p]
       /\ par'[p] # 0 => lock'[par'[p]] = p
       /\ \A j \in Inums : \/ mem'[j] = mem[j] /\ disk'.inode[j] = disk.inode[j]
                           \/ mem'[j] = mem[j] /\ disk.inode[j].type = "free"
                           \/ mem'[j] = disk'.inode[j] /\ disk'.inode[j].type # "free"
       /\ \A j \in Inums : disk'.inode[j].type = disk.inode[j].type \/ disk.inode[j].type = "free"
       /\ \A j \in Inums : disk'.dir[j] = disk.dir[j]
  <2>1. \A j \in Inums : lock[j] # p
    BY <1>3, HoldsPar DEF Inums
  <2>2. \A j \in Inums : \/ mem'[j] = mem[j] /\ disk'.inode[j] = disk.inode[j]
                         \/ mem'[j] = mem[j] /\ disk.inode[j].type = "free"
                         \/ mem'[j] = disk'.inode[j] /\ disk'.inode[j].type # "free"
    BY ONLY <1>5, <1>6, <1>8, <1>9, <1>11
  <2>3. QED
    BY ONLY <2>1, <2>2, <1>2, <1>3, <1>4, <1>6, <1>8, <1>12, <1>13
<1>22. QED
  <2>1. Inv /\ p \in Procs
    OBVIOUS
  <2>2. QED
    BY ONLY <2>1, <1>3, <1>14, <1>15, <1>16, <1>17, <1>19, <1>20, <1>21, DiskStep

LEMMA LeaveSets ==
  ASSUME Inv, NEW p \in Procs, NEW puts \in Seq(Inums), Leave(p, puts)
  PROVE  /\ RegsTyped' /\ RegsStay(p) /\ cur'[p] = 0 /\ par'[p] = 0 /\ old'[p] = 0
         /\ put'[p] = puts /\ stage' = stage
         /\ pc'[p] = (IF puts = <<>> THEN "user" ELSE "end")
<1>1. PICK l \in Pcs : l = (IF puts = <<>> THEN "user" ELSE "end")
  BY DEF Pcs
<1>2. Goto(p, l, 0, 0, 0, puts)
  BY <1>1 DEF Leave
<1>3. Inv /\ p \in Procs /\ 0 \in {0} \cup Inums /\ puts \in Seq(Inums)
  OBVIOUS
<1>4. QED
  BY ONLY <1>1, <1>2, <1>3, GotoTyped, GotoSets

\* A process that opens a file moves its pointer to the inode there.
LEMMA OpenDoes ==
  ASSUME Inv, NEW p \in Procs, cur[p] \in Inums, old[p] = 0, put[p] = <<>>,
         RegsTyped', RegsStay(p), cur'[p] = 0, par'[p] = 0, old'[p] = 0,
         \A j \in Inums : InPut(put'[p], j) = Same(par[p], j), ref' = ref, cwd' = cwd,
         \E f \in FreeFiles, fd \in FreeFds(p) :
           /\ file' = [file EXCEPT ![f] = [ref |-> 1, ip |-> cur[p]]]
           /\ ofile' = [ofile EXCEPT ![p][fd] = f]
  PROVE  TableTyped' /\ RefsExact' /\ FilesUsed' /\ OthersStay(p)
<1>1. /\ TypeOK /\ RefsExact /\ FilesUsed /\ RegsTyped /\ CacheTyped /\ TableTyped
  BY TypeParts DEF Inv
<1>2. PICK f \in 1..NFILE, fd \in 1..NOFILE :
        /\ file[f].ref = 0 /\ ofile[p][fd] = 0
        /\ file' = [file EXCEPT ![f] = [ref |-> 1, ip |-> cur[p]]]
        /\ ofile' = [ofile EXCEPT ![p][fd] = f]
  BY DEF FreeFiles, FreeFds
<1>3. PICK r \in [ref : Nat, ip : {0} \cup Inums] :
        r = [ref |-> 1, ip |-> cur[p]] /\ r.ref = 1 /\ r.ip = cur[p]
  <2>1. [ref |-> 1, ip |-> cur[p]] \in [ref : Nat, ip : {0} \cup Inums]
    OBVIOUS
  <2>2. QED
    BY <2>1
<1>4. f \in 0..NFILE /\ f # 0 /\ file[f].ip = 0 /\ NFILE \in Nat
  BY <1>1, <1>2, FileSysAssumption DEF FilesUsed
<1>5. file' = [file EXCEPT ![f] = r] /\ ofile' = [ofile EXCEPT ![p][fd] = f]
  BY <1>2, <1>3
<1>6. TableTyped'
  BY ONLY <1>1, <1>4, <1>5, cwd' = cwd DEF TableTyped
<1>7. FilesUsed'
  <2>1. \A g \in 1..NFILE : file'[g] = IF g = f THEN r ELSE file[g]
    BY <1>1, <1>5 DEF TableTyped
  <2>2. cur[p] # 0
    BY DEF Inums
  <2>3. QED
    BY ONLY <1>1, <1>3, <2>1, <2>2 DEF FilesUsed
<1>8. OthersStay(p)
  <2>1. \A q \in Procs \ {p} : ofile'[q] = ofile[q]
    BY <1>1, <1>5 DEF TableTyped
  <2>2. QED
    BY <2>1 DEF OthersStay, RegsStay
<1>9. RefsExact'
  <2>1. ASSUME NEW j \in Inums
        PROVE  ref'[j] + Own(p, j) + Same(file[f].ip, j) = ref[j] + Own(p, j)' + Same(r.ip, j)
    <3>1. PICK a \in Nat, b \in Nat, c \in Nat, e \in Nat :
            /\ a = Same(cwd[p], j) /\ b = Same(cur[p], j) /\ c = Same(par[p], j) /\ e = ref[j]
      BY <1>1 DEF Same, CacheTyped
    <3>2. Same(0, j) = 0 /\ InPut(<<>>, j) = 0
      BY InPutIs DEF Same, Inums
    <3>3. Own(p, j) = a + b + c + 0 + 0
      BY <3>1, <3>2 DEF Own
    <3>4. Own(p, j)' = a + 0 + 0 + 0 + c
      <4>1. InPut(put'[p], j) = c
        BY <3>1
      <4>2. QED
        BY <3>1, <3>2, <4>1 DEF Own
    <3>5. ref'[j] = e /\ Same(file[f].ip, j) = 0 /\ Same(r.ip, j) = b
      BY <3>1, <3>2, <1>3, <1>4
    <3>6. QED
      BY ONLY <3>1, <3>3, <3>4, <3>5
  <2>2. r.ref = file[f].ref - Same(ofile[p][fd], f) + Same(f, f)
    BY <1>2, <1>3, <1>4 DEF Same
  <2>3. /\ ofile[p][fd] \in {0, f} /\ f \in {0, f} /\ ref' \in [Inums -> Nat] /\ p \in Procs
        /\ put'[p] \in Seq(Inums) /\ fd \in 1..NOFILE /\ f \in 1..NFILE
    BY <1>1, <1>2 DEF CacheTyped, RegsTyped
  <2>4. \A q \in Procs \ {p} : /\ cwd'[q] = cwd[q] /\ cur'[q] = cur[q] /\ par'[q] = par[q]
                               /\ old'[q] = old[q] /\ put'[q] = put[q]
    BY <1>8 DEF OthersStay
  <2>5. QED
    BY ONLY <1>1, <1>3, <1>4, <1>5, <2>1, <2>2, <2>3, <2>4, RefsMoved
<1>10. QED
  BY <1>6, <1>7, <1>8, <1>9

\* O_TRUNC, or not.
LEMMA TruncOrNot ==
  ASSUME NEW d, DiskOK(d), BlocksOwned(d), NEW i \in Inums,
         disk' \in {d} \cup {itrunc(d, j) : j \in {j \in {i} : d.inode[j].type = "file"}}
  PROVE  /\ DiskOK(disk') /\ BlocksOwned(disk')
         /\ \A j \in Inums : /\ disk'.inode[j].type = d.inode[j].type
                             /\ disk'.inode[j].nlink = d.inode[j].nlink
                             /\ disk'.inode[j].blk \in {0, d.inode[j].blk}
         /\ \A j \in Inums \ {i} : disk'.inode[j] = d.inode[j] /\ disk'.dir[j] = d.dir[j]
         /\ \/ disk'.dir[i] = d.dir[i]
            \/ d.inode[i].type = "file" /\ disk'.dir[i] = NoEntries
         /\ disk'.inode[i] = d.inode[i] \/ d.inode[i].type = "file"
<1>1. CASE disk' = d
  BY <1>1
<1>2. CASE disk' = itrunc(d, i) /\ d.inode[i].type = "file"
  <2>1. /\ DiskOK(disk') /\ disk'.inode = [d.inode EXCEPT ![i] = [@ EXCEPT !.blk = 0]]
        /\ disk'.dir = [d.dir EXCEPT ![i] = NoEntries]
        /\ disk'.used = d.used \ {d.inode[i].blk}
    <3>1. DiskOK(d) /\ i \in Inums
      OBVIOUS
    <3>2. QED
      BY ONLY <1>2, <3>1, ItruncDoes
  <2>2. /\ d.inode \in [Inums -> Dinode] /\ d.dir \in [Inums -> [Entries -> {0} \cup Inums]]
        /\ d.inode[i] \in Dinode
    BY DEF DiskOK
  <2>3. /\ \A j \in Inums \ {i} : disk'.inode[j] = d.inode[j] /\ disk'.dir[j] = d.dir[j]
        /\ disk'.dir[i] = NoEntries /\ disk'.inode[i] = [d.inode[i] EXCEPT !.blk = 0]
    BY <2>1, <2>2
  <2>4. /\ disk'.inode[i].type = d.inode[i].type /\ disk'.inode[i].nlink = d.inode[i].nlink
        /\ disk'.inode[i].blk = 0
    BY <2>2, <2>3 DEF Dinode
  <2>5. BlocksOwned(disk')
    BY <2>1, <2>3, <2>4, OwnedFreed
  <2>6. QED
    BY <2>1, <2>3, <2>4, <2>5, <1>2
<1>3. QED
  BY <1>1, <1>2

\* Blocks that are owned stay with inodes that are there.
LEMMA BlocksFrom ==
  ASSUME BlocksKept, RegsTyped, Shape, BlocksOwned(disk'),
         \A j \in Inums : disk'.inode[j].type = disk.inode[j].type,
         \A j \in Inums : \/ disk'.inode[j].blk \in {0, disk.inode[j].blk}
                          \/ disk.inode[j].type = "file"
                          \/ /\ disk.inode[j].type = "dir"
                             /\ \A q \in Procs : pc'[q] = "new" => cur'[q] # j,
         \A q \in Procs : pc'[q] = "new" => pc[q] = "new" /\ cur'[q] = cur[q]
  PROVE  BlocksKept'
<1>1. \A j \in Inums : disk'.inode[j].type = "free" => disk'.inode[j].blk = 0
  BY DEF BlocksKept
<1>2. ASSUME NEW q \in Procs, pc'[q] = "new"
      PROVE  /\ disk'.inode[cur'[q]].type = "dir" => disk'.inode[cur'[q]].blk = 0
             /\ \A r \in Procs : pc'[r] = "new" /\ cur'[r] = cur'[q] => r = q
  <2>1. pc[q] = "new" /\ cur'[q] = cur[q] /\ cur[q] \in Inums
    BY <1>2 DEF Shape, ProcOK, RegsTyped
  <2>2. /\ disk.inode[cur[q]].type = "dir" => disk.inode[cur[q]].blk = 0
        /\ \A r \in Procs : pc[r] = "new" /\ cur[r] = cur[q] => r = q
    BY <2>1 DEF BlocksKept
  <2>3. QED
    BY <2>1, <2>2, <1>2
<1>3. QED
  BY <1>1, <1>2 DEF BlocksKept

LEMMA OpenKeeps ==
  ASSUME Inv, NEW p \in Procs, NEW l \in {"namei", "found"}, Open(p, l)
  PROVE  Inv'
<1>1. /\ RegsTyped /\ CacheTyped /\ TableTyped /\ DiskOK(disk) /\ Shape
      /\ OnlyDirs /\ Ranked /\ BlocksKept /\ BlocksOwned(disk)
  BY TypeParts DEF Inv, BlocksKept
<1>2. /\ At(p, l, cur[p]) /\ Load(cur[p]).type # "free" /\ Opens(p, cur[p], disk, <<>>)
      /\ mem' = [mem EXCEPT ![cur[p]] = disk'.inode[cur[p]]]
      /\ ref' = ref /\ lock' = lock /\ cwd' = cwd
  BY DEF Open
<1>3. /\ cur[p] \in Inums /\ stage[p] = 0 /\ par[p] = 0 /\ cwd[p] # 0 /\ put[p] = <<>>
      /\ lock[cur[p]] = NoProc /\ Load(cur[p]) = disk.inode[cur[p]] /\ old[p] = 0
  BY <1>2, AtStep
<1>4. PICK i \in Inums : i = cur[p]
  BY <1>3
<1>5. disk.inode[i].type # "free"
  BY <1>2, <1>3, <1>4
<1>6. /\ RegsTyped' /\ RegsStay(p) /\ pc'[p] = "user" /\ cur'[p] = 0 /\ par'[p] = 0
      /\ old'[p] = 0 /\ put'[p] = <<>> /\ stage' = stage
  <2>1. Inv /\ p \in Procs /\ <<>> \in Seq(Inums) /\ Leave(p, <<>>)
    BY <1>2 DEF Opens
  <2>2. QED
    BY ONLY <2>1, LeaveSets
<1>7. TableTyped' /\ RefsExact' /\ FilesUsed' /\ OthersStay(p)
  <2>1. \E f \in FreeFiles, fd \in FreeFds(p) :
          /\ file' = [file EXCEPT ![f] = [ref |-> 1, ip |-> cur[p]]]
          /\ ofile' = [ofile EXCEPT ![p][fd] = f]
    BY <1>2 DEF Opens
  <2>2. \A j \in Inums : InPut(put'[p], j) = Same(par[p], j)
    BY <1>3, <1>6, InPutIs DEF Same, Inums
  <2>3. Inv /\ p \in Procs
    OBVIOUS
  <2>4. QED
    BY ONLY <1>2, <1>3, <1>6, <2>1, <2>2, <2>3, OpenDoes
<1>8. /\ DiskOK(disk') /\ BlocksOwned(disk')
      /\ \A j \in Inums : /\ disk'.inode[j].type = disk.inode[j].type
                          /\ disk'.inode[j].nlink = disk.inode[j].nlink
                          /\ disk'.inode[j].blk \in {0, disk.inode[j].blk}
      /\ \A j \in Inums \ {i} : disk'.inode[j] = disk.inode[j] /\ disk'.dir[j] = disk.dir[j]
      /\ \/ disk'.dir[i] = disk.dir[i]
         \/ disk.inode[i].type = "file" /\ disk'.dir[i] = NoEntries
  <2>1. disk' \in {disk} \cup {itrunc(disk, j) : j \in {j \in {i} : disk.inode[j].type = "file"}}
    BY <1>2, <1>4 DEF Opens
  <2>2. QED
    BY <2>1, <1>1, TruncOrNot
<1>9. /\ mem' \in [Inums -> Dinode \cup {NoInode}]
      /\ \A j \in Inums : \/ mem'[j] = mem[j] /\ disk'.inode[j] = disk.inode[j]
                          \/ mem'[j] = disk'.inode[j] /\ disk'.inode[j].type # "free"
  <2>1. disk'.inode \in [Inums -> Dinode] /\ mem \in [Inums -> Dinode \cup {NoInode}]
    BY <1>1, <1>8 DEF DiskOK, CacheTyped
  <2>2. mem' = [mem EXCEPT ![i] = disk'.inode[i]] /\ i \in Inums
    BY <1>2, <1>4
  <2>3. QED
    BY ONLY <2>1, <2>2, <1>5, <1>8
<1>10. TypeOK' /\ stage'[p] = 0
  <2>1. CacheTyped'
    BY ONLY <1>1, <1>2, <1>9 DEF CacheTyped
  <2>2. QED
    BY <2>1, <1>3, <1>6, <1>7, <1>8, TypePartsNext
<1>11. ProcOK(p)'
  <2>1. Len(<<>>) = 0 /\ p \in Procs
    OBVIOUS
  <2>2. QED
    BY ONLY <2>1, <1>2, <1>3, <1>6, <1>10 DEF ProcOK
<1>12. Reached(p)'
  BY ONLY <1>6 DEF Reached
<1>13. \A j \in Inums, e \in Entries : disk'.dir[j][e] \in {0, disk.dir[j][e]}
  BY ONLY <1>4, <1>8 DEF NoEntries
<1>14. \A q \in Procs : pc'[q] = "new" => pc[q] = "new" /\ par'[q] = par[q] /\ cur'[q] = cur[q]
  BY ONLY <1>6 DEF RegsStay
<1>15. OnlyDirs' /\ Ranked' /\ BlocksKept'
  <2>1. OnlyDirs'
    BY ONLY <1>1, <1>8, <1>13 DEF OnlyDirs
  <2>2. Ranked'
    <3>1. \A j \in Inums, m \in Names : disk'.dir[j][m] = 0 \/ disk'.dir[j][m] = disk.dir[j][m]
      BY <1>13 DEF Entries
    <3>2. QED
      BY ONLY <3>1, <1>1, <1>14, RankKept
  <2>3. BlocksKept'
    BY ONLY <1>1, <1>8, <1>14, BlocksFrom
  <2>4. QED
    BY <2>1, <2>2, <2>3
<1>16. /\ \A j \in Inums : lock'[j] = lock[j] /\ (lock[j] = p => j = par'[p])
       /\ \A j \in Inums : disk'.dir[j] = disk.dir[j] \/ lock[j] \in {p, NoProc}
  <2>1. \A j \in Inums : lock[j] = p => j = par[p]
    BY <1>3, HoldsPar
  <2>2. QED
    BY ONLY <2>1, <1>2, <1>3, <1>4, <1>6, <1>8
<1>17. QED
  <2>1. Inv /\ p \in Procs
    OBVIOUS
  <2>2. QED
    BY ONLY <2>1, <1>3, <1>6, <1>7, <1>8, <1>9, <1>10, <1>11, <1>12, <1>15, <1>16, DiskStep

\* What create() has written when it is done: one name, and what hangs on it.
Entered(i, dp, n) ==
  /\ DiskOK(disk') /\ BlocksOwned(disk')
  /\ \A j \in Inums : /\ disk'.inode[j].type = disk.inode[j].type
                      /\ \/ disk'.inode[j].blk \in {0, disk.inode[j].blk}
                         \/ disk.inode[j].type = "file"
                         \/ j = i /\ disk.inode[j].type = "dir"
  /\ \A j \in Inums \ {i, dp} : disk'.inode[j] = disk.inode[j] /\ disk'.dir[j] = disk.dir[j]
  /\ disk'.dir[dp] = [disk.dir[dp] EXCEPT ![n] = i]
  /\ \A m \in Names : disk'.dir[i][m] \in {0, disk.dir[i][m]}
  /\ disk.inode[i].type = "file" => \A e \in Entries : disk'.dir[i][e] \in {0, disk.dir[i][e]}

LEMMA CreatesFile ==
  ASSUME TypeOK, BlocksOwned(disk), NEW p \in Procs, NEW i \in Inums, NEW dp \in Inums,
         cur[p] = i, par[p] = dp, i # dp, Load(i) = disk.inode[i],
         disk.inode[i].type = "file", NEW n \in Names,
         disk' \in {Created(p, n)}
                   \cup {itrunc(Created(p, n), j) :
                           j \in {j \in {i} : Created(p, n).inode[j].type = "file"}}
  PROVE  Entered(i, dp, n)
<1>1. PICK d : d = Created(p, n)
  OBVIOUS
<1>2. /\ DiskOK(d) /\ d.used = disk.used
      /\ d.inode = [disk.inode EXCEPT ![i] = [@ EXCEPT !.nlink = 1]]
      /\ d.dir = [disk.dir EXCEPT ![dp] = [@ EXCEPT ![n] = i]]
  BY <1>1, CreatedFile
<1>3. /\ disk.inode \in [Inums -> Dinode] /\ disk.dir \in [Inums -> [Entries -> {0} \cup Inums]]
      /\ disk.inode[i] \in Dinode
  BY DEF TypeOK, DiskOK
<1>4. /\ d.inode[i] = [disk.inode[i] EXCEPT !.nlink = 1]
      /\ \A j \in Inums \ {i} : d.inode[j] = disk.inode[j]
      /\ d.dir[dp] = [disk.dir[dp] EXCEPT ![n] = i]
      /\ \A j \in Inums \ {dp} : d.dir[j] = disk.dir[j]
  BY <1>2, <1>3
<1>5. d.inode[i].type = disk.inode[i].type /\ d.inode[i].blk = disk.inode[i].blk
  BY <1>3, <1>4 DEF Dinode
<1>6. BlocksOwned(d)
  BY <1>2, <1>4, <1>5, OwnedSame
<1>7. disk' \in {d} \cup {itrunc(d, j) : j \in {j \in {i} : d.inode[j].type = "file"}}
  BY <1>1
<1>8. /\ DiskOK(disk') /\ BlocksOwned(disk')
      /\ \A j \in Inums : /\ disk'.inode[j].type = d.inode[j].type
                          /\ disk'.inode[j].nlink = d.inode[j].nlink
                          /\ disk'.inode[j].blk \in {0, d.inode[j].blk}
      /\ \A j \in Inums \ {i} : disk'.inode[j] = d.inode[j] /\ disk'.dir[j] = d.dir[j]
      /\ \/ disk'.dir[i] = d.dir[i]
         \/ d.inode[i].type = "file" /\ disk'.dir[i] = NoEntries
  <2>1. DiskOK(d) /\ BlocksOwned(d) /\ i \in Inums
    BY <1>2, <1>6
  <2>2. QED
    BY ONLY <2>1, <1>7, TruncOrNot
<1>9. /\ \A j \in Inums : /\ disk'.inode[j].type = disk.inode[j].type
                          /\ disk'.inode[j].blk \in {0, disk.inode[j].blk}
      /\ \A j \in Inums \ {i, dp} : disk'.inode[j] = disk.inode[j] /\ disk'.dir[j] = disk.dir[j]
      /\ disk'.dir[dp] = [disk.dir[dp] EXCEPT ![n] = i]
  <2>1. \A j \in Inums : d.inode[j].type = disk.inode[j].type /\ d.inode[j].blk = disk.inode[j].blk
    BY <1>4, <1>5
  <2>2. dp \in Inums \ {i}
    OBVIOUS
  <2>3. QED
    BY ONLY <2>1, <2>2, <1>4, <1>8
<1>10. \A e \in Entries : disk'.dir[i][e] \in {0, disk.dir[i][e]}
  BY <1>4, <1>8 DEF NoEntries
<1>11. Names \subseteq Entries
  BY DEF Entries
<1>12. QED
  BY ONLY <1>8, <1>9, <1>10, <1>11 DEF Entered

LEMMA CreatesDir ==
  ASSUME TypeOK, BlocksOwned(disk), NEW p \in Procs, NEW i \in Inums, NEW dp \in Inums,
         cur[p] = i, par[p] = dp, i # dp, Load(i) = disk.inode[i], Load(dp) = disk.inode[dp],
         disk.inode[i].type = "dir", disk.inode[i].blk = 0, Blocks \ disk.used # {},
         NEW n \in Names, disk' = Created(p, n)
  PROVE  Entered(i, dp, n)
<1>1. /\ TypeOK /\ p \in Procs /\ i \in Inums /\ dp \in Inums /\ cur[p] = i /\ par[p] = dp
      /\ i # dp /\ Load(i) = disk.inode[i] /\ Load(dp) = disk.inode[dp]
      /\ disk.inode[i].type = "dir" /\ Blocks \ disk.used # {} /\ n \in Names
      /\ disk' = Created(p, n)
  OBVIOUS
<1>2. /\ DiskOK(disk')
      /\ \E b \in Blocks \ disk.used :
           /\ disk'.used = disk.used \cup {b}
           /\ disk'.inode[i].blk = b
      /\ disk'.inode[i].type = disk.inode[i].type /\ disk'.inode[i].nlink = 1
      /\ disk'.inode[dp] = nlink(disk.inode[dp], 1)
      /\ disk'.dir[dp] = [disk.dir[dp] EXCEPT ![n] = i]
      /\ disk'.dir[i] = [disk.dir[i] EXCEPT !["."] = i, ![".."] = dp]
      /\ \A j \in Inums \ {i, dp} : disk'.inode[j] = disk.inode[j] /\ disk'.dir[j] = disk.dir[j]
  BY ONLY <1>1, CreatedDir
<1>3. PICK b \in Blocks \ disk.used :
        disk'.used = disk.used \cup {b} /\ disk'.inode[i].blk = b
  BY ONLY <1>2
<1>4. /\ disk.inode \in [Inums -> Dinode] /\ disk.dir \in [Inums -> [Entries -> {0} \cup Inums]]
      /\ disk.inode[i] \in Dinode /\ disk.inode[dp] \in Dinode
  BY DEF TypeOK, DiskOK
<1>5. /\ disk'.inode[i].type = disk.inode[i].type /\ disk'.inode[i].blk = b
      /\ disk'.inode[dp].type = disk.inode[dp].type /\ disk'.inode[dp].blk = disk.inode[dp].blk
  <2>1. 1 \in Int
    OBVIOUS
  <2>2. QED
    BY ONLY <2>1, <1>2, <1>3, <1>4, NlinkDoes
<1>6. BlocksOwned(disk')
  <2>1. /\ BlocksOwned(disk) /\ disk.inode[i].blk = 0 /\ b \in Blocks \ disk.used
        /\ disk'.used = disk.used \cup {b} /\ disk'.inode[i].blk = b /\ i \in Inums
    BY <1>3, <1>5
  <2>2. \A j \in Inums \ {i} : disk'.inode[j].blk = disk.inode[j].blk
    BY <1>2, <1>5
  <2>3. QED
    BY ONLY <2>1, <2>2, OwnedTaken
<1>7. \A m \in Names : disk'.dir[i][m] = disk.dir[i][m]
  <2>1. \A m \in Names : m # "." /\ m # ".." /\ m \in Entries
    BY FileSysAssumption DEF Entries
  <2>2. QED
    BY <2>1, <1>4, <1>2
<1>8. disk.inode[i].type = "dir"
  OBVIOUS
<1>9. \A j \in Inums : /\ disk'.inode[j].type = disk.inode[j].type
                        /\ \/ disk'.inode[j].blk \in {0, disk.inode[j].blk}
                           \/ j = i
  BY ONLY <1>2, <1>5
<1>10. QED
  BY ONLY <1>2, <1>6, <1>7, <1>8, <1>9 DEF Entered

LEMMA CreateLinksKeeps ==
  ASSUME Inv, NEW p \in Procs, CreateLinks(p)
  PROVE  Inv'
<1>1. /\ TypeOK /\ Shape /\ CacheFits /\ LocksHeld /\ OnlyDirs /\ Ranked /\ BlocksKept
      /\ RegsTyped /\ CacheTyped /\ TableTyped /\ DiskOK(disk) /\ Reached(p) /\ BlocksOwned(disk)
      /\ RefsExact /\ FilesUsed
  BY TypeParts DEF Inv, BlocksKept
<1>2. /\ At(p, "new", cur[p])
      /\ mem' = [mem EXCEPT ![cur[p]] = disk'.inode[cur[p]], ![par[p]] = disk'.inode[par[p]]]
      /\ lock' = [lock EXCEPT ![par[p]] = NoProc] /\ ref' = ref /\ cwd' = cwd
      /\ \/ Load(cur[p]).type = "file"
         \/ Load(cur[p]).type = "dir" /\ Blocks \ disk.used # {}
  BY DEF CreateLinks
<1>3. /\ cur[p] \in Inums /\ stage[p] = 0 /\ cwd[p] \in Inums /\ put[p] = <<>> /\ pc[p] = "new"
      /\ lock[cur[p]] = NoProc /\ Load(cur[p]) = disk.inode[cur[p]]
  BY <1>1, <1>2, AtCur
<1>4. /\ par[p] \in Inums /\ lock[par[p]] = p /\ old[p] = 0 /\ par[p] # cur[p]
      /\ Load(par[p]) = disk.inode[par[p]] /\ disk.inode[par[p]].type = "dir"
  BY <1>1, <1>2, AtPar
<1>5. PICK i \in Inums, dp \in Inums : i = cur[p] /\ dp = par[p]
  BY <1>3, <1>4
<1>6. /\ disk.inode[i].type # "free" /\ disk.inode[dp].type = "dir" /\ i # dp
      /\ Load(i) = disk.inode[i] /\ Load(dp) = disk.inode[dp]
      /\ \/ disk.inode[i].type = "file"
         \/ disk.inode[i].type = "dir" /\ disk.inode[i].blk = 0 /\ Blocks \ disk.used # {}
  <2>1. disk.inode[i].type = "dir" => disk.inode[i].blk = 0
    BY <1>1, <1>3, <1>5 DEF BlocksKept
  <2>2. QED
    BY <2>1, <1>2, <1>3, <1>4, <1>5
<1>7. PICK n \in Names :
        \/ disk.inode[i].type = "file" /\ Opens(p, i, Created(p, n), <<dp>>)
        \/ disk' = Created(p, n) /\ Leave(p, <<dp, i>>) /\ file' = file /\ ofile' = ofile
  BY <1>5, <1>6 DEF CreateLinks
<1>8. Entered(i, dp, n)
  <2>1. CASE disk.inode[i].type = "file"
    <3>1. disk' \in {Created(p, n)}
                    \cup {itrunc(Created(p, n), j) :
                            j \in {j \in {i} : Created(p, n).inode[j].type = "file"}}
      BY <1>7 DEF Opens
    <3>2. QED
      BY <3>1, <2>1, <1>1, <1>5, <1>6, CreatesFile
  <2>2. CASE disk.inode[i].type = "dir"
    <3>1. disk' = Created(p, n)
      BY <2>2, <1>7
    <3>2. QED
      BY <3>1, <2>2, <1>1, <1>5, <1>6, CreatesDir
  <2>3. QED
    BY <2>1, <2>2, <1>6
<1>9. /\ mem' \in [Inums -> Dinode \cup {NoInode}]
      /\ \A j \in Inums : \/ mem'[j] = mem[j] /\ disk'.inode[j] = disk.inode[j]
                          \/ mem'[j] = disk'.inode[j] /\ disk'.inode[j].type # "free"
  <2>1. /\ CacheTyped /\ i \in Inums /\ dp \in Inums /\ DiskOK(disk')
        /\ mem' = [mem EXCEPT ![i] = disk'.inode[i], ![dp] = disk'.inode[dp]]
        /\ disk'.inode[i].type = disk.inode[i].type /\ disk'.inode[dp].type = disk.inode[dp].type
        /\ disk.inode[i].type # "free" /\ disk.inode[dp].type # "free"
        /\ \A j \in Inums \ {i, dp} : disk'.inode[j] = disk.inode[j]
    BY <1>1, <1>2, <1>5, <1>6, <1>8 DEF Entered
  <2>2. QED
    BY ONLY <2>1, TwoWritten
<1>10. /\ lock' \in [Inums -> Procs \cup {NoProc}] /\ lock'[dp] = NoProc
       /\ \A j \in Inums \ {dp} : lock'[j] = lock[j]
  BY <1>1, <1>2, <1>5, LockMoves
<1>11. DiskOK(disk)' /\ CacheTyped'
  <2>1. CacheTyped'
    BY ONLY <1>1, <1>2, <1>9, <1>10 DEF CacheTyped
  <2>2. QED
    BY <2>1, <1>8 DEF Entered
<1>12. ref' = ref /\ cwd' = cwd
  BY <1>2
<1>13. /\ TypeOK' /\ RefsExact' /\ FilesUsed' /\ OthersStay(p) /\ stage'[p] = 0
       /\ cur'[p] = 0 /\ par'[p] = 0 /\ old'[p] = 0 /\ stage' = stage /\ RegsStay(p)
       /\ pc'[p] = "end" /\ put'[p] # <<>> /\ Len(put'[p]) <= 2
  <2>1. CASE disk.inode[i].type = "file" /\ Opens(p, i, Created(p, n), <<dp>>)
    <3>1. <<dp>> \in Seq(Inums) /\ <<dp>> # <<>> /\ Len(<<dp>>) = 1
      OBVIOUS
    <3>2. /\ RegsTyped' /\ RegsStay(p) /\ pc'[p] = "end" /\ cur'[p] = 0 /\ par'[p] = 0
          /\ old'[p] = 0 /\ put'[p] = <<dp>> /\ stage' = stage
      <4>1. Inv /\ p \in Procs /\ Leave(p, <<dp>>)
        BY <2>1 DEF Opens
      <4>2. QED
        BY ONLY <4>1, <3>1, LeaveSets
    <3>3. TableTyped' /\ RefsExact' /\ FilesUsed' /\ OthersStay(p)
      <4>1. \E f \in FreeFiles, fd \in FreeFds(p) :
              /\ file' = [file EXCEPT ![f] = [ref |-> 1, ip |-> cur[p]]]
              /\ ofile' = [ofile EXCEPT ![p][fd] = f]
        BY <2>1, <1>5 DEF Opens
      <4>2. \A j \in Inums : InPut(put'[p], j) = Same(par[p], j)
        BY ONLY <1>5, <3>2, InPutIs
      <4>3. Inv /\ p \in Procs
        OBVIOUS
      <4>4. QED
        BY ONLY <1>3, <1>4, <1>12, <3>2, <4>1, <4>2, <4>3, OpenDoes
    <3>4. TypeOK'
      BY <3>2, <3>3, <1>11, TypePartsNext
    <3>5. QED
      BY ONLY <1>3, <3>1, <3>2, <3>3, <3>4
  <2>2. CASE disk' = Created(p, n) /\ Leave(p, <<dp, i>>) /\ file' = file /\ ofile' = ofile
    <3>1. <<dp, i>> \in Seq(Inums) /\ <<dp, i>> # <<>> /\ Len(<<dp, i>>) = 2
      OBVIOUS
    <3>2. /\ RegsTyped' /\ RegsStay(p) /\ pc'[p] = "end" /\ cur'[p] = 0 /\ par'[p] = 0
          /\ old'[p] = 0 /\ put'[p] = <<dp, i>> /\ stage' = stage
      <4>1. Inv /\ p \in Procs
        OBVIOUS
      <4>2. QED
        BY ONLY <4>1, <2>2, <3>1, LeaveSets
    <3>3. ASSUME NEW j \in Inums
          PROVE  ref'[j] + Same(cur[p], j) + Same(par[p], j) + Same(old[p], j)
                 = ref[j] + Same(cur'[p], j) + Same(par'[p], j) + Same(old'[p], j) + InPut(put'[p], j)
      <4>1. /\ Same(0, j) = 0 /\ Same(old[p], j) = 0
            /\ ref[j] \in Nat /\ Same(dp, j) \in Nat /\ Same(i, j) \in Nat
        BY <1>1, <1>4 DEF Same, Inums, CacheTyped
      <4>2. InPut(<<dp, i>>, j) = Same(dp, j) + Same(i, j)
        BY ONLY InPutIs
      <4>3. QED
        BY ONLY <4>1, <4>2, <1>5, <1>12, <3>2
    <3>4. Inv /\ p \in Procs /\ ref' \in [Inums -> Nat] /\ DiskOK(disk')
      BY <1>1, <1>11, <1>12 DEF CacheTyped
    <3>5. TypeOK' /\ RefsExact' /\ FilesUsed' /\ OthersStay(p)
      BY ONLY <2>2, <3>2, <3>3, <3>4, <1>3, <1>9, <1>10, <1>12, MoveDoes
    <3>6. QED
      BY ONLY <1>3, <3>1, <3>2, <3>5
  <2>3. QED
    BY ONLY <2>1, <2>2, <1>7
<1>14. ProcOK(p)'
  <2>1. cwd[p] # 0 /\ p \in Procs
    BY <1>3 DEF Inums
  <2>2. QED
    BY ONLY <2>1, <1>12, <1>13 DEF ProcOK
<1>15. Reached(p)'
  BY ONLY <1>13 DEF Reached
<1>16. \A q \in Procs : pc'[q] = "new" => pc[q] = "new" /\ par'[q] = par[q] /\ cur'[q] = cur[q]
  BY ONLY <1>13 DEF RegsStay
<1>17. OnlyDirs' /\ Ranked' /\ BlocksKept'
  <2>1. OnlyDirs'
    <3>1. ASSUME NEW j \in Inums, disk'.inode[j].type # "dir", NEW e \in Entries
          PROVE  disk'.dir[j][e] = 0
      <4>1. disk.inode[j].type # "dir" /\ j # dp /\ disk.dir[j][e] = 0
        BY <3>1, <1>1, <1>6, <1>8 DEF Entered, OnlyDirs
      <4>2. CASE j = i
        BY <4>1, <4>2, <1>6, <1>8 DEF Entered
      <4>3. CASE j # i
        BY <4>1, <4>3, <1>8 DEF Entered
      <4>4. QED
        BY <4>2, <4>3
    <3>2. QED
      BY <3>1 DEF OnlyDirs
  <2>2. Ranked'
    <3>1. ASSUME NEW j \in Inums, NEW m \in Names
          PROVE  \/ disk'.dir[j][m] = 0 \/ disk'.dir[j][m] = disk.dir[j][m]
                 \/ pc[p] = "new" /\ par[p] = j /\ cur[p] = disk'.dir[j][m]
      <4>1. CASE j = dp
        <5>1. disk.dir[dp] \in [Entries -> {0} \cup Inums] /\ m \in Entries
          BY <1>1 DEF DiskOK, Entries
        <5>2. disk'.dir[dp] = [disk.dir[dp] EXCEPT ![n] = i]
          BY <1>8 DEF Entered
        <5>3. disk'.dir[dp][m] = IF m = n THEN i ELSE disk.dir[dp][m]
          BY ONLY <5>1, <5>2
        <5>4. QED
          BY ONLY <4>1, <5>3, <1>3, <1>5
      <4>2. CASE j = i
        BY <4>2, <1>8 DEF Entered
      <4>3. CASE j # i /\ j # dp
        BY <4>3, <1>8 DEF Entered
      <4>4. QED
        BY <4>1, <4>2, <4>3
    <3>2. QED
      BY <3>1, <1>1, <1>16, RankKept
  <2>3. BlocksKept'
    <3>1. \A q \in Procs : pc'[q] = "new" => cur'[q] # i
      <4>1. \A q \in Procs : pc[q] = "new" /\ cur[q] = cur[p] => q = p
        BY <1>1, <1>3 DEF BlocksKept
      <4>2. QED
        BY ONLY <4>1, <1>5, <1>13, <1>16
    <3>2. \A j \in Inums : \/ disk'.inode[j].blk \in {0, disk.inode[j].blk}
                           \/ disk.inode[j].type = "file"
                           \/ /\ disk.inode[j].type = "dir"
                              /\ \A q \in Procs : pc'[q] = "new" => cur'[q] # j
      BY <3>1, <1>8 DEF Entered
    <3>3. \A j \in Inums : disk'.inode[j].type = disk.inode[j].type
      BY <1>8 DEF Entered
    <3>4. BlocksOwned(disk')
      BY <1>8 DEF Entered
    <3>5. QED
      BY ONLY <3>2, <3>3, <3>4, <1>1, <1>16, BlocksFrom
  <2>4. QED
    BY <2>1, <2>2, <2>3
<1>18. /\ \A j \in Inums : \/ lock'[j] = lock[j] /\ (lock[j] = p => j = par'[p])
                           \/ lock[j] \in {p, NoProc} /\ lock'[j] = NoProc
       /\ \A j \in Inums : disk'.dir[j] = disk.dir[j] \/ lock[j] \in {p, NoProc}
       /\ \A j \in Inums : disk'.inode[j].type = disk.inode[j].type
  <2>1. \A j \in Inums : lock[j] = p => j = par[p]
    BY <1>3, HoldsPar
  <2>2. /\ \A j \in Inums \ {i, dp} : disk'.dir[j] = disk.dir[j]
        /\ \A j \in Inums : disk'.inode[j].type = disk.inode[j].type
    BY <1>8 DEF Entered
  <2>3. QED
    BY ONLY <2>1, <2>2, <1>3, <1>4, <1>5, <1>10
<1>19. QED
  <2>1. Inv /\ p \in Procs /\ par'[p] = 0
    BY <1>13
  <2>2. QED
    BY ONLY <2>1, <1>3, <1>9, <1>13, <1>14, <1>15, <1>17, <1>18, DiskStep

-----------------------------------------------------------------------------
(* Boot. *)

\* A machine that has just started, with a disk that is in order.
Booted ==
  /\ DiskOK(disk) /\ OnlyDirs /\ BlocksOwned(disk)
  /\ \E rank \in [Inums -> Nat] :
       \A i \in Inums, n \in Names : disk.dir[i][n] # 0 => rank[i] < rank[disk.dir[i][n]]
  /\ \A i \in Inums : disk.inode[i].type = "free" => disk.inode[i].blk = 0
  /\ ref = Boot.ref /\ mem = Boot.mem /\ lock = Boot.lock
  /\ file = Boot.file /\ ofile = Boot.ofile /\ cwd = Boot.cwd
  /\ pc = Boot.pc /\ put = Boot.put
  /\ cur = Boot.ptr /\ par = Boot.ptr /\ old = Boot.ptr /\ stage = Boot.ptr

LEMMA NoneCounted ==
  ASSUME NEW S, S = {}
  PROVE  Count(S) = 0
BY FS_EmptySet DEF Count

LEMMA BootedInv == Booted => Inv
<1> SUFFICES ASSUME Booted
             PROVE  Inv
  OBVIOUS
<1>1. /\ ref = [i \in Inums |-> IF i = Root THEN 1 ELSE 0]
      /\ mem = [i \in Inums |-> NoInode]
      /\ lock = [i \in Inums |-> NoProc]
      /\ file = [f \in 1..NFILE |-> [ref |-> 0, ip |-> 0]]
      /\ ofile = [p \in Procs |-> [fd \in 1..NOFILE |-> 0]]
      /\ cwd = [p \in Procs |-> IF p = InitProc THEN Root ELSE 0]
      /\ pc = [p \in Procs |-> "user"]
      /\ cur = [p \in Procs |-> 0] /\ par = [p \in Procs |-> 0]
      /\ old = [p \in Procs |-> 0] /\ stage = [p \in Procs |-> 0]
      /\ put = [p \in Procs |-> <<>>]
  BY DEF Booted, Boot
<1>2. Root \in Inums /\ InitProc \in Procs /\ 0 \notin Inums /\ NFILE \in Nat /\ NoProc \notin Procs
  BY FileSysAssumption DEF Root, Inums
<1>3. TypeOK
  <2>1. DiskOK(disk)
    BY DEF Booted
  <2>2. CacheTyped
    BY <1>1, <1>2 DEF CacheTyped
  <2>3. TableTyped
    BY <1>1, <1>2 DEF TableTyped
  <2>4. RegsTyped
    BY <1>1, <1>2 DEF RegsTyped, Pcs
  <2>5. QED
    BY <2>1, <2>2, <2>3, <2>4, TypeParts
<1>4. RefsExact
  <2>1. ASSUME NEW i \in Inums
        PROVE  ref[i] = Pointers(i)
    <3>1. /\ {f \in 1..NFILE : file[f].ip = i} = {} /\ {p \in Procs : cur[p] = i} = {}
          /\ {p \in Procs : par[p] = i} = {} /\ {p \in Procs : old[p] = i} = {}
      BY <1>1, <1>2
    <3>2. {x \in Procs \X (1..2) : x[2] <= Len(put[x[1]]) /\ put[x[1]][x[2]] = i} = {}
      BY <1>1
    <3>3. Count({p \in Procs : cwd[p] = i}) = ref[i]
      <4>1. CASE i = Root
        <5>1. {p \in Procs : cwd[p] = i} = {InitProc}
          BY <4>1, <1>1, <1>2
        <5>2. Cardinality({InitProc}) = 1
          BY FS_Singleton
        <5>3. ref[i] = 1
          BY <4>1, <1>1
        <5>4. QED
          BY <5>1, <5>2, <5>3 DEF Count
      <4>2. CASE i # Root
        <5>1. {p \in Procs : cwd[p] = i} = {} /\ ref[i] = 0
          BY <4>2, <1>1, <1>2
        <5>2. QED
          BY <5>1, NoneCounted
      <4>3. QED
        BY <4>1, <4>2
    <3>4. ref[i] \in Nat /\ Count({}) = 0
      BY <1>1, NoneCounted
    <3>5. Pointers(i) = Count({}) + Count({p \in Procs : cwd[p] = i}) + Count({}) + Count({})
                        + Count({}) + Count({})
      BY ONLY <3>1, <3>2 DEF Pointers
    <3>6. QED
      BY ONLY <3>3, <3>4, <3>5
  <2>2. ASSUME NEW f \in 1..NFILE
        PROVE  file[f].ref = Count({x \in Procs \X (1..NOFILE) : ofile[x[1]][x[2]] = f})
    <3>1. {x \in Procs \X (1..NOFILE) : ofile[x[1]][x[2]] = f} = {}
      BY <1>1, <1>2
    <3>2. file[f].ref = 0
      BY <1>1
    <3>3. QED
      BY <3>1, <3>2, NoneCounted
  <2>3. QED
    BY <2>1, <2>2 DEF RefsExact
<1>5. Shape
  <2>1. Len(<<>>) = 0
    OBVIOUS
  <2>2. QED
    BY <1>1, <2>1 DEF Shape, ProcOK
<1>6. FilesUsed /\ LocksHeld /\ CacheFits
  BY <1>1, <1>2 DEF FilesUsed, LocksHeld, CacheFits
<1>7. \A p \in Procs : Reached(p)
  BY <1>1 DEF Reached
<1>8. OnlyDirs /\ Ranked /\ BlocksKept
  <2>1. \A p \in Procs : pc[p] # "new"
    BY <1>1
  <2>2. QED
    BY <2>1 DEF Booted, Ranked, Upwards, BlocksKept
<1>9. QED
  BY <1>3, <1>4, <1>5, <1>6, <1>7, <1>8 DEF Inv

LEMMA BootedInvNext == Booted' => Inv'
  BY BootedInv, PTL

LEMMA EmptyDiskOK ==
  ASSUME disk = EmptyDisk
  PROVE  /\ DiskOK(disk) /\ OnlyDirs /\ BlocksOwned(disk)
         /\ \E rank \in [Inums -> Nat] :
              \A i \in Inums, n \in Names : disk.dir[i][n] # 0 => rank[i] < rank[disk.dir[i][n]]
         /\ \A i \in Inums : disk.inode[i].type = "free" => disk.inode[i].blk = 0
<1>1. Root \in Inums /\ 1 \in Blocks /\ 0 \notin Blocks
  BY FileSysAssumption DEF Root, Inums, Blocks
<1>2. /\ disk.inode = [i \in Inums |-> IF i = Root THEN [type |-> "dir", nlink |-> 1, blk |-> 1]
                                       ELSE [type |-> "free", nlink |-> 0, blk |-> 0]]
      /\ disk.dir = [i \in Inums |-> [e \in Entries |->
                                        IF i = Root /\ e \notin Names THEN Root ELSE 0]]
      /\ disk.used = {1}
  BY DEF EmptyDisk
<1>3. DiskOK(disk)
  <2>1. /\ [type |-> "dir", nlink |-> 1, blk |-> 1] \in Dinode
        /\ [type |-> "free", nlink |-> 0, blk |-> 0] \in Dinode
    BY <1>1 DEF Dinode
  <2>2. disk.inode \in [Inums -> Dinode] /\ disk.used \in SUBSET Blocks
    BY <1>1, <1>2, <2>1
  <2>3. disk.dir \in [Inums -> [Entries -> {0} \cup Inums]]
    BY <1>1, <1>2
  <2>4. disk = [inode |-> disk.inode, dir |-> disk.dir, used |-> disk.used]
    BY DEF EmptyDisk
  <2>5. QED
    BY <2>2, <2>3, <2>4 DEF DiskOK
<1>4. OnlyDirs
  BY <1>2 DEF OnlyDirs
<1>5. BlocksOwned(disk)
  <2>1. \A i \in Inums : disk.inode[i].blk = IF i = Root THEN 1 ELSE 0
    BY <1>2
  <2>2. QED
    BY <1>1, <1>2, <2>1 DEF BlocksOwned
<1>6. \A i \in Inums, n \in Names : disk.dir[i][n] = 0
  BY <1>2 DEF Entries
<1>7. [i \in Inums |-> 0] \in [Inums -> Nat]
  OBVIOUS
<1>8. \A i \in Inums : disk.inode[i].type = "free" => disk.inode[i].blk = 0
  BY <1>2
<1>9. QED
  BY <1>3, <1>4, <1>5, <1>6, <1>7, <1>8

LEMMA InitInv == Init => Inv
<1> SUFFICES ASSUME Init
             PROVE  Booted
  BY BootedInv
<1>1. disk = EmptyDisk
  BY DEF Init
<1>2. QED
  BY <1>1, EmptyDiskOK DEF Init, Booted

LEMMA CrashKeeps ==
  ASSUME Inv, Crash
  PROVE  Inv'
<1>1. disk' = disk
  BY DEF Crash
<1>2. /\ DiskOK(disk) /\ OnlyDirs /\ BlocksOwned(disk) /\ Ranked
      /\ \A i \in Inums : disk.inode[i].type = "free" => disk.inode[i].blk = 0
  BY DEF Inv, TypeOK, BlocksKept
<1>3. \E rank \in [Inums -> Nat] :
        \A i \in Inums, n \in Names : disk'.dir[i][n] # 0 => rank[i] < rank[disk'.dir[i][n]]
  BY <1>1, <1>2 DEF Ranked, Upwards
<1>4. /\ ref' = Boot.ref /\ mem' = Boot.mem /\ lock' = Boot.lock
      /\ file' = Boot.file /\ ofile' = Boot.ofile /\ cwd' = Boot.cwd
      /\ pc' = Boot.pc /\ put' = Boot.put
      /\ cur' = Boot.ptr /\ par' = Boot.ptr /\ old' = Boot.ptr /\ stage' = Boot.ptr
  BY DEF Crash
<1>5. OnlyDirs'
  BY <1>1, <1>2 DEF OnlyDirs
<1>6. Booted'
  BY <1>1, <1>2, <1>3, <1>4, <1>5 DEF Booted
<1>7. QED
  BY <1>6, BootedInvNext

-----------------------------------------------------------------------------
(* The invariant of the specification. *)

LEMMA StutterKeeps ==
  ASSUME Inv, UNCHANGED vars
  PROVE  Inv'
<1>1. /\ disk' = disk /\ ref' = ref /\ mem' = mem /\ lock' = lock /\ file' = file /\ ofile' = ofile
      /\ cwd' = cwd /\ pc' = pc /\ cur' = cur /\ par' = par /\ old' = old /\ put' = put
      /\ stage' = stage
  BY DEF vars, cache, table, regs
<1>2. /\ TypeOK /\ RefsExact /\ Shape /\ FilesUsed /\ LocksHeld /\ CacheFits
      /\ (\A p \in Procs : Reached(p)) /\ OnlyDirs /\ Ranked /\ BlocksKept
  BY DEF Inv
<1>3. TypeOK'
  BY ONLY <1>1, <1>2 DEF TypeOK
<1>4. RefsExact'
  BY <1>1, <1>2, RefsSame DEF table
<1>5. Shape' /\ FilesUsed' /\ LocksHeld'
  BY ONLY <1>1, <1>2 DEF Shape, ProcOK, FilesUsed, LocksHeld
<1>6. CacheFits'
  BY ONLY <1>1, <1>2 DEF CacheFits, Freeing
<1>7. (\A p \in Procs : Reached(p)') /\ OnlyDirs' /\ BlocksKept'
  BY ONLY <1>1, <1>2 DEF Reached, OnlyDirs, BlocksKept
<1>8. Ranked'
  BY ONLY <1>1, <1>2 DEF Ranked, Upwards
<1>9. QED
  BY <1>3, <1>4, <1>5, <1>6, <1>7, <1>8 DEF Inv

LEMMA PathKeeps ==
  ASSUME Inv, NEW p \in Procs, Path(p)
  PROVE  Inv'
<1>1. CASE Begin(p)
  BY <1>1, BeginKeeps
<1>2. CASE StopsEarly(p)
  BY <1>2, StopsEarlyKeeps
<1>3. ASSUME NEW l \in {"namei", "parent"}, Walk(p, l) \/ WalkFails(p, l)
      PROVE  Inv'
  BY <1>3, WalkKeeps, WalkFailsKeeps
<1>4. QED
  BY <1>1, <1>2, <1>3 DEF Path

LEMMA OpeningKeeps ==
  ASSUME Inv, NEW p \in Procs, Opening(p)
  PROVE  Inv'
<1>1. PICK l \in {"namei", "found"} : Open(p, l) \/ Refused(p, l)
  BY DEF Opening
<1>2. CASE Open(p, l)
  BY <1>2, OpenKeeps
<1>3. CASE Refused(p, l)
  <2>1. At(p, l, cur[p])
    BY <1>3 DEF Refused
  <2>2. old[p] = 0
    BY <2>1, AtStep
  <2>3. QED
    BY <2>2, <1>3, RefusedKeeps
<1>4. QED
  BY <1>1, <1>2, <1>3

LEMMA CallsKeep ==
  ASSUME Inv, NEW p \in Procs,
         Creating(p) \/ Unlinking(p) \/ Linking(p) \/ Descriptor(p)
  PROVE  Inv'
<1>1. CASE Creating(p)
  BY <1>1, CreateFindsKeeps, CreateAllocsKeeps, CreateLinksKeeps DEF Creating
<1>2. CASE Unlinking(p)
  BY <1>2, UnlinkFindsKeeps, UnlinkKeeps, UnlinkNotEmptyKeeps, RefusedKeeps
  DEF Unlinking, UnlinkRefused
<1>3. CASE Linking(p)
  BY <1>3, LinkKeeps, LinkEntersKeeps, LinkExistsKeeps, LinkBadKeeps DEF Linking
<1>4. CASE Descriptor(p)
  BY <1>4, ChdirKeeps, WriteKeeps, CloseKeeps, ExitKeeps, ForkKeeps DEF Descriptor
<1>5. QED
  BY <1>1, <1>2, <1>3, <1>4

LEMMA NextKeeps ==
  ASSUME Inv, [Next]_vars
  PROVE  Inv'
<1>1. ASSUME NEW p \in Procs, \/ Put(p) \/ Path(p) \/ Opening(p) \/ Creating(p) \/ Unlinking(p)
                              \/ Linking(p) \/ Descriptor(p) \/ Panics(p)
      PROVE  Inv'
  BY <1>1, PutKeeps, PathKeeps, OpeningKeeps, CallsKeep, PanicsKeeps
<1>2. CASE Crash
  BY <1>2, CrashKeeps
<1>3. CASE UNCHANGED vars
  BY <1>3, StutterKeeps
<1>4. QED
  BY <1>1, <1>2, <1>3 DEF Next

\* In every state the processes hold what their place in a system call says.
THEOREM InvHolds == Spec => []Inv
<1>1. Init => Inv
  BY InitInv
<1>2. Inv /\ [Next]_vars => Inv'
  BY NextKeeps
<1>3. QED
  BY <1>1, <1>2, PTL DEF Spec

\* The inode cache is sound however system calls, fork(), exit() and crashes
\* interleave: every reference is counted, and a valid entry is the disk's inode.
THEOREM InodesAlwaysSound == Spec => []InodesSound
<1>1. ASSUME Inv
      PROVE  InodesSound
  <2>1. TypeOK /\ RefsExact /\ CacheFits
    BY <1>1 DEF Inv
  <2>2. CacheCoherent
    BY <2>1 DEF CacheFits, CacheCoherent, Freeing
  <2>3. QED
    BY <2>1, <2>2 DEF InodesSound
<1>2. QED
  BY <1>1, InvHolds, PTL

\* Who waits for an inode while it holds one waits below the directory it holds.
LEMMA WaitsBelow ==
  ASSUME Inv, NEW p \in Procs, NEW i \in Inums, lock[i] = p, NEW rank \in [Inums -> Nat],
         Upwards(rank), Wants(p) # 0
  PROVE  Wants(p) \in Inums /\ rank[i] < rank[Wants(p)]
<1>1. LocksHeld /\ Shape /\ RegsTyped /\ Reached(p) /\ ProcOK(p) /\ DiskOK(disk)
  BY TypeParts DEF Inv, Shape
<1>2. put[p] = <<>> /\ pc[p] \notin {"user", "end", "panic"}
  BY DEF Wants
<1>3. par[p] = i
  BY <1>1, <1>2 DEF LocksHeld, ProcOK
<1>4. pc[p] \in {"new", "child"} /\ cur[p] \in {0} \cup Inums /\ cur[p] # 0
  BY <1>1, <1>2, <1>3 DEF ProcOK, RegsTyped, Pcs, Inums
<1>5. Wants(p) = cur[p] /\ cur[p] \in Inums
  BY <1>2, <1>4 DEF Wants
<1>6. CASE pc[p] = "new"
  BY <1>3, <1>5, <1>6 DEF Upwards
<1>7. CASE pc[p] = "child"
  <2>1. PICK n \in Names : disk.dir[i][n] = cur[p]
    BY <1>1, <1>3, <1>7 DEF Reached
  <2>2. QED
    BY <2>1, <1>4, <1>5 DEF Upwards
<1>8. QED
  BY <1>4, <1>6, <1>7

\* No two processes wait for each other's inode, whatever the shape of the tree
\* and of what is left of directories that were removed; and iput() gets the lock
\* of the inode it frees without waiting (fs.c:339-340).
THEOREM NeverDeadlocks == Spec => []NoDeadlock
<1>1. ASSUME Inv
      PROVE  NoDeadlock
  <2>1. PICK rank \in [Inums -> Nat] : Upwards(rank)
    BY <1>1 DEF Inv, Ranked
  <2>2. ASSUME NEW p \in Procs, NEW q \in Procs, Blocked(p, q), Blocked(q, p)
        PROVE  FALSE
    <3>1. /\ Wants(p) # 0 /\ lock[Wants(p)] = q /\ Wants(q) # 0 /\ lock[Wants(q)] = p
      BY <2>2 DEF Blocked
    <3>2. Wants(p) \in Inums /\ Wants(q) \in Inums
      BY <1>1, <3>1 DEF Inv, TypeOK, Wants
    <3>3. rank[Wants(q)] < rank[Wants(p)]
      BY <1>1, <2>1, <3>1, <3>2, WaitsBelow
    <3>4. rank[Wants(p)] < rank[Wants(q)]
      BY <1>1, <2>1, <3>1, <3>2, WaitsBelow
    <3>5. rank[Wants(p)] \in Nat /\ rank[Wants(q)] \in Nat
      BY <3>2
    <3>6. QED
      BY <3>3, <3>4, <3>5
  <2>3. ASSUME NEW p \in Procs, put[p] # <<>>, stage[p] = 0, NEW i, i = Head(put[p]), ref[i] = 1
        PROVE  lock[i] = NoProc
    <3>1. TypeOK /\ RefsExact /\ LocksHeld /\ Shape
      BY <1>1 DEF Inv
    <3>2. i \in Inums
      BY <2>3, <3>1, PutCounted
    <3>3. ASSUME NEW q \in Procs, lock[i] = q
          PROVE  FALSE
      <4>1. par[q] # i
        BY <2>3, <3>1, SoleRef
      <4>2. stage[q] = 1 /\ Head(put[q]) = i
        BY <3>1, <3>2, <3>3, <4>1 DEF LocksHeld
      <4>3. q # p /\ put[q] # <<>>
        BY <4>2, <2>3, <3>1 DEF Shape, ProcOK
      <4>4. Head(put[q]) = put[q][1] /\ Len(put[q]) >= 1
        BY <4>3, <3>1, PutCounted
      <4>5. \A k \in 1..2 : k <= Len(put[q]) /\ put[q][k] = i => q = p /\ k = 1
        BY <2>3, <3>1, SoleRef
      <4>6. Len(put[q]) \in Nat
        BY <3>1 DEF TypeOK
      <4>7. QED
        BY <4>2, <4>3, <4>4, <4>5, <4>6
    <3>4. lock[i] \in Procs \cup {NoProc}
      BY <3>1, <3>2 DEF TypeOK
    <3>5. QED
      BY <3>3, <3>4
  <2>4. QED
    BY <2>2, <2>3 DEF NoDeadlock
<1>2. QED
  BY <1>1, InvHolds, PTL

\* Every block in use has one owner, in every state and so after every crash:
\* none is lost, none is in two inodes.
THEOREM BlocksAlwaysOwned == Spec => []BlocksOwned(disk)
<1>1. Inv => BlocksOwned(disk)
  BY DEF Inv, BlocksKept
<1>2. QED
  BY <1>1, InvHolds, PTL

\* A height of the processes that grows from one that waits to the one it waits
\* for: so no circle of waiting processes, of whatever length, can close.
NoCircle ==
  \E h \in [Procs -> Nat] :
    \A p, q \in Procs : Blocked(p, q) /\ Wants(q) # 0 => h[p] < h[q]

\* However many processes wait for inodes, somebody that is waited for does not
\* wait: create(), unlink() and the rest lock a directory before what is in it.
THEOREM NoCircleOfWaits == Spec => []NoCircle
<1>1. ASSUME Inv
      PROVE  NoCircle
  <2>1. PICK rank \in [Inums -> Nat] : Upwards(rank)
    BY <1>1 DEF Inv, Ranked
  <2>2. PICK h \in [Procs -> Nat] :
          h = [p \in Procs |-> IF Wants(p) \in Inums THEN rank[Wants(p)] ELSE 0]
    OBVIOUS
  <2>3. ASSUME NEW p \in Procs, NEW q \in Procs, Blocked(p, q), Wants(q) # 0
        PROVE  h[p] < h[q]
    <3>1. Wants(p) # 0 /\ lock[Wants(p)] = q
      BY <2>3 DEF Blocked
    <3>2. Wants(p) \in Inums
      <4>1. old[p] \in {0} \cup Inums /\ cur[p] \in {0} \cup Inums
        BY <1>1 DEF Inv, TypeOK
      <4>2. QED
        BY <3>1, <4>1 DEF Wants
    <3>3. Wants(q) \in Inums /\ rank[Wants(p)] < rank[Wants(q)]
      BY <1>1, <2>1, <2>3, <3>1, <3>2, WaitsBelow
    <3>4. QED
      BY <2>2, <3>2, <3>3
  <2>4. QED
    BY <2>3 DEF NoCircle
<1>2. QED
  BY <1>1, InvHolds, PTL

-----------------------------------------------------------------------------
(* The tree: what recovery finds is a tree, and no file has more names than  *)
(* links, when no path goes up from a removed directory.                     *)

One(b) == IF b THEN 1 ELSE 0
Named(i) == \E d \in Inums, n \in Names : disk.dir[d][n] = i
NameSet(i) == {x \in Inums \X Names : disk.dir[x[1]][x[2]] = i}
Kids(i) == {j \in Inums : disk.inode[j].type = "dir" /\ Named(j) /\ disk.dir[j][".."] = i}

\* i is allocated, and create() is done with it.
Settled(i) ==
  /\ i \in Inums /\ disk.inode[i].type # "free"
  /\ \A q \in Procs : pc[q] = "new" => cur[q] # i

\* No inode is freed while it has a name.
NamedLive == \A i \in Inums : disk.inode[i].type = "free" => ~Named(i)

\* A file has a link for each name, and one for each link() that has counted it.
FileLinks ==
  \A i \in Inums : disk.inode[i].type = "file" =>
    disk.inode[i].nlink >= Count(NameSet(i)) + Count(Where(Procs, old, i))

\* A directory has a link for its name, and for the ".." of each one it names.
DirLinks ==
  \A i \in Inums : disk.inode[i].type = "dir" =>
    disk.inode[i].nlink = One(Named(i)) + One(i = Root) + Count(Kids(i))

RootOK == /\ disk.inode[Root].type = "dir" /\ ~Named(Root)
          /\ disk.dir[Root]["."] = Root /\ disk.dir[Root][".."] = Root

\* A directory has one name, in the directory its ".." says.
OneName ==
  \A i, d \in Inums, n \in Names :
    disk.dir[d][n] = i /\ disk.inode[i].type = "dir" =>
      /\ disk.dir[i]["."] = i /\ disk.dir[i][".."] = d
      /\ \A m \in Names : disk.dir[d][m] = i => m = n

DiskTree == NamedLive /\ FileLinks /\ DirLinks /\ RootOK /\ OneName

Dots == \A i \in Inums : Settled(i) /\ disk.inode[i].type = "dir" => disk.dir[i]["."] = i

\* create() has an inode to itself until it enters its name.
NewAlone(p) ==
  pc[p] = "new" => /\ ~Named(cur[p]) /\ disk.inode[cur[p]].nlink = 0
                   /\ disk.dir[cur[p]] = NoEntries

\* The inodes that a process may look a name up in, or link.
UsesSettled(p) ==
  /\ pc[p] \in {"namei", "parent", "dir"} => Settled(cur[p])
  /\ cwd[p] # 0 => Settled(cwd[p])
  /\ par[p] # 0 => Settled(par[p])
  /\ old[p] # 0 => Settled(old[p])

CallsTree == Dots /\ \A p \in Procs : NewAlone(p) /\ UsesSettled(p)

\* After a panic nothing happens any more.
TreeInv == DiskTree /\ (Running => CallsTree)

-----------------------------------------------------------------------------
(* What the invariant says of the tree that recovery finds. *)

\* What can be reached is closed, and all of it but the root has a name in it.
LEMMA ReachIs ==
  ASSUME NEW d, DiskOK(d)
  PROVE  /\ Reach(d) \subseteq Inums /\ Root \in Reach(d)
         /\ \A i \in Reach(d), e \in Names : d.dir[i][e] \in Reach(d) \cup {0}
         /\ \A i \in Reach(d) \ {Root} : \E k \in Reach(d), n \in Names : d.dir[k][n] = i
<1> DEFINE Closed == {S \in SUBSET Inums :
                        Root \in S /\ \A i \in S, e \in Names : d.dir[i][e] \in S \cup {0}}
<1>1. Reach(d) = {i \in Inums : \A S \in Closed : i \in S}
  BY DEF Reach
<1>2. Root \in Inums
  BY FileSysAssumption DEF Root, Inums
<1>3. ASSUME NEW i \in Reach(d), NEW e \in Names, d.dir[i][e] # 0
      PROVE  d.dir[i][e] \in Reach(d)
  <2>1. ASSUME NEW S \in Closed
        PROVE  d.dir[i][e] \in S
    BY <1>1, <1>3
  <2>2. d.dir[i][e] \in Inums
    BY <1>1, <1>3 DEF DiskOK, Entries
  <2>3. QED
    BY <1>1, <2>1, <2>2
<1>4. Root \in Reach(d)
  BY <1>1, <1>2
<1>5. ASSUME NEW i \in Reach(d), i # Root, \A k \in Reach(d), n \in Names : d.dir[k][n] # i
      PROVE  FALSE
  <2>1. PICK S : S = Reach(d) \ {i}
    OBVIOUS
  <2>2. S \in SUBSET Inums
    BY <1>1, <2>1
  <2>3. ASSUME NEW k \in S, NEW e \in Names
        PROVE  d.dir[k][e] \in S \cup {0}
    BY <2>1, <1>3, <1>5
  <2>4. S \in Closed
    BY <1>4, <1>5, <2>1, <2>2, <2>3
  <2>5. QED
    BY <1>1, <2>1, <2>4
<1>6. QED
  BY <1>1, <1>3, <1>4, <1>5

\* Names count what they name: no entry of a directory leads to a free inode.
LEMMA NamesSettled ==
  ASSUME Inv, TreeInv
  PROVE  NamesAllocated(disk)
<1>1. DiskOK(disk) /\ OnlyDirs /\ DiskTree
  BY DEF Inv, TypeOK, TreeInv
<1>2. ASSUME NEW i \in Reach(disk), NEW e \in Entries, disk.dir[i][e] # 0
      PROVE  disk.inode[disk.dir[i][e]].type # "free"
  <2>1. i \in Inums /\ disk.dir[i][e] \in Inums
    BY <1>1, <1>2, ReachIs DEF DiskOK
  <2>2. disk.inode[i].type = "dir"
    BY <1>2, <2>1, <1>1 DEF OnlyDirs
  <2>3. CASE e \in Names
    BY <2>1, <2>3, <1>1 DEF DiskTree, NamedLive, Named
  <2>4. CASE i = Root /\ e \notin Names
    BY <2>4, <1>1 DEF DiskTree, RootOK, Entries
  <2>5. CASE i # Root /\ e \notin Names
    <3>1. PICK k \in Reach(disk), n \in Names : disk.dir[k][n] = i
      BY <2>5, <1>1, ReachIs
    <3>2. k \in Inums /\ k \in {0} \cup Inums /\ disk.inode[k].type = "dir"
      <4>1. k \in Inums /\ n \in Entries /\ i # 0
        BY <1>1, <2>1, ReachIs DEF Entries, Inums
      <4>2. QED
        BY <3>1, <4>1, <1>1 DEF OnlyDirs
    <3>3. disk.dir[i]["."] = i /\ disk.dir[i][".."] = k
      BY <3>1, <3>2, <2>1, <2>2, <1>1 DEF DiskTree, OneName
    <3>4. QED
      BY <3>2, <3>3, <2>2, <2>5 DEF Entries
  <2>6. QED
    BY <2>3, <2>4, <2>5
<1>3. QED
  BY <1>2 DEF NamesAllocated

LEMMA TreeFound ==
  ASSUME Inv, TreeInv, Quiescent
  PROVE  Tree(disk)
<1> DEFINE R == Reach(disk)
           Dirs == {i \in R : disk.inode[i].type = "dir"}
           NamedBy(i) == {x \in Dirs \X Names : disk.dir[x[1]][x[2]] = i}
<1>1. DiskOK(disk) /\ OnlyDirs /\ NamedLive /\ FileLinks /\ DirLinks /\ RootOK /\ OneName
  BY DEF Inv, TypeOK, TreeInv, DiskTree
<1>2. /\ R \subseteq Inums /\ Root \in R
      /\ \A i \in R, e \in Names : disk.dir[i][e] \in R \cup {0}
      /\ \A i \in R \ {Root} : \E k \in R, n \in Names : disk.dir[k][n] = i
  BY <1>1, ReachIs
<1>3. ASSUME NEW i \in R \ {Root}
      PROVE  /\ i \in Inums /\ Named(i) /\ disk.inode[i].type # "free"
             /\ \E k \in Dirs, n \in Names : disk.dir[k][n] = i
  <2>1. PICK k \in R, n \in Names : disk.dir[k][n] = i
    BY <1>2
  <2>2. i \in Inums /\ k \in Inums /\ n \in Entries /\ i # 0
    BY <1>2 DEF Entries, Inums
  <2>3. disk.inode[k].type = "dir"
    BY <1>1, <2>1, <2>2 DEF OnlyDirs
  <2>4. Named(i)
    BY <2>1, <2>2 DEF Named
  <2>5. QED
    BY <2>1, <2>2, <2>3, <2>4, <1>1 DEF NamedLive
<1>4. ASSUME NEW i \in Dirs \ {Root}
      PROVE  /\ disk.dir[i]["."] = i /\ disk.dir[i][".."] \in Dirs
             /\ \E n \in Names : NamedBy(i) = {<<disk.dir[i][".."], n>>}
  <2>1. PICK k \in Dirs, n \in Names : disk.dir[k][n] = i
    BY <1>3
  <2>2. i \in Inums /\ k \in Inums /\ disk.inode[i].type = "dir"
    BY <1>2
  <2>3. disk.dir[i]["."] = i /\ disk.dir[i][".."] = k
    BY <1>1, <2>1, <2>2 DEF OneName
  <2>4. ASSUME NEW d \in Dirs, NEW m \in Names, disk.dir[d][m] = i
        PROVE  d = k /\ m = n
    BY <1>1, <1>2, <2>1, <2>2, <2>3, <2>4 DEF OneName
  <2>5. NamedBy(i) = {<<k, n>>}
    BY <2>1, <2>4
  <2>6. QED
    BY <2>3, <2>5
<1>5. ASSUME NEW i \in Dirs
      PROVE  disk.dir[i]["."] = i /\ disk.dir[disk.dir[i][".."]]["."] = disk.dir[i][".."]
  <2>1. CASE i = Root
    BY <2>1, <1>1 DEF RootOK
  <2>2. CASE i # Root
    <3>1. disk.dir[i]["."] = i /\ disk.dir[i][".."] \in Dirs
      BY <1>4, <2>2
    <3>2. CASE disk.dir[i][".."] = Root
      BY <3>1, <3>2, <1>1 DEF RootOK
    <3>3. CASE disk.dir[i][".."] # Root
      BY <3>1, <3>3, <1>4
    <3>4. QED
      BY <3>1, <3>2, <3>3
  <2>3. QED
    BY <2>1, <2>2
<1>6. ASSUME NEW i \in Dirs \ {Root}
      PROVE  {x[1] : x \in NamedBy(i)} = {disk.dir[i][".."]} /\ Count(NamedBy(i)) = 1
  <2>1. PICK n \in Names : NamedBy(i) = {<<disk.dir[i][".."], n>>}
    BY <1>4
  <2>2. Count(NamedBy(i)) = 1
    BY <2>1, FS_Singleton DEF Count
  <2>3. PICK u, N : u = disk.dir[i][".."] /\ N = NamedBy(i)
    OBVIOUS
  <2>4. N = {<<u, n>>}
    BY <2>1, <2>3
  <2>5. {x[1] : x \in N} = {u}
    BY ONLY <2>4
  <2>6. QED
    BY <2>2, <2>3, <2>5
<1>7. ASSUME NEW i \in Dirs
      PROVE  disk.inode[i].nlink = 1 + Count({j \in Dirs \ {Root} : disk.dir[j][".."] = i})
  <2>1. i \in Inums /\ disk.inode[i].type = "dir" /\ i # 0
    BY <1>2 DEF Inums
  <2>2. Kids(i) = {j \in Dirs \ {Root} : disk.dir[j][".."] = i}
    <3>1. ASSUME NEW j \in Dirs \ {Root}, disk.dir[j][".."] = i
          PROVE  j \in Kids(i)
      BY <3>1, <1>3 DEF Kids
    <3>2. ASSUME NEW j \in Kids(i)
          PROVE  j \in Dirs \ {Root} /\ disk.dir[j][".."] = i
      <4>1. /\ j \in Inums /\ disk.inode[j].type = "dir" /\ Named(j) /\ disk.dir[j][".."] = i
        BY DEF Kids
      <4>2. PICK d \in Inums, n \in Names : disk.dir[d][n] = j
        BY <4>1 DEF Named
      <4>3. d = i
        BY <4>1, <4>2, <1>1 DEF OneName
      <4>4. j \in R
        BY <4>1, <4>2, <4>3, <1>2 DEF Inums
      <4>5. QED
        BY <4>1, <4>4, <1>1 DEF RootOK
    <3>3. QED
      BY <3>1, <3>2
  <2>3. One(Named(i)) + One(i = Root) = 1
    <3>1. i = Root => ~Named(i)
      BY <1>1 DEF RootOK
    <3>2. i # Root => Named(i)
      BY <1>3
    <3>3. QED
      BY <3>1, <3>2 DEF One
  <2>4. QED
    BY <2>1, <2>2, <2>3, <1>1 DEF DirLinks
<1>8. ASSUME NEW i \in R \ Dirs
      PROVE  disk.inode[i].nlink >= Count(NamedBy(i))
  <2>1. i \in Inums /\ i # Root
    BY <1>1, <1>2 DEF RootOK
  <2>2. disk.inode[i].type = "file"
    BY <1>1, <1>3, <2>1 DEF DiskOK, Dinode
  <2>3. IsFiniteSet(NameSet(i)) /\ NamedBy(i) \subseteq NameSet(i)
    BY <1>2, FiniteSets, FS_Subset DEF NameSet
  <2>4. Count(NamedBy(i)) \in Nat /\ Count(NameSet(i)) \in Nat /\ Count(NamedBy(i)) <= Count(NameSet(i))
    BY <2>3, FS_Subset, FS_CardinalityType DEF Count
  <2>5. Count(Where(Procs, old, i)) \in Nat /\ disk.inode[i].nlink \in Int
    BY <1>1, <2>1, CountsAre DEF Inv, DiskOK, Dinode
  <2>6. QED
    BY <2>1, <2>2, <2>4, <2>5, <1>1 DEF FileLinks
<1>9. QED
  BY <1>5, <1>6, <1>7, <1>8 DEF Tree

-----------------------------------------------------------------------------
(* Steps that leave names, types and links alone. *)

SameShape ==
  \A j \in Inums : /\ disk'.dir[j] = disk.dir[j] /\ disk'.inode[j].type = disk.inode[j].type
                   /\ disk'.inode[j].nlink = disk.inode[j].nlink

LEMMA ShapeSame ==
  ASSUME SameShape
  PROVE  /\ \A i : Named(i)' <=> Named(i)
         /\ \A i : NameSet(i)' = NameSet(i)
         /\ \A i : Kids(i)' = Kids(i)
<1>1. \A j \in Inums : disk'.dir[j] = disk.dir[j] /\ disk'.inode[j].type = disk.inode[j].type
  BY DEF SameShape
<1>2. \A i : Named(i)' <=> Named(i)
  BY <1>1 DEF Named
<1>3. \A i : NameSet(i)' = NameSet(i)
  BY <1>1 DEF NameSet
<1>4. ASSUME NEW i
      PROVE  Kids(i)' = Kids(i)
  BY <1>1, <1>2 DEF Kids
<1>5. QED
  BY <1>2, <1>3, <1>4

\* The inodes of link() that has counted a link are no more than before.
LEMMA FewerOld ==
  ASSUME TypeOK, \A q \in Procs : old'[q] \in {0, old[q]}, NEW i \in Inums
  PROVE  /\ Count(Where(Procs, old', i)) \in Nat /\ Count(Where(Procs, old, i)) \in Nat
         /\ Count(Where(Procs, old', i)) <= Count(Where(Procs, old, i))
<1>1. i # 0
  BY DEF Inums
<1>2. Where(Procs, old', i) \subseteq Where(Procs, old, i)
  BY <1>1 DEF Where
<1>3. IsFiniteSet(Where(Procs, old, i))
  BY FiniteSets, FS_Subset DEF Where
<1>4. QED
  BY <1>2, <1>3, FS_Subset, FS_CardinalityType DEF Count

LEMMA QuietDisk ==
  ASSUME Inv, DiskTree, SameShape, \A q \in Procs : old'[q] \in {0, old[q]}
  PROVE  DiskTree'
<1>1. /\ TypeOK /\ NamedLive /\ FileLinks /\ DirLinks /\ RootOK /\ OneName /\ Root \in Inums
  BY FileSysAssumption DEF Inv, DiskTree, Root, Inums
<1>2. \A j \in Inums : /\ disk'.dir[j] = disk.dir[j] /\ disk'.inode[j].type = disk.inode[j].type
                       /\ disk'.inode[j].nlink = disk.inode[j].nlink
  BY DEF SameShape
<1>3. NamedLive'
  BY <1>1, <1>2, ShapeSame DEF NamedLive
<1>4. FileLinks'
  <2>1. ASSUME NEW i \in Inums, disk'.inode[i].type = "file"
        PROVE  disk'.inode[i].nlink >= Count(NameSet(i)') + Count(Where(Procs, old', i))
    <3>1. disk.inode[i].nlink >= Count(NameSet(i)) + Count(Where(Procs, old, i))
      BY <1>1, <1>2, <2>1 DEF FileLinks
    <3>2. NameSet(i)' = NameSet(i)
      BY ShapeSame
    <3>3. disk.inode[i].nlink \in Int
      BY <1>1 DEF TypeOK, DiskOK, Dinode
    <3>4. Count(NameSet(i)) \in Nat
      BY FiniteSets, FS_Subset, FS_CardinalityType DEF Count, NameSet
    <3>5. QED
      BY <1>1, <1>2, <3>1, <3>2, <3>3, <3>4, FewerOld
  <2>2. QED
    BY <2>1 DEF FileLinks, Count, Where
<1>5. DirLinks'
  <2>1. ASSUME NEW i \in Inums, disk'.inode[i].type = "dir"
        PROVE  disk'.inode[i].nlink = One(Named(i)') + One(i = Root) + Count(Kids(i)')
    <3>1. disk.inode[i].nlink = One(Named(i)) + One(i = Root) + Count(Kids(i))
      BY <1>1, <1>2, <2>1 DEF DirLinks
    <3>2. QED
      BY <1>2, <3>1, ShapeSame DEF One
  <2>2. QED
    BY <2>1 DEF DirLinks, Count, One
<1>6. RootOK'
  BY <1>1, <1>2, ShapeSame DEF RootOK
<1>7. OneName'
  BY <1>1, <1>2 DEF OneName
<1>8. QED
  BY <1>3, <1>4, <1>5, <1>6, <1>7 DEF DiskTree

\* Settled and named in the state that the step leads to.
SettledNext(i) ==
  /\ i \in Inums /\ disk'.inode[i].type # "free"
  /\ \A q \in Procs : pc'[q] = "new" => cur'[q] # i
NamedNext(i) == \E d \in Inums, n \in Names : disk'.dir[d][n] = i

LEMMA CallsNext ==
  ASSUME \A i \in Inums : SettledNext(i) /\ disk'.inode[i].type = "dir" => disk'.dir[i]["."] = i,
         \A q \in Procs : pc'[q] = "new" =>
           /\ ~NamedNext(cur'[q]) /\ disk'.inode[cur'[q]].nlink = 0
           /\ disk'.dir[cur'[q]] = NoEntries,
         \A q \in Procs : /\ pc'[q] \in {"namei", "parent", "dir"} => SettledNext(cur'[q])
                          /\ cwd'[q] # 0 => SettledNext(cwd'[q])
                          /\ par'[q] # 0 => SettledNext(par'[q])
                          /\ old'[q] # 0 => SettledNext(old'[q])
  PROVE  CallsTree'
<1>1. Dots'
  BY DEF Dots, Settled, SettledNext
<1>2. \A q \in Procs : NewAlone(q)'
  BY DEF NewAlone, Named, NamedNext, NoEntries
<1>3. \A q \in Procs : UsesSettled(q)'
  BY DEF UsesSettled, Settled, SettledNext
<1>4. QED
  BY <1>1, <1>2, <1>3 DEF CallsTree

LEMMA QuietTree ==
  ASSUME Inv, TreeInv, Running, SameShape,
         \A q \in Procs : old'[q] \in {0, old[q]},
         \A q \in Procs : /\ pc'[q] = "new" <=> pc[q] = "new"
                          /\ pc[q] = "new" => cur'[q] = cur[q],
         \A q \in Procs : /\ pc'[q] \in {"namei", "parent", "dir"} => Settled(cur'[q])
                          /\ cwd'[q] # 0 => Settled(cwd'[q])
                          /\ par'[q] # 0 => Settled(par'[q])
  PROVE  TreeInv'
<1>1. DiskTree /\ CallsTree
  BY DEF TreeInv
<1>2. DiskTree'
  BY <1>1, QuietDisk
<1>3. \A i : SettledNext(i) <=> Settled(i)
  BY DEF Settled, SettledNext, SameShape
<1>4. \A i \in Inums : SettledNext(i) /\ disk'.inode[i].type = "dir" => disk'.dir[i]["."] = i
  BY <1>1, <1>3 DEF CallsTree, Dots, SameShape
<1>5. ASSUME NEW q \in Procs, pc'[q] = "new"
      PROVE  ~NamedNext(cur'[q]) /\ disk'.inode[cur'[q]].nlink = 0 /\ disk'.dir[cur'[q]] = NoEntries
  <2>1. pc[q] = "new" /\ cur'[q] = cur[q]
    BY <1>5
  <2>2. cur[q] \in Inums
    BY <2>1, NewHolds
  <2>3. ~Named(cur[q]) /\ disk.inode[cur[q]].nlink = 0 /\ disk.dir[cur[q]] = NoEntries
    BY <1>1, <2>1 DEF CallsTree, NewAlone
  <2>4. ~NamedNext(cur[q])
    BY <2>3 DEF Named, NamedNext, SameShape
  <2>5. QED
    BY <2>1, <2>2, <2>3, <2>4 DEF SameShape
<1>6. ASSUME NEW q \in Procs
      PROVE  /\ pc'[q] \in {"namei", "parent", "dir"} => SettledNext(cur'[q])
             /\ cwd'[q] # 0 => SettledNext(cwd'[q])
             /\ par'[q] # 0 => SettledNext(par'[q])
             /\ old'[q] # 0 => SettledNext(old'[q])
  <2>1. old[q] # 0 => Settled(old[q])
    BY <1>1 DEF CallsTree, UsesSettled
  <2>2. old'[q] # 0 => Settled(old'[q])
    BY <2>1
  <2>3. QED
    BY <1>3, <2>2
<1>7. CallsTree'
  BY <1>4, <1>5, <1>6, CallsNext
<1>8. QED
  BY <1>2, <1>7 DEF TreeInv

\* The same, for a step of one process that changes nobody else's registers.
LEMMA QuietMove ==
  ASSUME Inv, TreeInv, Running, SameShape, NEW p \in Procs, RegsStay(p),
         pc[p] # "new", pc'[p] # "new", old'[p] \in {0, old[p]},
         pc'[p] \in {"namei", "parent", "dir"} => Settled(cur'[p]),
         par'[p] # 0 => Settled(par'[p]),
         \A q \in Procs : cwd'[q] \in {0, cwd[q]} \/ Settled(cwd'[q])
  PROVE  TreeInv'
<1>1. \A q \in Procs : UsesSettled(q)
  BY DEF TreeInv, CallsTree
<1>2. \A q \in Procs : old'[q] \in {0, old[q]}
  BY DEF RegsStay
<1>3. \A q \in Procs : /\ pc'[q] = "new" <=> pc[q] = "new"
                       /\ pc[q] = "new" => cur'[q] = cur[q]
  BY DEF RegsStay
<1>4. \A q \in Procs : /\ pc'[q] \in {"namei", "parent", "dir"} => Settled(cur'[q])
                       /\ cwd'[q] # 0 => Settled(cwd'[q])
                       /\ par'[q] # 0 => Settled(par'[q])
  BY <1>1 DEF RegsStay, UsesSettled
<1>5. QED
  BY <1>2, <1>3, <1>4, QuietTree

\* The root is settled, and so is what has a name.
LEMMA SettledAre ==
  ASSUME Inv, TreeInv, Running
  PROVE  /\ Settled(Root)
         /\ \A i \in Inums : Named(i) => Settled(i)
         /\ \A p \in Procs : /\ pc[p] \in {"namei", "parent", "dir"} => Settled(cur[p])
                             /\ cwd[p] # 0 => Settled(cwd[p])
                             /\ par[p] # 0 => Settled(par[p])
                             /\ old[p] # 0 => Settled(old[p])
<1>1. DiskTree /\ CallsTree /\ Root \in Inums
  BY FileSysAssumption DEF TreeInv, Root, Inums
<1>2. ASSUME NEW i \in Inums, Named(i)
      PROVE  Settled(i)
  BY <1>1, <1>2 DEF DiskTree, NamedLive, CallsTree, NewAlone, Settled
<1>3. Settled(Root)
  <2>1. disk.inode[Root].type = "dir"
    BY <1>1 DEF DiskTree, RootOK
  <2>2. disk.inode[Root].nlink # 0
    <3>1. disk.inode[Root].nlink = One(Named(Root)) + One(Root = Root) + Count(Kids(Root))
      BY <1>1, <2>1 DEF DiskTree, DirLinks
    <3>2. Count(Kids(Root)) \in Nat
      BY FiniteSets, FS_Subset, FS_CardinalityType DEF Kids, Count
    <3>3. One(Named(Root)) \in Nat /\ One(Root = Root) = 1
      BY DEF One
    <3>4. QED
      BY <3>1, <3>2, <3>3
  <2>3. QED
    BY <1>1, <2>1, <2>2 DEF Settled, CallsTree, NewAlone
<1>4. QED
  BY <1>1, <1>2, <1>3 DEF CallsTree, UsesSettled

LEMMA SameDisk ==
  ASSUME disk' = disk
  PROVE  SameShape
BY DEF SameShape

LEMMA BeginTree ==
  ASSUME Inv, TreeInv, Running, NEW p \in Procs, Begin(p)
  PROVE  TreeInv'
<1>1. PICK c \in MayCall[p], start \in {Root, cwd[p]} :
        Goto(p, IF c \in {"open", "chdir", "link"} THEN "namei" ELSE "parent", start, 0, 0, <<>>)
  BY DEF Begin
<1>2. /\ pc[p] = "user" /\ cwd[p] # 0 /\ disk' = disk /\ cwd' = cwd
  BY DEF Begin, table
<1>3. /\ RegsStay(p) /\ pc'[p] \in {"namei", "parent"} /\ cur'[p] = start /\ par'[p] = 0
      /\ old'[p] = 0
  BY <1>1, GotoSets
<1>4. Settled(start)
  BY <1>2, SettledAre
<1>5. QED
  BY <1>2, <1>3, <1>4, SameDisk, QuietMove

LEMMA StopsEarlyTree ==
  ASSUME Inv, TreeInv, Running, NEW p \in Procs, StopsEarly(p)
  PROVE  TreeInv'
<1>1. pc[p] = "parent" /\ disk' = disk /\ cwd' = cwd
  BY DEF StopsEarly, At, table
<1>2. /\ RegsStay(p) /\ pc'[p] = "dir" /\ cur'[p] = cur[p] /\ par'[p] = 0 /\ old'[p] = old[p]
  BY GotoSets DEF StopsEarly
<1>3. Settled(cur[p])
  BY <1>1, SettledAre
<1>4. QED
  BY <1>1, <1>2, <1>3, SameDisk, QuietMove

\* Every entry of a settled directory that has a name leads to a settled inode.
LEMMA WalkTree ==
  ASSUME Inv, TreeInv, Running, ~StaleUp, NEW p \in Procs, NEW l \in {"namei", "parent"},
         Walk(p, l)
  PROVE  TreeInv'
<1>1. At(p, l, cur[p]) /\ Load(cur[p]).type = "dir" /\ disk' = disk /\ cwd' = cwd
  BY DEF Walk, table
<1>2. PICK i : i = cur[p]
  OBVIOUS
<1>3. PICK e \in Entries : /\ disk.dir[i][e] # 0 /\ (e = ".." /\ Removed(i) => StaleUp)
                           /\ Goto(p, l, disk.dir[i][e], 0, old[p], <<i>>)
  BY <1>2 DEF Walk
<1>4. /\ RegsStay(p) /\ pc'[p] = l /\ cur'[p] = disk.dir[i][e] /\ par'[p] = 0 /\ old'[p] = old[p]
  BY <1>3, GotoSets
<1>5. pc[p] = l /\ i \in Inums /\ disk.inode[i].type = "dir"
  BY <1>1, <1>2, AtStep DEF At
<1>6. Settled(i)
  BY <1>2, <1>5, SettledAre
<1>7. DiskTree /\ CallsTree
  BY DEF TreeInv
<1>8. disk.dir[i][e] \in Inums
  BY <1>3, <1>5 DEF Inv, TypeOK, DiskOK
<1>9. Settled(disk.dir[i][e])
  <2>1. CASE e \in Names
    BY <2>1, <1>5, <1>8, SettledAre DEF Named
  <2>2. CASE e = "."
    BY <2>2, <1>5, <1>6, <1>7 DEF CallsTree, Dots
  <2>3. CASE e = ".."
    <3>1. CASE i = Root
      BY <2>3, <3>1, <1>7, SettledAre DEF DiskTree, RootOK
    <3>2. CASE i # Root
      <4>1. PICK d \in Inums, n \in Names : disk.dir[d][n] = i
        BY <1>3, <2>3, <3>2 DEF Removed
      <4>2. disk.dir[i][".."] = d
        BY <4>1, <1>5, <1>7 DEF DiskTree, OneName
      <4>3. disk.inode[d].type = "dir"
        BY <4>1, <1>5 DEF Inv, OnlyDirs, Entries, Inums
      <4>4. ASSUME NEW q \in Procs, pc[q] = "new", cur[q] = d
            PROVE  FALSE
        <5>1. disk.dir[d] = NoEntries
          BY <4>4, <1>7 DEF CallsTree, NewAlone
        <5>2. i = 0
          BY <4>1, <5>1 DEF NoEntries, Entries
        <5>3. QED
          BY <5>2, <1>5 DEF Inums
      <4>5. QED
        BY <2>3, <4>1, <4>2, <4>3, <4>4 DEF Settled
    <3>3. QED
      BY <3>1, <3>2
  <2>4. QED
    BY <2>1, <2>2, <2>3 DEF Entries
<1>10. QED
  BY <1>1, <1>4, <1>5, <1>9, SameDisk, QuietMove

\* A process that leaves its system call uses nothing but its directory.
LEMMA LeaveTree ==
  ASSUME Inv, TreeInv, Running, SameShape, NEW p \in Procs, NEW puts, Leave(p, puts),
         pc[p] # "new", \A q \in Procs : cwd'[q] \in {0, cwd[q]} \/ Settled(cwd'[q])
  PROVE  TreeInv'
<1>1. /\ RegsStay(p) /\ pc'[p] \in {"user", "end"} /\ cur'[p] = 0 /\ par'[p] = 0 /\ old'[p] = 0
  BY GotoSets DEF Leave
<1>2. QED
  BY <1>1, QuietMove

LEMMA WalkFailsTree ==
  ASSUME Inv, TreeInv, Running, NEW p \in Procs, NEW l \in {"namei", "parent"}, WalkFails(p, l)
  PROVE  TreeInv'
<1>1. pc[p] # "new" /\ SameShape /\ cwd' = cwd
  BY SameDisk DEF WalkFails, At, table
<1>2. CASE old[p] # 0
  <2>1. Goto(p, "bad", 0, 0, old[p], <<cur[p]>>)
    BY <1>2 DEF WalkFails
  <2>2. RegsStay(p) /\ pc'[p] = "bad" /\ par'[p] = 0 /\ old'[p] = old[p]
    BY <2>1, GotoSets
  <2>3. QED
    BY <1>1, <2>2, QuietMove
<1>3. CASE old[p] = 0
  BY <1>1, <1>3, LeaveTree DEF WalkFails
<1>4. QED
  BY <1>2, <1>3

LEMMA RefusedTree ==
  ASSUME Inv, TreeInv, Running, NEW p \in Procs, NEW l \in {"namei", "found", "dir"}, Refused(p, l)
  PROVE  TreeInv'
<1>1. pc[p] # "new" /\ SameShape /\ cwd' = cwd /\ Leave(p, <<cur[p]>>)
  BY SameDisk DEF Refused, At, table
<1>2. QED
  BY <1>1, LeaveTree

\* O_TRUNC empties a file, not a directory.
LEMMA OpenTree ==
  ASSUME Inv, TreeInv, Running, NEW p \in Procs, NEW l \in {"namei", "found"}, Open(p, l)
  PROVE  TreeInv'
<1>1. /\ pc[p] = l /\ cwd' = cwd /\ Leave(p, <<>>) /\ At(p, l, cur[p])
      /\ disk' \in {disk} \cup {itrunc(disk, j) : j \in {j \in {cur[p]} : disk.inode[j].type = "file"}}
  BY DEF Open, Opens, At
<1>2. cur[p] \in Inums /\ DiskOK(disk) /\ BlocksOwned(disk) /\ OnlyDirs
  BY <1>1, AtStep DEF Inv, TypeOK, BlocksKept
<1>3. SameShape
  <2>1. /\ \A j \in Inums : /\ disk'.inode[j].type = disk.inode[j].type
                            /\ disk'.inode[j].nlink = disk.inode[j].nlink
        /\ \A j \in Inums \ {cur[p]} : disk'.dir[j] = disk.dir[j]
        /\ \/ disk'.dir[cur[p]] = disk.dir[cur[p]]
           \/ disk.inode[cur[p]].type = "file" /\ disk'.dir[cur[p]] = NoEntries
    BY <1>1, <1>2, TruncOrNot
  <2>2. disk.inode[cur[p]].type = "file" => disk.dir[cur[p]] = NoEntries
    BY <1>2 DEF OnlyDirs, DiskOK, NoEntries
  <2>3. QED
    BY <2>1, <2>2 DEF SameShape
<1>4. QED
  BY <1>1, <1>3, LeaveTree

LEMMA CreateFindsTree ==
  ASSUME Inv, TreeInv, Running, NEW p \in Procs, CreateFinds(p)
  PROVE  TreeInv'
<1>1. pc[p] # "new" /\ SameShape /\ cwd' = cwd
  BY SameDisk DEF CreateFinds, At, table
<1>2. PICK e \in Entries : Goto(p, "found", disk.dir[cur[p]][e], 0, 0, <<cur[p]>>)
  BY DEF CreateFinds
<1>3. RegsStay(p) /\ pc'[p] = "found" /\ par'[p] = 0 /\ old'[p] = 0
  BY <1>2, GotoSets
<1>4. QED
  BY <1>1, <1>3, QuietMove

LEMMA UnlinkFindsTree ==
  ASSUME Inv, TreeInv, Running, NEW p \in Procs, UnlinkFinds(p)
  PROVE  TreeInv'
<1>1. pc[p] = "dir" /\ SameShape /\ cwd' = cwd
  BY SameDisk DEF UnlinkFinds, At, table
<1>2. PICK n \in Names : Goto(p, "child", disk.dir[cur[p]][n], cur[p], 0, <<>>)
  BY DEF UnlinkFinds
<1>3. RegsStay(p) /\ pc'[p] = "child" /\ par'[p] = cur[p] /\ old'[p] = 0
  BY <1>2, GotoSets
<1>4. Settled(cur[p])
  BY <1>1, SettledAre
<1>5. QED
  BY <1>1, <1>3, <1>4, QuietMove

LEMMA UnlinkNotEmptyTree ==
  ASSUME Inv, TreeInv, Running, NEW p \in Procs, UnlinkNotEmpty(p)
  PROVE  TreeInv'
<1>1. pc[p] # "new" /\ SameShape /\ cwd' = cwd /\ Leave(p, <<cur[p], par[p]>>)
  BY SameDisk DEF UnlinkNotEmpty, At, table
<1>2. QED
  BY <1>1, LeaveTree

LEMMA LinkExistsTree ==
  ASSUME Inv, TreeInv, Running, NEW p \in Procs, LinkExists(p)
  PROVE  TreeInv'
<1>1. pc[p] # "new" /\ SameShape /\ cwd' = cwd
  BY SameDisk DEF LinkExists, At, table
<1>2. PICK e \in Entries : Goto(p, "bad", 0, 0, old[p], <<disk.dir[cur[p]][e], cur[p]>>)
  BY DEF LinkExists
<1>3. RegsStay(p) /\ pc'[p] = "bad" /\ par'[p] = 0 /\ old'[p] = old[p]
  BY <1>2, GotoSets
<1>4. QED
  BY <1>1, <1>3, QuietMove

LEMMA ChdirTree ==
  ASSUME Inv, TreeInv, Running, NEW p \in Procs, Chdir(p)
  PROVE  TreeInv'
<1>1. /\ pc[p] = "namei" /\ SameShape /\ Leave(p, <<cwd[p]>>) /\ cwd' = [cwd EXCEPT ![p] = cur[p]]
  BY SameDisk DEF Chdir, At
<1>2. Settled(cur[p])
  BY <1>1, SettledAre
<1>3. \A q \in Procs : cwd'[q] \in {0, cwd[q]} \/ Settled(cwd'[q])
  BY <1>1, <1>2 DEF Inv, TypeOK
<1>4. QED
  BY <1>1, <1>3, LeaveTree

LEMMA ExitTree ==
  ASSUME Inv, TreeInv, Running, NEW p \in Procs, Exit(p)
  PROVE  TreeInv'
<1>1. /\ pc[p] # "new" /\ SameShape /\ Leave(p, <<cwd[p]>>) /\ cwd' = [cwd EXCEPT ![p] = 0]
  BY SameDisk DEF Exit
<1>2. \A q \in Procs : cwd'[q] \in {0, cwd[q]} \/ Settled(cwd'[q])
  BY <1>1 DEF Inv, TypeOK
<1>3. QED
  BY <1>1, <1>2, LeaveTree

\* Registers that stay use what they used.
LEMMA RestTree ==
  ASSUME Inv, TreeInv, Running, SameShape, pc' = pc, cur' = cur, par' = par, old' = old,
         \A q \in Procs : cwd'[q] \in {0, cwd[q]} \/ Settled(cwd'[q])
  PROVE  TreeInv'
<1>1. \A q \in Procs : old'[q] \in {0, old[q]}
  OBVIOUS
<1>2. \A q \in Procs : /\ pc'[q] = "new" <=> pc[q] = "new"
                       /\ pc[q] = "new" => cur'[q] = cur[q]
  OBVIOUS
<1>3. \A q \in Procs : /\ pc'[q] \in {"namei", "parent", "dir"} => Settled(cur'[q])
                       /\ cwd'[q] # 0 => Settled(cwd'[q])
                       /\ par'[q] # 0 => Settled(par'[q])
  BY SettledAre
<1>4. QED
  BY <1>1, <1>2, <1>3, QuietTree

LEMMA CloseTree ==
  ASSUME Inv, TreeInv, Running, NEW p \in Procs, Close(p)
  PROVE  TreeInv'
<1>1. pc[p] # "new" /\ SameShape /\ cwd' = cwd
  BY SameDisk DEF Close
<1>2. CASE UNCHANGED <<regs, put, stage>>
  BY <1>1, <1>2, RestTree DEF regs
<1>3. CASE \E puts : Leave(p, puts)
  BY <1>1, <1>3, LeaveTree
<1>4. QED
  BY <1>2, <1>3 DEF Close

LEMMA ForkTree ==
  ASSUME Inv, TreeInv, Running, NEW p \in Procs, NEW q \in Procs, Fork(p, q)
  PROVE  TreeInv'
<1>1. /\ SameShape /\ pc' = pc /\ cur' = cur /\ par' = par /\ old' = old
      /\ cwd' = [cwd EXCEPT ![q] = cwd[p]] /\ cwd[p] # 0
  BY SameDisk DEF Fork, regs
<1>2. Settled(cwd[p])
  BY <1>1, SettledAre
<1>3. \A r \in Procs : cwd'[r] \in {0, cwd[r]} \/ Settled(cwd'[r])
  BY <1>1, <1>2 DEF Inv, TypeOK
<1>4. QED
  BY <1>1, <1>3, RestTree

LEMMA WriteTree ==
  ASSUME Inv, TreeInv, Running, NEW p \in Procs, Write(p)
  PROVE  TreeInv'
<1>1. /\ pc' = pc /\ cur' = cur /\ par' = par /\ old' = old /\ cwd' = cwd
      /\ Blocks \ disk.used # {} /\ pc[p] = "user"
  BY DEF Write, regs, table
<1>2. PICK fd \in 1..NOFILE : ofile[p][fd] # 0 /\ disk' = Balloc(disk, file[ofile[p][fd]].ip)
  BY DEF Write
<1>3. file[ofile[p][fd]].ip \in Inums /\ DiskOK(disk)
  BY <1>2, FdCounted DEF Inv, TypeOK
<1>a. PICK i \in Inums : disk' = Balloc(disk, i)
  BY <1>2, <1>3
<1>b. \E b \in Blocks \ disk.used :
        /\ DiskOK(Balloc(disk, i)) /\ Balloc(disk, i).dir = disk.dir
        /\ Balloc(disk, i).used = disk.used \cup {b}
        /\ Balloc(disk, i).inode = [disk.inode EXCEPT ![i] = [disk.inode[i] EXCEPT !.blk = b]]
  BY <1>1, <1>3, BallocDoes, Zenon
<1>4. PICK b \in Blocks :
        /\ disk'.dir = disk.dir
        /\ disk'.inode = [disk.inode EXCEPT ![i] = [disk.inode[i] EXCEPT !.blk = b]]
  BY <1>a, <1>b
<1>5. disk.inode \in [Inums -> Dinode]
  BY <1>3 DEF DiskOK
<1>6. SameShape
  <2>1. ASSUME NEW j \in Inums
        PROVE  disk'.inode[j].type = disk.inode[j].type /\ disk'.inode[j].nlink = disk.inode[j].nlink
    <3>1. CASE j # i
      BY <3>1, <1>4, <1>5
    <3>2. CASE j = i
      <4>1. disk.inode[i] \in Dinode /\ disk'.inode[i] = [disk.inode[i] EXCEPT !.blk = b]
        BY <1>4, <1>5
      <4>2. QED
        BY <3>2, <4>1 DEF Dinode
    <3>3. QED
      BY <3>1, <3>2
  <2>2. QED
    BY <2>1, <1>4 DEF SameShape
<1>7. QED
  BY <1>1, <1>6, RestTree

\* An inode less to put, or its lock released.
LEMMA HasPutTree ==
  ASSUME Inv, TreeInv, Running, NEW p \in Procs, disk' = disk, cwd' = cwd, put[p] # <<>>, HasPut(p)
  PROVE  TreeInv'
<1>1. /\ pc' = [pc EXCEPT ![p] = IF pc[p] = "end" /\ Len(put[p]) = 1 THEN "user" ELSE pc[p]]
      /\ cur' = cur /\ par' = par /\ old' = old
  BY DEF HasPut
<1>2. pc \in [Procs -> Pcs]
  BY TypeParts DEF Inv, RegsTyped
<1>3. \A q \in Procs : pc'[q] = pc[q] \/ (pc'[q] = "user" /\ pc[q] = "end")
  <2>1. PICK l : l = IF pc[p] = "end" /\ Len(put[p]) = 1 THEN "user" ELSE pc[p]
    OBVIOUS
  <2>2. l = pc[p] \/ (l = "user" /\ pc[p] = "end")
    BY <2>1
  <2>3. pc' = [pc EXCEPT ![p] = l]
    BY <1>1, <2>1
  <2>4. QED
    BY <1>2, <2>2, <2>3
<1>4. \A q \in Procs : old'[q] \in {0, old[q]}
  BY <1>1
<1>5. \A q \in Procs : /\ pc'[q] = "new" <=> pc[q] = "new"
                       /\ pc[q] = "new" => cur'[q] = cur[q]
  BY <1>1, <1>3
<1>6. \A q \in Procs : /\ pc'[q] \in {"namei", "parent", "dir"} => Settled(cur'[q])
                       /\ cwd'[q] # 0 => Settled(cwd'[q])
                       /\ par'[q] # 0 => Settled(par'[q])
  BY <1>1, <1>3, SettledAre
<1>7. QED
  BY <1>4, <1>5, <1>6, SameDisk, QuietTree

LEMMA PanicsTree ==
  ASSUME Inv, TreeInv, Running, NEW p \in Procs, Panics(p)
  PROVE  TreeInv'
<1>1. disk' = disk /\ old' = old /\ pc' = [pc EXCEPT ![p] = "panic"]
  BY DEF Panics
<1>2. DiskTree'
  BY <1>1, SameDisk, QuietDisk DEF TreeInv
<1>3. ~Running'
  BY <1>1, TypeParts DEF Inv, RegsTyped, Running
<1>4. QED
  BY <1>2, <1>3 DEF TreeInv

LEMMA CrashTree ==
  ASSUME Inv, TreeInv, Crash
  PROVE  TreeInv'
<1>1. /\ disk' = disk /\ cwd' = Boot.cwd /\ pc' = Boot.pc
      /\ cur' = Boot.ptr /\ par' = Boot.ptr /\ old' = Boot.ptr /\ Quiescent
  BY DEF Crash
<1>2. Running
  BY <1>1 DEF Quiescent, Running
<1>3. \A q \in Procs : /\ pc'[q] = "user" /\ pc[q] = "user" /\ cwd'[q] \in {0, Root}
                       /\ par'[q] = 0 /\ old'[q] = 0
  BY <1>1 DEF Boot, Quiescent
<1>4. \A q \in Procs : old'[q] \in {0, old[q]}
  BY <1>3
<1>5. \A q \in Procs : /\ pc'[q] = "new" <=> pc[q] = "new"
                       /\ pc[q] = "new" => cur'[q] = cur[q]
  BY <1>3
<1>6. \A q \in Procs : /\ pc'[q] \in {"namei", "parent", "dir"} => Settled(cur'[q])
                       /\ cwd'[q] # 0 => Settled(cwd'[q])
                       /\ par'[q] # 0 => Settled(par'[q])
  BY <1>2, <1>3, SettledAre
<1>7. QED
  BY <1>1, <1>2, <1>4, <1>5, <1>6, SameDisk, QuietTree

LEMMA StutterTree ==
  ASSUME Inv, TreeInv, UNCHANGED vars
  PROVE  TreeInv'
<1>1. disk' = disk /\ pc' = pc /\ cur' = cur /\ par' = par /\ old' = old /\ cwd' = cwd
  BY DEF vars, table, regs
<1>2. CASE Running
  BY <1>1, <1>2, SameDisk, RestTree
<1>3. CASE ~Running
  <2>1. DiskTree'
    BY <1>1, SameDisk, QuietDisk DEF TreeInv
  <2>2. ~Running'
    BY <1>1, <1>3 DEF Running
  <2>3. QED
    BY <2>1, <2>2 DEF TreeInv
<1>4. QED
  BY <1>2, <1>3

-----------------------------------------------------------------------------
(* iput(). *)

LEMMA NamedInSet ==
  ASSUME NEW i, Named(i)
  PROVE  NameSet(i) # {}
<1>1. PICK d \in Inums, n \in Names : disk.dir[d][n] = i
  BY DEF Named
<1>2. <<d, n>> \in NameSet(i)
  BY <1>1 DEF NameSet
<1>3. QED
  BY <1>2

\* What has no links has no name, and no directory in it.
LEMMA Unlinked ==
  ASSUME Inv, DiskTree, NEW i \in Inums, disk.inode[i].type # "free", disk.inode[i].nlink = 0
  PROVE  i # Root /\ ~Named(i) /\ (disk.inode[i].type = "dir" => Kids(i) = {})
<1>1. /\ NamedLive /\ FileLinks /\ DirLinks /\ RootOK /\ TypeOK
      /\ disk.inode[i].type \in {"dir", "file"}
  BY DEF Inv, DiskTree, TypeOK, DiskOK, Dinode
<1>2. IsFiniteSet(NameSet(i)) /\ IsFiniteSet(Kids(i))
  BY FiniteSets, FS_Subset DEF NameSet, Kids
<1>3. Count(NameSet(i)) \in Nat /\ Count(Kids(i)) \in Nat /\ Count(Where(Procs, old, i)) \in Nat
  BY <1>1, <1>2, CountsAre, FS_CardinalityType DEF Count
<1>4. CASE disk.inode[i].type = "file"
  <2>1. 0 >= Count(NameSet(i)) + Count(Where(Procs, old, i))
    BY <1>1, <1>4 DEF FileLinks
  <2>2. Count(NameSet(i)) = 0
    BY <2>1, <1>3
  <2>3. NameSet(i) = {}
    BY <2>2, <1>2, FS_EmptySet DEF Count
  <2>4. ~Named(i)
    BY <2>3, NamedInSet
  <2>5. QED
    BY <2>4, <1>1, <1>4 DEF RootOK
<1>5. CASE disk.inode[i].type = "dir"
  <2>1. 0 = One(Named(i)) + One(i = Root) + Count(Kids(i))
    BY <1>1, <1>5 DEF DirLinks
  <2>2. One(Named(i)) \in Nat /\ One(i = Root) \in Nat
    BY DEF One
  <2>3. One(Named(i)) = 0 /\ One(i = Root) = 0 /\ Count(Kids(i)) = 0
    BY <2>1, <2>2, <1>3
  <2>4. Kids(i) = {}
    BY <2>3, <1>2, FS_EmptySet DEF Count
  <2>5. QED
    BY <2>3, <2>4 DEF One
<1>6. QED
  BY <1>1, <1>4, <1>5

LEMMA FreesDisk ==
  ASSUME Inv, DiskTree, NEW i \in Inums, disk.inode[i].type # "free", disk.inode[i].nlink = 0,
         disk'.inode[i].type = "free", disk'.dir[i] = NoEntries, old' = old,
         \A j \in Inums \ {i} : disk'.inode[j] = disk.inode[j] /\ disk'.dir[j] = disk.dir[j]
  PROVE  DiskTree'
<1>1. /\ NamedLive /\ FileLinks /\ DirLinks /\ RootOK /\ OneName /\ TypeOK /\ OnlyDirs
      /\ Root \in Inums
  BY FileSysAssumption DEF Inv, DiskTree, Root, Inums
<1>2. i # Root /\ ~Named(i) /\ (disk.inode[i].type = "dir" => Kids(i) = {}) /\ i # 0
  BY Unlinked DEF Inums
<1>3. \A d \in Inums, n \in Names : disk'.dir[d][n] # 0 => d # i /\ disk'.dir[d][n] = disk.dir[d][n]
  BY DEF NoEntries, Entries
<1>4. \A j \in Inums : Named(j)' => Named(j)
  BY <1>3 DEF Named, Inums
<1>5. ASSUME NEW j \in Inums, disk.inode[j].type = "dir", Named(j)
      PROVE  j # i /\ Named(j)'
  <2>1. PICK d \in Inums, n \in Names : disk.dir[d][n] = j
    BY <1>5 DEF Named
  <2>2. ASSUME d = i
        PROVE  FALSE
    <3>1. disk.inode[i].type = "dir"
      BY <1>1, <2>1, <2>2 DEF OnlyDirs, Entries, Inums
    <3>2. disk.dir[j][".."] = i
      BY <1>1, <1>5, <2>1, <2>2 DEF OneName
    <3>3. j \in Kids(i)
      BY <1>5, <3>2 DEF Kids
    <3>4. QED
      BY <3>1, <3>3, <1>2
  <2>3. disk'.dir[d][n] = j
    BY <2>1, <2>2
  <2>4. QED
    BY <1>2, <1>5, <2>3 DEF Named
<1>6. NamedLive'
  BY <1>1, <1>2, <1>4 DEF NamedLive
<1>7. FileLinks'
  <2>1. ASSUME NEW j \in Inums, disk'.inode[j].type = "file"
        PROVE  disk'.inode[j].nlink >= Count(NameSet(j)') + Count(Where(Procs, old, j))
    <3>1. j # i /\ disk'.inode[j] = disk.inode[j]
      BY <2>1
    <3>2. disk.inode[j].nlink >= Count(NameSet(j)) + Count(Where(Procs, old, j))
      BY <1>1, <2>1, <3>1 DEF FileLinks
    <3>3. NameSet(j)' \subseteq NameSet(j)
      BY <1>3 DEF NameSet, Inums
    <3>4. IsFiniteSet(NameSet(j))
      BY FiniteSets, FS_Subset DEF NameSet
    <3>5. /\ Count(NameSet(j)') \in Nat /\ Count(NameSet(j)) \in Nat
          /\ Count(NameSet(j)') <= Count(NameSet(j))
      BY <3>3, <3>4, FS_Subset, FS_CardinalityType DEF Count
    <3>6. Count(Where(Procs, old, j)) \in Nat /\ disk.inode[j].nlink \in Int
      BY <1>1, CountsAre DEF TypeOK, DiskOK, Dinode
    <3>7. QED
      BY <3>1, <3>2, <3>5, <3>6
  <2>2. QED
    BY <2>1 DEF FileLinks, Count, Where
<1>8. DirLinks'
  <2>1. ASSUME NEW j \in Inums, disk'.inode[j].type = "dir"
        PROVE  disk'.inode[j].nlink = One(Named(j)') + One(j = Root) + Count(Kids(j)')
    <3>1. j # i /\ disk'.inode[j] = disk.inode[j]
      BY <2>1
    <3>2. disk.inode[j].nlink = One(Named(j)) + One(j = Root) + Count(Kids(j))
      BY <1>1, <2>1, <3>1 DEF DirLinks
    <3>3. Named(j)' <=> Named(j)
      BY <1>4, <1>5, <2>1, <3>1
    <3>4. Kids(j)' = Kids(j)
      BY <1>2, <1>4, <1>5 DEF Kids
    <3>5. QED
      BY <3>1, <3>2, <3>3, <3>4 DEF One
  <2>2. QED
    BY <2>1 DEF DirLinks, Count, One
<1>9. RootOK'
  BY <1>1, <1>2, <1>4 DEF RootOK
<1>10. OneName'
  <2>1. ASSUME NEW j \in Inums, NEW d \in Inums, NEW n \in Names,
               disk'.dir[d][n] = j, disk'.inode[j].type = "dir"
        PROVE  /\ disk'.dir[j]["."] = j /\ disk'.dir[j][".."] = d
               /\ \A m \in Names : disk'.dir[d][m] = j => m = n
    <3>1. d # i /\ j # i /\ disk.dir[d][n] = j
      BY <1>3, <2>1 DEF Inums
    <3>2. QED
      BY <1>1, <2>1, <3>1 DEF OneName
  <2>2. QED
    BY <2>1 DEF OneName
<1>11. QED
  BY <1>6, <1>7, <1>8, <1>9, <1>10 DEF DiskTree

\* iput() frees an inode that no process uses.
LEMMA IputFreesTree ==
  ASSUME Inv, TreeInv, Running, NEW p \in Procs, iput(p), NEW i, i = Head(put[p]),
         ref[i] = 1, mem[i] # NoInode, mem[i].nlink = 0
  PROVE  TreeInv'
<1>1. TypeOK /\ RefsExact /\ CacheFits /\ DiskTree /\ CallsTree /\ DiskOK(disk)
  BY DEF Inv, TreeInv, TypeOK
<1>2. /\ put[p] # <<>> /\ stage[p] = 0 /\ lock[i] = NoProc
      /\ disk' = iupdate(itrunc(disk, i), i, FreeInode)
      /\ cwd' = cwd /\ pc' = pc /\ cur' = cur /\ par' = par /\ old' = old
  BY DEF iput, table, regs, FreeInode
<1>3. i \in Inums /\ \A q \in Procs : cwd[q] # i /\ cur[q] # i /\ par[q] # i /\ old[q] # i
  BY <1>1, <1>2, SoleRef, PutCounted
<1>4. disk.inode[i].type # "free" /\ disk.inode[i].nlink = 0
  <2>1. ~Freeing(i)
    BY <1>2, FileSysAssumption DEF Freeing
  <2>2. QED
    BY <1>1, <1>3, <2>1 DEF CacheFits
<1>5. /\ disk'.inode[i] = FreeInode /\ disk'.dir[i] = NoEntries
      /\ \A j \in Inums \ {i} : disk'.inode[j] = disk.inode[j] /\ disk'.dir[j] = disk.dir[j]
  <2>1. PICK d : d = itrunc(disk, i)
    OBVIOUS
  <2>2. /\ DiskOK(d) /\ d.inode = [disk.inode EXCEPT ![i] = [@ EXCEPT !.blk = 0]]
        /\ d.dir = [disk.dir EXCEPT ![i] = NoEntries]
    BY <1>1, <1>3, <2>1, ItruncDoes
  <2>3. FreeInode \in Dinode
    BY DEF FreeInode, Dinode
  <2>4. disk'.inode = [d.inode EXCEPT ![i] = FreeInode] /\ disk'.dir = d.dir
    BY <1>2, <1>3, <2>1, <2>2, <2>3, IupdateDoes
  <2>5. /\ disk.inode \in [Inums -> Dinode] /\ d.inode \in [Inums -> Dinode]
        /\ disk.dir \in [Inums -> [Entries -> {0} \cup Inums]]
    BY <1>1, <2>2 DEF DiskOK
  <2>6. QED
    BY <1>3, <2>2, <2>4, <2>5
<1>6. DiskTree'
  <2>1. disk'.inode[i].type = "free"
    BY <1>5 DEF FreeInode
  <2>2. QED
    BY <1>1, <1>2, <1>3, <1>4, <1>5, <2>1, FreesDisk
<1>7. \A j : SettledNext(j) <=> Settled(j) /\ j # i
  BY <1>2, <1>3, <1>5 DEF Settled, SettledNext, FreeInode
<1>8. \A j \in Inums : SettledNext(j) /\ disk'.inode[j].type = "dir" => disk'.dir[j]["."] = j
  BY <1>1, <1>5, <1>7 DEF CallsTree, Dots
<1>9. ASSUME NEW q \in Procs, pc'[q] = "new"
      PROVE  ~NamedNext(cur'[q]) /\ disk'.inode[cur'[q]].nlink = 0 /\ disk'.dir[cur'[q]] = NoEntries
  <2>1. cur[q] \in Inums /\ cur'[q] = cur[q] /\ cur[q] # i /\ pc[q] = "new" /\ cur[q] # 0
    BY <1>2, <1>3, <1>9, NewHolds DEF Inums
  <2>2. ~Named(cur[q]) /\ disk.inode[cur[q]].nlink = 0 /\ disk.dir[cur[q]] = NoEntries
    BY <1>1, <2>1 DEF CallsTree, NewAlone
  <2>3. \A d \in Inums, n \in Names : disk'.dir[d][n] \in {0, disk.dir[d][n]}
    BY <1>5 DEF NoEntries, Entries
  <2>4. ~NamedNext(cur[q])
    BY <2>1, <2>2, <2>3 DEF Named, NamedNext
  <2>5. QED
    BY <1>5, <2>1, <2>2, <2>4
<1>10. \A q \in Procs : /\ pc'[q] \in {"namei", "parent", "dir"} => SettledNext(cur'[q])
                        /\ cwd'[q] # 0 => SettledNext(cwd'[q])
                        /\ par'[q] # 0 => SettledNext(par'[q])
                        /\ old'[q] # 0 => SettledNext(old'[q])
  BY <1>2, <1>3, <1>7, SettledAre
<1>11. CallsTree'
  BY <1>8, <1>9, <1>10, CallsNext
<1>12. QED
  BY <1>6, <1>11 DEF TreeInv

LEMMA PutTree ==
  ASSUME Inv, TreeInv, Running, NEW p \in Procs, Put(p)
  PROVE  TreeInv'
<1>1. CASE iput(p)
  <2>1. PICK i : i = Head(put[p])
    OBVIOUS
  <2>2. CASE ref[i] = 1 /\ mem[i] # NoInode /\ mem[i].nlink = 0
    BY <1>1, <2>1, <2>2, IputFreesTree
  <2>3. CASE ~(ref[i] = 1 /\ mem[i] # NoInode /\ mem[i].nlink = 0)
    <3>1. put[p] # <<>> /\ HasPut(p) /\ disk' = disk /\ cwd' = cwd
      BY <1>1, <2>1, <2>3 DEF iput, table
    <3>2. QED
      BY <3>1, HasPutTree
  <2>4. QED
    BY <2>2, <2>3
<1>2. CASE Freed(p)
  BY <1>2, SameDisk, RestTree DEF Freed, regs, table
<1>3. CASE FreedDeref(p)
  <2>1. HasPut(p) /\ disk' = disk /\ cwd' = cwd /\ stage[p] = 2
    BY <1>3 DEF FreedDeref, table
  <2>2. put[p] # <<>>
    BY <2>1 DEF Inv, Shape, ProcOK
  <2>3. QED
    BY <2>1, <2>2, HasPutTree
<1>4. QED
  BY <1>1, <1>2, <1>3 DEF Put

-----------------------------------------------------------------------------
(* create(). *)

LEMMA AllocDisk ==
  ASSUME Inv, DiskTree, NEW i \in Inums, disk.inode[i].type = "free",
         disk'.inode[i].nlink = 0, disk'.dir = disk.dir,
         \A j \in Inums \ {i} : disk'.inode[j] = disk.inode[j],
         \A q \in Procs : old'[q] \in {0, old[q]}
  PROVE  DiskTree'
<1>1. /\ NamedLive /\ FileLinks /\ DirLinks /\ RootOK /\ OneName /\ TypeOK /\ OnlyDirs
      /\ Root \in Inums /\ \A q \in Procs : Reached(q)
  BY FileSysAssumption DEF Inv, DiskTree, Root, Inums
<1>2. i # Root /\ ~Named(i) /\ i # 0
  BY <1>1 DEF NamedLive, RootOK, Inums
<1>3. \A j : Named(j)' <=> Named(j)
  BY DEF Named
<1>4. \A j : NameSet(j)' = NameSet(j)
  BY DEF NameSet
<1>5. NamedLive'
  BY <1>1, <1>2, <1>3 DEF NamedLive
<1>6. FileLinks'
  <2>1. ASSUME NEW j \in Inums, disk'.inode[j].type = "file", j # i
        PROVE  disk'.inode[j].nlink >= Count(NameSet(j)') + Count(Where(Procs, old', j))
    <3>1. disk.inode[j].nlink >= Count(NameSet(j)) + Count(Where(Procs, old, j))
      BY <1>1, <2>1 DEF FileLinks
    <3>2. disk.inode[j].nlink \in Int
      BY <1>1 DEF TypeOK, DiskOK, Dinode
    <3>3. Count(NameSet(j)) \in Nat
      BY FiniteSets, FS_Subset, FS_CardinalityType DEF Count, NameSet
    <3>4. QED
      BY <1>1, <1>4, <2>1, <3>1, <3>2, <3>3, FewerOld
  <2>2. Count(NameSet(i)') = 0
    <3>1. NameSet(i) = {}
      BY <1>2 DEF NameSet, Named
    <3>2. QED
      BY <1>4, <3>1, NoneCounted
  <2>3. Count(Where(Procs, old', i)) = 0
    <3>1. Where(Procs, old', i) = {}
      BY <1>1, <1>2 DEF Reached, Where
    <3>2. QED
      BY <3>1, NoneCounted
  <2>4. \A j \in Inums : disk'.inode[j].type = "file" =>
          disk'.inode[j].nlink >= Count(NameSet(j)') + Count(Where(Procs, old', j))
    BY <2>1, <2>2, <2>3
  <2>5. QED
    BY <2>4 DEF FileLinks, Count, Where
<1>7. ASSUME NEW j \in Inums, j # i
      PROVE  Kids(j)' = Kids(j)
  BY <1>2, <1>3 DEF Kids
<1>8. Kids(i)' = {}
  <2>1. ASSUME NEW k \in Inums, disk'.inode[k].type = "dir", Named(k), disk.dir[k][".."] = i
        PROVE  FALSE
    <3>1. k # i /\ disk.inode[k].type = "dir"
      BY <1>2, <2>1
    <3>2. PICK d \in Inums, n \in Names : disk.dir[d][n] = k
      BY <2>1 DEF Named
    <3>3. d = i
      BY <1>1, <2>1, <3>1, <3>2 DEF OneName
    <3>4. disk.dir[i][n] = 0
      BY <1>1 DEF OnlyDirs, Entries
    <3>5. QED
      BY <3>2, <3>3, <3>4 DEF Inums
  <2>2. QED
    BY <1>3, <2>1 DEF Kids
<1>9. DirLinks'
  <2>1. ASSUME NEW j \in Inums, disk'.inode[j].type = "dir", j # i
        PROVE  disk'.inode[j].nlink = One(Named(j)') + One(j = Root) + Count(Kids(j)')
    <3>1. disk.inode[j].nlink = One(Named(j)) + One(j = Root) + Count(Kids(j))
      BY <1>1, <2>1 DEF DirLinks
    <3>2. QED
      BY <2>1, <3>1, <1>3, <1>7 DEF One
  <2>2. 0 = One(Named(i)') + One(i = Root) + Count(Kids(i)')
    BY <1>2, <1>3, <1>8, NoneCounted DEF One
  <2>3. \A j \in Inums : disk'.inode[j].type = "dir" =>
          disk'.inode[j].nlink = One(Named(j)') + One(j = Root) + Count(Kids(j)')
    BY <2>1, <2>2
  <2>4. QED
    BY <2>3 DEF DirLinks, Count, One
<1>10. RootOK'
  BY <1>1, <1>2, <1>3 DEF RootOK
<1>11. OneName'
  <2>1. ASSUME NEW j \in Inums, NEW d \in Inums, NEW n \in Names,
               disk.dir[d][n] = j, disk'.inode[j].type = "dir"
        PROVE  /\ disk.dir[j]["."] = j /\ disk.dir[j][".."] = d
               /\ \A m \in Names : disk.dir[d][m] = j => m = n
    <3>1. j # i
      BY <1>2, <2>1 DEF Named
    <3>2. QED
      BY <1>1, <2>1, <3>1 DEF OneName
  <2>2. QED
    BY <2>1 DEF OneName
<1>12. QED
  BY <1>5, <1>6, <1>9, <1>10, <1>11 DEF DiskTree

LEMMA CreateAllocsTree ==
  ASSUME Inv, TreeInv, Running, NEW p \in Procs, CreateAllocs(p)
  PROVE  TreeInv'
<1>1. /\ DiskTree /\ CallsTree /\ DiskOK(disk) /\ OnlyDirs
      /\ pc[p] = "dir" /\ old[p] = 0 /\ cwd' = cwd
  BY DEF Inv, TreeInv, TypeOK, CreateAllocs, At, table
<1>2. PICK dp : dp = cur[p]
  OBVIOUS
<1>3. PICK i, c :
        /\ i \in Inums
        /\ disk.inode[i].type = "free"
        /\ disk' = iupdate(disk, i, [type |-> IF c = "mkdir" THEN "dir" ELSE "file",
                                     nlink |-> 0, blk |-> 0])
        /\ Goto(p, "new", i, dp, 0, <<>>)
  BY <1>2 DEF CreateAllocs
<1>4. PICK t \in {"dir", "file"} : disk' = iupdate(disk, i, [type |-> t, nlink |-> 0, blk |-> 0])
  BY <1>3
<1>5. /\ disk'.dir = disk.dir /\ disk'.inode[i].type = t /\ disk'.inode[i].nlink = 0
      /\ \A j \in Inums \ {i} : disk'.inode[j] = disk.inode[j]
  <2>1. PICK ip : ip = [type |-> t, nlink |-> 0, blk |-> 0]
    OBVIOUS
  <2>2. ip \in Dinode /\ ip.type = t /\ ip.nlink = 0
    BY <2>1 DEF Dinode
  <2>3. disk'.dir = disk.dir /\ disk'.inode = [disk.inode EXCEPT ![i] = ip]
    BY <1>1, <1>3, <1>4, <2>1, <2>2, IupdateDoes
  <2>4. disk.inode \in [Inums -> Dinode]
    BY <1>1 DEF DiskOK
  <2>5. QED
    BY <1>3, <2>2, <2>3, <2>4
<1>6. RegsStay(p) /\ pc'[p] = "new" /\ cur'[p] = i /\ par'[p] = dp /\ old'[p] = 0
  BY <1>3, GotoSets
<1>7. DiskTree'
  <2>1. \A q \in Procs : old'[q] \in {0, old[q]}
    BY <1>6 DEF RegsStay
  <2>2. QED
    BY <1>1, <1>3, <1>5, <2>1, AllocDisk
<1>8. \A j : SettledNext(j) <=> Settled(j)
  <2>1. ~Settled(i)
    BY <1>3 DEF Settled
  <2>2. ~SettledNext(i)
    BY <1>6 DEF SettledNext
  <2>3. ASSUME NEW j, j # i
        PROVE  SettledNext(j) <=> Settled(j)
    BY <2>3, <1>1, <1>5, <1>6 DEF Settled, SettledNext, RegsStay
  <2>4. QED
    BY <2>1, <2>2, <2>3
<1>9. \A j \in Inums : SettledNext(j) /\ disk'.inode[j].type = "dir" => disk'.dir[j]["."] = j
  <2>1. ~Settled(i)
    BY <1>3 DEF Settled
  <2>2. QED
    BY <1>1, <1>5, <1>8, <2>1 DEF CallsTree, Dots
<1>10. ASSUME NEW q \in Procs, pc'[q] = "new"
       PROVE  ~NamedNext(cur'[q]) /\ disk'.inode[cur'[q]].nlink = 0 /\ disk'.dir[cur'[q]] = NoEntries
  <2>1. CASE q = p
    <3>1. disk.dir[i] = NoEntries
      BY <1>1, <1>3 DEF OnlyDirs, DiskOK, NoEntries
    <3>2. ~Named(i)
      BY <1>1, <1>3 DEF DiskTree, NamedLive
    <3>3. QED
      BY <2>1, <1>5, <1>6, <3>1, <3>2 DEF Named, NamedNext
  <2>2. CASE q # p
    <3>1. pc[q] = "new" /\ cur'[q] = cur[q]
      BY <2>2, <1>6, <1>10 DEF RegsStay
    <3>2. cur[q] \in Inums /\ cur[q] # i
      BY <3>1, <1>3, NewHolds
    <3>3. ~Named(cur[q]) /\ disk.inode[cur[q]].nlink = 0 /\ disk.dir[cur[q]] = NoEntries
      BY <1>1, <3>1 DEF CallsTree, NewAlone
    <3>4. QED
      BY <1>5, <3>1, <3>2, <3>3 DEF Named, NamedNext
  <2>3. QED
    BY <2>1, <2>2
<1>11. \A q \in Procs : /\ pc'[q] \in {"namei", "parent", "dir"} => SettledNext(cur'[q])
                        /\ cwd'[q] # 0 => SettledNext(cwd'[q])
                        /\ par'[q] # 0 => SettledNext(par'[q])
                        /\ old'[q] # 0 => SettledNext(old'[q])
  BY <1>1, <1>2, <1>6, <1>8, SettledAre DEF RegsStay
<1>12. CallsTree'
  BY <1>9, <1>10, <1>11, CallsNext
<1>13. QED
  BY <1>7, <1>12 DEF TreeInv

-----------------------------------------------------------------------------
(* Steps that enter a name or take one away. *)

TypesStay == \A j \in Inums : disk'.inode[j].type = disk.inode[j].type

\* One entry changes: the names of what it names count one less or one more.
LEMMA NamesMove ==
  ASSUME NEW dp \in Inums, NEW n \in Names, NEW i,
         \A d \in Inums, m \in Names : d # dp \/ m # n => disk'.dir[d][m] = disk.dir[d][m]
  PROVE  /\ Count(NameSet(i)) \in Nat /\ Count(NameSet(i)') \in Nat
         /\ Count(NameSet(i)') = Count(NameSet(i)) - Same(disk.dir[dp][n], i)
                                 + Same(disk'.dir[dp][n], i)
<1>1. PICK A : A = NameSet(i)
  OBVIOUS
<1>2. PICK B : B = NameSet(i)'
  OBVIOUS
<1>3. A = {x \in Inums \X Names : disk.dir[x[1]][x[2]] = i}
  BY <1>1 DEF NameSet
<1>4. B = {x \in Inums \X Names : disk'.dir[x[1]][x[2]] = i}
  BY <1>2 DEF NameSet
<1>5. IsFiniteSet(A)
  BY <1>3, FiniteSets, FS_Subset
<1>6. PICK x : x = <<dp, n>>
  OBVIOUS
<1>7. A \ {x} = B \ {x}
  BY <1>3, <1>4, <1>6
<1>8. (x \in A <=> disk.dir[dp][n] = i) /\ (x \in B <=> disk'.dir[dp][n] = i)
  BY <1>3, <1>4, <1>6
<1>9. Count(A) \in Nat /\ Count(B) \in Nat /\ Count(B) = Count(A) - Has(A, x) + Has(B, x)
  BY <1>5, <1>7, CountAt
<1>10. QED
  BY <1>1, <1>2, <1>8, <1>9 DEF Has, Same

LEMMA WhereOld ==
  ASSUME NEW p \in Procs, \A q \in Procs \ {p} : old'[q] = old[q], NEW i
  PROVE  /\ Count(Where(Procs, old, i)) \in Nat /\ Count(Where(Procs, old', i)) \in Nat
         /\ Count(Where(Procs, old', i)) = Count(Where(Procs, old, i)) - Same(old[p], i) + Same(old'[p], i)
<1>1. PICK A : A = Where(Procs, old, i)
  OBVIOUS
<1>2. PICK B : B = Where(Procs, old', i)
  OBVIOUS
<1>3. A \in SUBSET Procs /\ A \ {p} = B \ {p} /\ (p \in A <=> old[p] = i) /\ (p \in B <=> old'[p] = i)
  BY <1>1, <1>2 DEF Where
<1>4. IsFiniteSet(A)
  BY <1>3, FiniteSets, FS_Subset
<1>5. Count(A) \in Nat /\ Count(B) \in Nat /\ Count(B) = Count(A) - Has(A, p) + Has(B, p)
  BY <1>3, <1>4, CountAt
<1>6. QED
  BY <1>1, <1>2, <1>3, <1>5 DEF Has, Same

LEMMA FileLinksFrom ==
  ASSUME TypeOK, FileLinks, NEW p \in Procs, \A q \in Procs \ {p} : old'[q] = old[q],
         \A i \in Inums : disk'.inode[i].type = "file" =>
           /\ disk.inode[i].type = "file" /\ disk'.inode[i].nlink \in Int
           /\ Count(NameSet(i)) \in Nat /\ Count(NameSet(i)') \in Nat
           /\ disk'.inode[i].nlink - disk.inode[i].nlink
              >= Count(NameSet(i)') - Count(NameSet(i)) + Same(old'[p], i) - Same(old[p], i)
  PROVE  FileLinks'
<1>1. ASSUME NEW i \in Inums, disk'.inode[i].type = "file"
      PROVE  disk'.inode[i].nlink >= Count(NameSet(i)') + Count(Where(Procs, old', i))
  <2>1. disk.inode[i].nlink >= Count(NameSet(i)) + Count(Where(Procs, old, i))
    BY <1>1 DEF FileLinks
  <2>2. /\ Count(Where(Procs, old, i)) \in Nat /\ Count(Where(Procs, old', i)) \in Nat
        /\ Count(Where(Procs, old', i)) = Count(Where(Procs, old, i)) - Same(old[p], i) + Same(old'[p], i)
    BY WhereOld
  <2>3. Same(old[p], i) \in Int /\ Same(old'[p], i) \in Int
    BY DEF Same
  <2>4. PICK a \in Int, b \in Int, u \in Int, v \in Int :
          /\ a = Count(NameSet(i)) /\ b = Count(NameSet(i)')
          /\ u = Count(Where(Procs, old, i)) /\ v = Count(Where(Procs, old', i))
    BY <1>1, <2>2
  <2>5. PICK s \in Int, t \in Int, k \in Int, l \in Int :
          /\ s = Same(old[p], i) /\ t = Same(old'[p], i)
          /\ k = disk.inode[i].nlink /\ l = disk'.inode[i].nlink
    BY <1>1, <2>3 DEF TypeOK, DiskOK, Dinode
  <2>6. k >= a + u /\ v = u - s + t
    BY <2>1, <2>2, <2>4, <2>5
  <2>7. l - k >= b - a + t - s
    BY <1>1, <2>4, <2>5
  <2>8. l >= b + v
    <3>1. /\ a \in Int /\ b \in Int /\ u \in Int /\ v \in Int
          /\ s \in Int /\ t \in Int /\ k \in Int /\ l \in Int
      OBVIOUS
    <3>2. QED
      BY ONLY <2>6, <2>7, <3>1
  <2>9. QED
    BY <2>4, <2>5, <2>8
<1>2. QED
  BY <1>1 DEF FileLinks, Count, Where

\* The names and links of a file are no matter for the directories.
LEMMA FileDisk ==
  ASSUME Inv, DiskTree, TypesStay, FileLinks', NEW i \in Inums, disk.inode[i].type = "file",
         \A j \in Inums \ {i} : disk'.inode[j].nlink = disk.inode[j].nlink,
         \A d \in Inums, n \in Names : \/ disk'.dir[d][n] = disk.dir[d][n]
                                       \/ disk.dir[d][n] \in {0, i} /\ disk'.dir[d][n] \in {0, i},
         \A d \in Inums : disk'.dir[d]["."] = disk.dir[d]["."] /\ disk'.dir[d][".."] = disk.dir[d][".."]
  PROVE  DiskTree'
<1>1. /\ NamedLive /\ DirLinks /\ RootOK /\ OneName /\ Root \in Inums
      /\ \A j \in Inums : disk'.inode[j].type = disk.inode[j].type
  BY FileSysAssumption DEF DiskTree, Root, Inums, TypesStay
<1>2. \A j \in Inums \ {i}, d \in Inums, n \in Names : disk'.dir[d][n] = j <=> disk.dir[d][n] = j
  BY DEF Inums
<1>3. \A j \in Inums \ {i} : Named(j)' <=> Named(j)
  BY <1>2 DEF Named
<1>4. NamedLive'
  BY <1>1, <1>3 DEF NamedLive
<1>5. \A j \in Inums : Kids(j)' = Kids(j)
  BY <1>1, <1>3 DEF Kids
<1>6. DirLinks'
  <2>1. ASSUME NEW j \in Inums, disk'.inode[j].type = "dir"
        PROVE  disk'.inode[j].nlink = One(Named(j)') + One(j = Root) + Count(Kids(j)')
    <3>1. j # i /\ disk'.inode[j].nlink = disk.inode[j].nlink
      BY <1>1, <2>1
    <3>2. disk.inode[j].nlink = One(Named(j)) + One(j = Root) + Count(Kids(j))
      BY <1>1, <2>1 DEF DirLinks
    <3>3. QED
      BY <3>1, <3>2, <1>3, <1>5 DEF One
  <2>2. QED
    BY <2>1 DEF DirLinks, Count, One
<1>7. RootOK'
  BY <1>1, <1>3 DEF RootOK
<1>8. OneName'
  <2>1. ASSUME NEW j \in Inums, NEW d \in Inums, NEW n \in Names,
               disk'.dir[d][n] = j, disk'.inode[j].type = "dir"
        PROVE  /\ disk'.dir[j]["."] = j /\ disk'.dir[j][".."] = d
               /\ \A m \in Names : disk'.dir[d][m] = j => m = n
    <3>1. j # i /\ disk.dir[d][n] = j /\ disk.inode[j].type = "dir"
      BY <1>1, <1>2, <2>1
    <3>2. QED
      BY <1>1, <1>2, <2>1, <3>1 DEF OneName
  <2>2. QED
    BY <2>1 DEF OneName
<1>9. QED
  BY <1>4, <1>6, <1>7, <1>8 DEF DiskTree

LEMMA EntryCalls ==
  ASSUME Inv, TreeInv, Running, TypesStay, NEW p \in Procs, RegsStay(p), pc'[p] # "new",
         NEW i \in Inums, NEW dp \in Inums, Settled(dp),
         \A q \in Procs \ {p} : pc[q] = "new" => cur[q] # i,
         pc[p] = "new" => cur[p] = i,
         \A j \in Inums \ {i, dp} :
           disk'.inode[j].nlink = disk.inode[j].nlink /\ disk'.dir[j] = disk.dir[j],
         \A d \in Inums, n \in Names : disk'.dir[d][n] \in {0, i, disk.dir[d][n]},
         disk'.dir[dp]["."] = disk.dir[dp]["."],
         disk.inode[i].type = "dir" => disk'.dir[i]["."] = i,
         cwd' = cwd, par'[p] = 0,
         pc'[p] \in {"namei", "parent", "dir"} => Settled(cur'[p]),
         old'[p] # 0 => Settled(old'[p])
  PROVE  CallsTree'
<1>1. CallsTree /\ \A j \in Inums : disk'.inode[j].type = disk.inode[j].type
  BY DEF TreeInv, TypesStay
<1>2. \A q \in Procs : pc'[q] = "new" => q # p /\ pc[q] = "new" /\ cur'[q] = cur[q]
  BY DEF RegsStay
<1>3. \A j : Settled(j) => SettledNext(j)
  BY <1>1, <1>2 DEF Settled, SettledNext
<1>4. ASSUME NEW j \in Inums, SettledNext(j), j # i
      PROVE  Settled(j)
  <2>1. \A q \in Procs : pc[q] = "new" => cur[q] # j
    BY <1>4 DEF SettledNext, RegsStay
  <2>2. QED
    BY <1>1, <1>4, <2>1 DEF Settled, SettledNext
<1>5. ASSUME NEW j \in Inums, SettledNext(j), disk'.inode[j].type = "dir"
      PROVE  disk'.dir[j]["."] = j
  <2>1. CASE j = i
    BY <1>1, <1>5, <2>1
  <2>2. CASE j # i
    <3>1. disk.dir[j]["."] = j
      BY <1>1, <1>4, <1>5, <2>2 DEF CallsTree, Dots
    <3>2. QED
      BY <2>2, <3>1
  <2>3. QED
    BY <2>1, <2>2
<1>6. ASSUME NEW q \in Procs, pc'[q] = "new"
      PROVE  ~NamedNext(cur'[q]) /\ disk'.inode[cur'[q]].nlink = 0 /\ disk'.dir[cur'[q]] = NoEntries
  <2>1. /\ q # p /\ pc[q] = "new" /\ cur'[q] = cur[q] /\ cur[q] # i /\ cur[q] # dp
    BY <1>2, <1>6 DEF Settled
  <2>2. cur[q] \in Inums /\ cur[q] # 0
    BY <2>1, NewHolds DEF Inums
  <2>3. ~Named(cur[q]) /\ disk.inode[cur[q]].nlink = 0 /\ disk.dir[cur[q]] = NoEntries
    BY <1>1, <2>1 DEF CallsTree, NewAlone
  <2>4. ~NamedNext(cur[q])
    BY <2>1, <2>2, <2>3 DEF Named, NamedNext
  <2>5. QED
    BY <2>1, <2>2, <2>3, <2>4
<1>7. \A q \in Procs : /\ pc'[q] \in {"namei", "parent", "dir"} => SettledNext(cur'[q])
                       /\ cwd'[q] # 0 => SettledNext(cwd'[q])
                       /\ par'[q] # 0 => SettledNext(par'[q])
                       /\ old'[q] # 0 => SettledNext(old'[q])
  BY <1>3, SettledAre DEF RegsStay
<1>8. QED
  BY <1>5, <1>6, <1>7, CallsNext

-----------------------------------------------------------------------------
(* link() and unlink() of files. *)

LEMMA LinkTree ==
  ASSUME Inv, TreeInv, Running, NEW p \in Procs, Link(p)
  PROVE  TreeInv'
<1>1. /\ TypeOK /\ DiskTree /\ CallsTree /\ DiskOK(disk) /\ CacheTyped /\ FileLinks
  BY TypeParts DEF Inv, TreeInv, DiskTree
<1>2. PICK i : i = cur[p]
  OBVIOUS
<1>3. /\ At(p, "namei", i) /\ pc[p] = "namei" /\ cwd' = cwd /\ Load(i).type = "file"
      /\ disk' = iupdate(disk, i, nlink(Load(i), 1))
  BY <1>2 DEF Link, At, table
<1>4. PICK start \in {Root, cwd[p]} : Goto(p, "parent", start, 0, i, <<>>)
  BY <1>2 DEF Link
<1>5. /\ i \in Inums /\ Load(i) = disk.inode[i] /\ disk.inode[i] \in Dinode /\ old[p] = 0
      /\ cwd[p] # 0
  BY <1>2, <1>3, AtStep
<1>6. /\ RegsStay(p) /\ pc'[p] = "parent" /\ cur'[p] = start /\ par'[p] = 0 /\ old'[p] = i
  BY <1>4, GotoSets
<1>7. Settled(i) /\ Settled(start)
  BY <1>2, <1>3, <1>5, SettledAre
<1>8. /\ disk'.dir = disk.dir /\ disk'.inode[i].type = "file"
      /\ disk'.inode[i].nlink = disk.inode[i].nlink + 1
      /\ \A j \in Inums \ {i} : disk'.inode[j] = disk.inode[j]
  <2>1. /\ nlink(disk.inode[i], 1) \in Dinode /\ nlink(disk.inode[i], 1).type = "file"
        /\ nlink(disk.inode[i], 1).nlink = disk.inode[i].nlink + 1
    BY <1>3, <1>5, NlinkDoes
  <2>2. PICK ip : ip = nlink(disk.inode[i], 1)
    OBVIOUS
  <2>3. disk'.dir = disk.dir /\ disk'.inode = [disk.inode EXCEPT ![i] = ip]
    BY <1>1, <1>3, <1>5, <2>1, <2>2, IupdateDoes
  <2>4. disk.inode \in [Inums -> Dinode]
    BY <1>1 DEF DiskOK
  <2>5. QED
    BY <1>5, <2>1, <2>2, <2>3, <2>4
<1>9. TypesStay
  BY <1>3, <1>5, <1>8 DEF TypesStay
<1>10. FileLinks'
  <2>1. ASSUME NEW j \in Inums, disk'.inode[j].type = "file"
        PROVE  /\ disk.inode[j].type = "file" /\ disk'.inode[j].nlink \in Int
               /\ Count(NameSet(j)) \in Nat /\ Count(NameSet(j)') \in Nat
               /\ disk'.inode[j].nlink - disk.inode[j].nlink
                  >= Count(NameSet(j)') - Count(NameSet(j)) + Same(old'[p], j) - Same(old[p], j)
    <3>1. NameSet(j)' = NameSet(j)
      BY <1>8 DEF NameSet
    <3>2. Count(NameSet(j)) \in Nat
      BY FiniteSets, FS_Subset, FS_CardinalityType DEF Count, NameSet
    <3>3. disk.inode[j].type = "file" /\ disk.inode[j].nlink \in Int /\ disk'.inode[j].nlink \in Int
      BY <2>1, <1>1, <1>8, <1>9 DEF TypesStay, DiskOK, Dinode
    <3>4. Same(old[p], j) = 0
      BY <1>5, SameIs
    <3>5. disk'.inode[j].nlink - disk.inode[j].nlink = Same(old'[p], j)
      BY <1>6, <1>8, <3>3 DEF Same
    <3>6. QED
      BY <3>1, <3>2, <3>3, <3>4, <3>5
  <2>2. \A q \in Procs \ {p} : old'[q] = old[q]
    BY <1>6 DEF RegsStay
  <2>3. QED
    BY <1>1, <2>1, <2>2, FileLinksFrom
<1>11. DiskTree'
  BY <1>1, <1>3, <1>5, <1>8, <1>9, <1>10, FileDisk
<1>12. CallsTree'
  <2>1. \A q \in Procs \ {p} : pc[q] = "new" => cur[q] # i
    BY <1>7 DEF Settled
  <2>2. \A d \in Inums, n \in Names : disk'.dir[d][n] \in {0, i, disk.dir[d][n]}
    BY <1>8
  <2>3. \A j \in Inums \ {i, i} :
           disk'.inode[j].nlink = disk.inode[j].nlink /\ disk'.dir[j] = disk.dir[j]
    BY <1>8
  <2>4. disk'.dir[i]["."] = disk.dir[i]["."] /\ disk.inode[i].type # "dir"
    BY <1>3, <1>5, <1>8
  <2>5. QED
    BY <1>3, <1>5, <1>6, <1>7, <1>9, <2>1, <2>2, <2>3, <2>4, EntryCalls
<1>13. QED
  BY <1>11, <1>12 DEF TreeInv

LEMMA LinkEntersTree ==
  ASSUME Inv, TreeInv, Running, NEW p \in Procs, LinkEnters(p)
  PROVE  TreeInv'
<1>1. /\ TypeOK /\ DiskTree /\ CallsTree /\ DiskOK(disk) /\ Reached(p) /\ FileLinks
  BY TypeParts DEF Inv, TreeInv, DiskTree
<1>2. /\ At(p, "dir", cur[p]) /\ pc[p] = "dir" /\ old[p] # 0 /\ cwd' = cwd
      /\ Leave(p, <<cur[p], old[p]>>)
  BY DEF LinkEnters, At, table
<1>3. cur[p] \in Inums /\ old[p] \in Inums
  <2>1. cur[p] \in Inums /\ old[p] \in {0} \cup Inums
    BY <1>2, AtStep
  <2>2. QED
    BY <1>2, <2>1
<1>4. PICK dp \in Inums, i \in Inums : dp = cur[p] /\ i = old[p]
  BY <1>3
<1>5. disk.inode[dp].type = "dir" /\ disk.inode[i].type = "file" /\ i # dp /\ i # 0
  BY <1>1, <1>2, <1>4 DEF Reached, Inums
<1>6. PICK n \in Names : disk.dir[dp][n] = 0 /\ disk' = dirlink(disk, dp, n, i)
  BY <1>4 DEF LinkEnters
<1>7. /\ disk'.inode = disk.inode
      /\ disk'.dir = [disk.dir EXCEPT ![dp] = [disk.dir[dp] EXCEPT ![n] = i]]
  <2>1. n \in Entries /\ dp \in Inums /\ i \in {0} \cup Inums
    BY DEF Entries
  <2>2. QED
    BY ONLY <1>1, <1>6, <2>1, DirlinkDoes
<1>8. /\ \A j \in Inums \ {dp} : disk'.dir[j] = disk.dir[j]
      /\ \A e \in Entries \ {n} : disk'.dir[dp][e] = disk.dir[dp][e]
      /\ disk'.dir[dp][n] = i
  <2>1. disk.dir \in [Inums -> [Entries -> {0} \cup Inums]] /\ dp \in Inums /\ n \in Entries
    BY <1>1 DEF DiskOK, Entries
  <2>2. QED
    BY ONLY <1>7, <2>1
<1>9. /\ \A d \in Inums, m \in Names : d # dp \/ m # n => disk'.dir[d][m] = disk.dir[d][m]
      /\ \A d \in Inums : disk'.dir[d]["."] = disk.dir[d]["."] /\ disk'.dir[d][".."] = disk.dir[d][".."]
  <2>1. \A e \in {".", ".."} : e \in Entries \ {n}
    BY FileSysAssumption DEF Entries
  <2>2. QED
    BY <1>8, <2>1 DEF Entries
<1>10. RegsStay(p) /\ pc'[p] = "end" /\ cur'[p] = 0 /\ par'[p] = 0 /\ old'[p] = 0
  <2>1. <<dp, i>> \in Seq(Inums) /\ <<dp, i>> # <<>>
    OBVIOUS
  <2>2. QED
    BY <1>2, <1>4, <2>1, LeaveSets
<1>11. Settled(i) /\ Settled(dp)
  BY <1>2, <1>4, <1>5, SettledAre
<1>12. TypesStay
  BY <1>7 DEF TypesStay
<1>13. FileLinks'
  <2>1. ASSUME NEW j \in Inums, disk'.inode[j].type = "file"
        PROVE  /\ disk.inode[j].type = "file" /\ disk'.inode[j].nlink \in Int
               /\ Count(NameSet(j)) \in Nat /\ Count(NameSet(j)') \in Nat
               /\ disk'.inode[j].nlink - disk.inode[j].nlink
                  >= Count(NameSet(j)') - Count(NameSet(j)) + Same(old'[p], j) - Same(old[p], j)
    <3>1. /\ Count(NameSet(j)) \in Nat /\ Count(NameSet(j)') \in Nat
          /\ Count(NameSet(j)') = Count(NameSet(j)) - Same(disk.dir[dp][n], j)
                                  + Same(disk'.dir[dp][n], j)
      BY <1>9, NamesMove
    <3>2. Same(disk.dir[dp][n], j) = 0 /\ Same(old'[p], j) = 0 /\ Same(i, j) \in Int
      BY <1>6, <1>10 DEF Same, Inums
    <3>3. disk'.inode[j].nlink = disk.inode[j].nlink /\ disk.inode[j].nlink \in Int
      BY <1>1, <1>7 DEF DiskOK, Dinode
    <3>4. PICK a \in Int, b \in Int, s \in Int, k \in Int :
            /\ a = Count(NameSet(j)) /\ b = Count(NameSet(j)') /\ s = Same(i, j)
            /\ k = disk.inode[j].nlink
      BY <3>1, <3>2, <3>3
    <3>5. b = a + s
      BY <3>1, <3>2, <3>4, <1>8
    <3>6. k - k >= b - a + 0 - s
      BY <3>5
    <3>7. QED
      BY <3>1, <3>2, <3>3, <3>4, <3>6, <1>4, <1>7, <2>1
  <2>2. \A q \in Procs \ {p} : old'[q] = old[q]
    BY <1>10 DEF RegsStay
  <2>3. QED
    BY <1>1, <2>1, <2>2, FileLinksFrom
<1>14. DiskTree'
  <2>1. \A d \in Inums, m \in Names : \/ disk'.dir[d][m] = disk.dir[d][m]
                                      \/ disk.dir[d][m] \in {0, i} /\ disk'.dir[d][m] \in {0, i}
    BY <1>6, <1>8, <1>9
  <2>2. QED
    BY <1>1, <1>5, <1>7, <1>9, <1>12, <1>13, <2>1, FileDisk
<1>15. CallsTree'
  <2>1. \A q \in Procs \ {p} : pc[q] = "new" => cur[q] # i
    BY <1>11 DEF Settled
  <2>2. \A d \in Inums, m \in Names : disk'.dir[d][m] \in {0, i, disk.dir[d][m]}
    BY <1>8, <1>9
  <2>3. \A j \in Inums \ {i, dp} :
           disk'.inode[j].nlink = disk.inode[j].nlink /\ disk'.dir[j] = disk.dir[j]
    BY <1>7, <1>8
  <2>4. disk'.dir[dp]["."] = disk.dir[dp]["."] /\ disk.inode[i].type # "dir"
    BY <1>5, <1>9
  <2>5. QED
    BY <1>2, <1>10, <1>11, <1>12, <2>1, <2>2, <2>3, <2>4, EntryCalls
<1>16. QED
  BY <1>14, <1>15 DEF TreeInv

LEMMA LinkBadTree ==
  ASSUME Inv, TreeInv, Running, NEW p \in Procs, LinkBad(p)
  PROVE  TreeInv'
<1>1. /\ TypeOK /\ Shape /\ CacheFits /\ DiskTree /\ CallsTree /\ DiskOK(disk) /\ Reached(p)
      /\ FileLinks
  BY TypeParts DEF Inv, TreeInv, DiskTree
<1>2. /\ At(p, "bad", old[p]) /\ pc[p] = "bad" /\ cwd' = cwd /\ Leave(p, <<old[p]>>)
      /\ disk' = iupdate(disk, old[p], nlink(Load(old[p]), -1))
  BY DEF LinkBad, At, table
<1>3. old[p] \in Inums /\ Load(old[p]) = disk.inode[old[p]] /\ disk.inode[old[p]] \in Dinode
  BY <1>1, <1>2, AtOld
<1>4. PICK i \in Inums : i = old[p]
  BY <1>3
<1>5. disk.inode[i].type = "file" /\ i # 0
  BY <1>1, <1>4 DEF Reached, Inums
<1>6. RegsStay(p) /\ pc'[p] = "end" /\ cur'[p] = 0 /\ par'[p] = 0 /\ old'[p] = 0
  <2>1. <<i>> \in Seq(Inums) /\ <<i>> # <<>>
    OBVIOUS
  <2>2. QED
    BY <1>2, <1>4, <2>1, LeaveSets
<1>7. Settled(i)
  BY <1>4, <1>5, SettledAre
<1>8. /\ disk'.dir = disk.dir /\ disk'.inode[i].type = "file"
      /\ disk'.inode[i].nlink = disk.inode[i].nlink - 1
      /\ \A j \in Inums \ {i} : disk'.inode[j] = disk.inode[j]
  <2>0. disk.inode[i] \in Dinode /\ disk.inode[i].nlink \in Int
    BY <1>3, <1>4 DEF Dinode
  <2>1. /\ nlink(disk.inode[i], -1) \in Dinode /\ nlink(disk.inode[i], -1).type = "file"
        /\ nlink(disk.inode[i], -1).nlink = disk.inode[i].nlink - 1
    <3>1. -1 \in Int
      OBVIOUS
    <3>2. /\ nlink(disk.inode[i], -1) \in Dinode
          /\ nlink(disk.inode[i], -1).type = disk.inode[i].type
          /\ nlink(disk.inode[i], -1).nlink = disk.inode[i].nlink + (-1)
      BY <3>1, <2>0, NlinkDoes
    <3>3. QED
      BY <3>2, <2>0, <1>5
  <2>2. PICK ip : ip = nlink(disk.inode[i], -1)
    OBVIOUS
  <2>3. disk'.dir = disk.dir /\ disk'.inode = [disk.inode EXCEPT ![i] = ip]
    BY <1>1, <1>2, <1>3, <1>4, <2>1, <2>2, IupdateDoes
  <2>4. disk.inode \in [Inums -> Dinode]
    BY <1>1 DEF DiskOK
  <2>5. QED
    BY <2>1, <2>2, <2>3, <2>4
<1>9. TypesStay
  BY <1>5, <1>8 DEF TypesStay
<1>10. FileLinks'
  <2>1. ASSUME NEW j \in Inums, disk'.inode[j].type = "file"
        PROVE  /\ disk.inode[j].type = "file" /\ disk'.inode[j].nlink \in Int
               /\ Count(NameSet(j)) \in Nat /\ Count(NameSet(j)') \in Nat
               /\ disk'.inode[j].nlink - disk.inode[j].nlink
                  >= Count(NameSet(j)') - Count(NameSet(j)) + Same(old'[p], j) - Same(old[p], j)
    <3>1. NameSet(j)' = NameSet(j)
      BY <1>8 DEF NameSet
    <3>2. Count(NameSet(j)) \in Nat
      BY FiniteSets, FS_Subset, FS_CardinalityType DEF Count, NameSet
    <3>3. disk.inode[j].type = "file" /\ disk.inode[j].nlink \in Int /\ disk'.inode[j].nlink \in Int
      BY <2>1, <1>1, <1>8, <1>9 DEF TypesStay, DiskOK, Dinode
    <3>4. Same(old'[p], j) = 0
      BY <1>6, SameIs
    <3>5. disk'.inode[j].nlink - disk.inode[j].nlink = 0 - Same(old[p], j)
      BY <1>4, <1>8, <3>3 DEF Same
    <3>6. QED
      BY <3>1, <3>2, <3>3, <3>4, <3>5, SameIs
  <2>2. \A q \in Procs \ {p} : old'[q] = old[q]
    BY <1>6 DEF RegsStay
  <2>3. QED
    BY <1>1, <2>1, <2>2, FileLinksFrom
<1>11. DiskTree'
  BY <1>1, <1>5, <1>8, <1>9, <1>10, FileDisk
<1>12. CallsTree'
  <2>1. \A q \in Procs \ {p} : pc[q] = "new" => cur[q] # i
    BY <1>7 DEF Settled
  <2>2. \A d \in Inums, n \in Names : disk'.dir[d][n] \in {0, i, disk.dir[d][n]}
    BY <1>8
  <2>3. \A j \in Inums \ {i, i} :
           disk'.inode[j].nlink = disk.inode[j].nlink /\ disk'.dir[j] = disk.dir[j]
    BY <1>8
  <2>4. disk'.dir[i]["."] = disk.dir[i]["."] /\ disk.inode[i].type # "dir"
    BY <1>5, <1>8
  <2>5. QED
    BY <1>2, <1>6, <1>7, <1>9, <2>1, <2>2, <2>3, <2>4, EntryCalls
<1>13. QED
  BY <1>11, <1>12 DEF TreeInv

-----------------------------------------------------------------------------
(* A directory loses its name, or gets its first one. *)

LEMMA KidsFinite ==
  ASSUME NEW j
  PROVE  /\ IsFiniteSet(Kids(j)) /\ Count(Kids(j)) \in Nat
         /\ IsFiniteSet(NameSet(j)) /\ Count(NameSet(j)) \in Nat
BY FiniteSets, FS_Subset, FS_CardinalityType DEF Kids, NameSet, Count

LEMMA DirGone ==
  ASSUME Inv, DiskTree, TypesStay, NEW i \in Inums, NEW dp \in Inums, i # dp, NEW n \in Names,
         disk.inode[i].type = "dir", disk.inode[dp].type = "dir",
         disk.dir[dp][n] = i, disk'.dir[dp][n] = 0,
         \A d \in Inums, m \in Names : d # dp \/ m # n => disk'.dir[d][m] = disk.dir[d][m],
         \A d \in Inums : disk'.dir[d]["."] = disk.dir[d]["."] /\ disk'.dir[d][".."] = disk.dir[d][".."],
         disk'.inode[i].nlink = disk.inode[i].nlink - 1,
         disk'.inode[dp].nlink = disk.inode[dp].nlink - 1,
         \A j \in Inums \ {i, dp} : disk'.inode[j].nlink = disk.inode[j].nlink,
         \A q \in Procs : old'[q] \in {0, old[q]}
  PROVE  DiskTree'
<1>1. /\ NamedLive /\ FileLinks /\ DirLinks /\ RootOK /\ OneName /\ TypeOK /\ Root \in Inums
      /\ \A j \in Inums : disk'.inode[j].type = disk.inode[j].type
      /\ \A j \in Inums : disk.inode[j].nlink \in Int
  <2>1. TypeOK /\ Root \in Inums
    BY FileSysAssumption DEF Inv, Root, Inums
  <2>2. \A j \in Inums : disk.inode[j].nlink \in Int
    BY <2>1 DEF TypeOK, DiskOK, Dinode
  <2>3. QED
    BY <2>1, <2>2 DEF DiskTree, TypesStay
<1>2. Named(i) /\ i # Root /\ i # 0
  BY <1>1 DEF Named, RootOK, Inums
<1>3. disk.dir[i]["."] = i /\ disk.dir[i][".."] = dp
  BY <1>1 DEF OneName
<1>4. \A d \in Inums, m \in Names : disk.dir[d][m] = i => d = dp /\ m = n
  BY <1>1, <1>3 DEF OneName
<1>5. \A d \in Inums, m \in Names : disk'.dir[d][m] # i
  BY <1>2, <1>4
<1>6. \A j \in Inums \ {i}, d \in Inums, m \in Names : disk'.dir[d][m] = j <=> disk.dir[d][m] = j
  BY DEF Inums
<1>7. ~(Named(i)') /\ \A j \in Inums \ {i} : Named(j)' <=> Named(j)
  BY <1>5, <1>6 DEF Named
<1>8. NamedLive'
  BY <1>1, <1>7 DEF NamedLive
<1>9. FileLinks'
  <2>1. ASSUME NEW j \in Inums, disk'.inode[j].type = "file"
        PROVE  disk'.inode[j].nlink >= Count(NameSet(j)') + Count(Where(Procs, old', j))
    <3>1. j # i /\ j # dp /\ disk'.inode[j].nlink = disk.inode[j].nlink
      BY <1>1, <2>1
    <3>2. disk.inode[j].nlink >= Count(NameSet(j)) + Count(Where(Procs, old, j))
      BY <1>1, <2>1 DEF FileLinks
    <3>3. NameSet(j)' = NameSet(j)
      BY <1>6, <3>1 DEF NameSet
    <3>4. QED
      BY <1>1, <3>1, <3>2, <3>3, KidsFinite, FewerOld
  <2>2. QED
    BY <2>1 DEF FileLinks, Count, Where
<1>10. ASSUME NEW j \in Inums, j # dp
       PROVE  Kids(j)' = Kids(j)
  BY <1>1, <1>3, <1>7, <1>10 DEF Kids
<1>11. Count(Kids(dp)') = Count(Kids(dp)) - 1 /\ Count(Kids(dp)) \in Nat
  <2>1. PICK A : A = Kids(dp)
    OBVIOUS
  <2>2. PICK B : B = Kids(dp)'
    OBVIOUS
  <2>3. i \in A /\ i \notin B /\ A \ {i} = B \ {i}
    BY <2>1, <2>2, <1>1, <1>2, <1>3, <1>7 DEF Kids
  <2>4. IsFiniteSet(A)
    BY <2>1, KidsFinite
  <2>5. Count(A) \in Nat /\ Count(B) \in Nat /\ Count(B) = Count(A) - Has(A, i) + Has(B, i)
    BY <2>3, <2>4, CountAt
  <2>6. Count(B) = Count(A) - 1
    BY <2>3, <2>5 DEF Has
  <2>7. QED
    BY <2>1, <2>2, <2>5, <2>6
<1>12. DirLinks'
  <2>1. ASSUME NEW j \in Inums, disk'.inode[j].type = "dir"
        PROVE  disk'.inode[j].nlink = One(Named(j)') + One(j = Root) + Count(Kids(j)')
    <3>1. disk.inode[j].nlink = One(Named(j)) + One(j = Root) + Count(Kids(j))
      BY <1>1, <2>1 DEF DirLinks
    <3>2. CASE j = i
      BY <3>1, <3>2, <1>1, <1>2, <1>7, <1>10, KidsFinite DEF One
    <3>3. CASE j = dp
      <4>1. Named(dp)' <=> Named(dp)
        BY <1>7
      <4>2. One(Named(dp)') = One(Named(dp)) /\ One(Named(dp)) \in Nat /\ One(dp = Root) \in Nat
        BY <4>1 DEF One
      <4>3. PICK a \in Int, b \in Int, c \in Int :
              a = One(Named(dp)) /\ b = One(dp = Root) /\ c = Count(Kids(dp))
        BY <4>2, <1>11
      <4>4. QED
        BY <3>1, <3>3, <4>2, <4>3, <1>11
    <3>4. CASE j # i /\ j # dp
      BY <3>1, <3>4, <1>7, <1>10 DEF One
    <3>5. QED
      BY <3>2, <3>3, <3>4
  <2>2. QED
    BY <2>1 DEF DirLinks, Count, One
<1>13. RootOK'
  BY <1>1, <1>2, <1>7 DEF RootOK
<1>14. OneName'
  <2>1. ASSUME NEW j \in Inums, NEW d \in Inums, NEW m \in Names,
               disk'.dir[d][m] = j, disk'.inode[j].type = "dir"
        PROVE  /\ disk'.dir[j]["."] = j /\ disk'.dir[j][".."] = d
               /\ \A k \in Names : disk'.dir[d][k] = j => k = m
    <3>1. j # i /\ disk.dir[d][m] = j /\ disk.inode[j].type = "dir"
      BY <1>1, <1>5, <1>6, <2>1
    <3>2. QED
      BY <1>1, <1>6, <2>1, <3>1 DEF OneName
  <2>2. QED
    BY <2>1 DEF OneName
<1>15. QED
  BY <1>8, <1>9, <1>12, <1>13, <1>14 DEF DiskTree

LEMMA DirEnters ==
  ASSUME Inv, DiskTree, TypesStay, NEW i \in Inums, NEW dp \in Inums, i # dp, NEW n \in Names,
         disk.inode[i].type = "dir", disk.inode[dp].type = "dir", disk.inode[i].nlink = 0,
         disk.dir[dp][n] = 0, disk'.dir[dp][n] = i,
         \A d \in Inums, m \in Names : d # dp \/ m # n => disk'.dir[d][m] = disk.dir[d][m],
         \A d \in Inums \ {i} :
           disk'.dir[d]["."] = disk.dir[d]["."] /\ disk'.dir[d][".."] = disk.dir[d][".."],
         disk'.dir[i]["."] = i, disk'.dir[i][".."] = dp,
         disk'.inode[i].nlink = 1, disk'.inode[dp].nlink = disk.inode[dp].nlink + 1,
         \A j \in Inums \ {i, dp} : disk'.inode[j].nlink = disk.inode[j].nlink,
         \A q \in Procs : old'[q] \in {0, old[q]}
  PROVE  DiskTree'
<1>1. /\ NamedLive /\ FileLinks /\ DirLinks /\ RootOK /\ OneName /\ TypeOK /\ Root \in Inums
      /\ \A j \in Inums : disk'.inode[j].type = disk.inode[j].type
      /\ \A j \in Inums : disk.inode[j].nlink \in Int
  <2>1. TypeOK /\ Root \in Inums
    BY FileSysAssumption DEF Inv, Root, Inums
  <2>2. \A j \in Inums : disk.inode[j].nlink \in Int
    BY <2>1 DEF TypeOK, DiskOK, Dinode
  <2>3. QED
    BY <2>1, <2>2 DEF DiskTree, TypesStay
<1>2. i # Root /\ ~Named(i) /\ Kids(i) = {} /\ i # 0
  BY Unlinked DEF Inums
<1>3. \A d \in Inums, m \in Names : disk'.dir[d][m] = i => d = dp /\ m = n
  BY <1>2 DEF Named
<1>4. \A j \in Inums \ {i}, d \in Inums, m \in Names : disk'.dir[d][m] = j <=> disk.dir[d][m] = j
  BY DEF Inums
<1>5. Named(i)' /\ \A j \in Inums \ {i} : Named(j)' <=> Named(j)
  BY <1>4 DEF Named
<1>6. NamedLive'
  BY <1>1, <1>5 DEF NamedLive
<1>7. FileLinks'
  <2>1. ASSUME NEW j \in Inums, disk'.inode[j].type = "file"
        PROVE  disk'.inode[j].nlink >= Count(NameSet(j)') + Count(Where(Procs, old', j))
    <3>1. j # i /\ j # dp /\ disk'.inode[j].nlink = disk.inode[j].nlink
      BY <1>1, <2>1
    <3>2. disk.inode[j].nlink >= Count(NameSet(j)) + Count(Where(Procs, old, j))
      BY <1>1, <2>1 DEF FileLinks
    <3>3. NameSet(j)' = NameSet(j)
      BY <1>4, <3>1 DEF NameSet
    <3>4. QED
      BY <1>1, <3>1, <3>2, <3>3, KidsFinite, FewerOld
  <2>2. QED
    BY <2>1 DEF FileLinks, Count, Where
<1>8. ASSUME NEW j \in Inums, j # dp
      PROVE  Kids(j)' = Kids(j)
  <2>1. i \notin Kids(j) /\ i \notin Kids(j)'
    BY <1>2, <1>8 DEF Kids
  <2>2. ASSUME NEW k \in Inums \ {i}
        PROVE  k \in Kids(j)' <=> k \in Kids(j)
    BY <1>1, <1>5 DEF Kids
  <2>3. Kids(j) \subseteq Inums /\ Kids(j)' \subseteq Inums
    BY DEF Kids
  <2>4. PICK A, B : A = Kids(j) /\ B = Kids(j)'
    OBVIOUS
  <2>5. A \subseteq Inums /\ B \subseteq Inums /\ \A k \in Inums : k \in B <=> k \in A
    BY <2>1, <2>2, <2>3, <2>4
  <2>6. A = B
    BY ONLY <2>5
  <2>7. QED
    BY <2>4, <2>6
<1>9. Count(Kids(dp)') = Count(Kids(dp)) + 1 /\ Count(Kids(dp)) \in Nat
  <2>1. PICK A : A = Kids(dp)
    OBVIOUS
  <2>2. PICK B : B = Kids(dp)'
    OBVIOUS
  <2>3. i \notin A /\ i \in B /\ A \ {i} = B \ {i}
    BY <2>1, <2>2, <1>1, <1>2, <1>5 DEF Kids
  <2>4. IsFiniteSet(A)
    BY <2>1, KidsFinite
  <2>5. Count(A) \in Nat /\ Count(B) \in Nat /\ Count(B) = Count(A) - Has(A, i) + Has(B, i)
    BY <2>3, <2>4, CountAt
  <2>6. Count(B) = Count(A) + 1
    BY <2>3, <2>5 DEF Has
  <2>7. QED
    BY <2>1, <2>2, <2>5, <2>6
<1>10. DirLinks'
  <2>1. ASSUME NEW j \in Inums, disk'.inode[j].type = "dir"
        PROVE  disk'.inode[j].nlink = One(Named(j)') + One(j = Root) + Count(Kids(j)')
    <3>1. disk.inode[j].nlink = One(Named(j)) + One(j = Root) + Count(Kids(j))
      BY <1>1, <2>1 DEF DirLinks
    <3>2. CASE j = i
      <4>1. Count(Kids(i)') = 0
        BY <1>2, <1>8, NoneCounted
      <4>2. QED
        BY <3>2, <4>1, <1>2, <1>5 DEF One
    <3>3. CASE j = dp
      <4>1. Named(dp)' <=> Named(dp)
        BY <1>5
      <4>2. One(Named(dp)') = One(Named(dp)) /\ One(Named(dp)) \in Nat /\ One(dp = Root) \in Nat
        BY <4>1 DEF One
      <4>3. PICK a \in Int, b \in Int, c \in Int :
              a = One(Named(dp)) /\ b = One(dp = Root) /\ c = Count(Kids(dp))
        BY <4>2, <1>9
      <4>4. QED
        BY <3>1, <3>3, <4>2, <4>3, <1>9
    <3>4. CASE j # i /\ j # dp
      BY <3>1, <3>4, <1>5, <1>8 DEF One
    <3>5. QED
      BY <3>2, <3>3, <3>4
  <2>2. QED
    BY <2>1 DEF DirLinks, Count, One
<1>11. RootOK'
  BY <1>1, <1>2, <1>5 DEF RootOK
<1>12. OneName'
  <2>1. ASSUME NEW j \in Inums, NEW d \in Inums, NEW m \in Names,
               disk'.dir[d][m] = j, disk'.inode[j].type = "dir"
        PROVE  /\ disk'.dir[j]["."] = j /\ disk'.dir[j][".."] = d
               /\ \A k \in Names : disk'.dir[d][k] = j => k = m
    <3>1. CASE j = i
      BY <1>3, <2>1, <3>1
    <3>2. CASE j # i
      <4>1. disk.dir[d][m] = j /\ disk.inode[j].type = "dir"
        BY <1>1, <1>4, <2>1, <3>2
      <4>2. QED
        BY <1>1, <1>4, <2>1, <3>2, <4>1 DEF OneName
    <3>3. QED
      BY <3>1, <3>2
  <2>2. QED
    BY <2>1 DEF OneName
<1>13. QED
  BY <1>6, <1>7, <1>10, <1>11, <1>12 DEF DiskTree

-----------------------------------------------------------------------------
(* unlink(). *)

\* The directory loses a link with a directory, and none with a file.
LEMMA UnlinkParent ==
  ASSUME DiskOK(disk), NEW i \in Inums, NEW dp \in Inums, i # dp, NEW n \in Names,
         IF disk.inode[i].type = "dir"
         THEN disk' = iupdate(dirlink(iupdate(disk, i, nlink(disk.inode[i], -1)), dp, n, 0),
                              dp, nlink(disk.inode[dp], -1))
         ELSE disk' = dirlink(iupdate(disk, i, nlink(disk.inode[i], -1)), dp, n, 0)
  PROVE  disk'.inode[dp].nlink = IF disk.inode[i].type = "dir" THEN disk.inode[dp].nlink - 1
                                                               ELSE disk.inode[dp].nlink
<1>1. disk.inode[i] \in Dinode /\ disk.inode[dp] \in Dinode /\ disk.inode \in [Inums -> Dinode]
      /\ disk.inode[dp].nlink \in Int /\ -1 \in Int
  BY DEF DiskOK, Dinode
<1>2. PICK ip \in Dinode : ip = nlink(disk.inode[i], -1)
  BY <1>1, NlinkDoes
<1>3. PICK kp \in Dinode : kp = nlink(disk.inode[dp], -1) /\ kp.nlink = disk.inode[dp].nlink - 1
  <2>1. /\ nlink(disk.inode[dp], -1) \in Dinode
        /\ nlink(disk.inode[dp], -1).nlink = disk.inode[dp].nlink + (-1)
    BY <1>1, NlinkDoes
  <2>2. QED
    BY <2>1, <1>1
<1>4. PICK c : c = iupdate(disk, i, ip)
  OBVIOUS
<1>5. DiskOK(c) /\ c.inode = [disk.inode EXCEPT ![i] = ip]
  BY <1>4, IupdateDoes
<1>6. PICK d : d = dirlink(c, dp, n, 0)
  OBVIOUS
<1>7. /\ DiskOK(d) /\ d.inode = c.inode /\ d.used = c.used
      /\ d.dir = [c.dir EXCEPT ![dp] = [c.dir[dp] EXCEPT ![n] = 0]]
  <2>1. n \in Entries /\ 0 \in {0} \cup Inums /\ dp \in Inums
    BY DEF Entries
  <2>2. QED
    BY ONLY <2>1, <1>5, <1>6, DirlinkDoes
<1>8. d.inode \in [Inums -> Dinode] /\ d.inode[dp] = disk.inode[dp]
  BY <1>1, <1>5, <1>7
<1>9. CASE disk.inode[i].type = "dir"
  <2>1. disk' = iupdate(d, dp, kp)
    BY <1>2, <1>3, <1>4, <1>6, <1>9
  <2>2. disk'.inode = [d.inode EXCEPT ![dp] = kp]
    BY <2>1, <1>7, IupdateDoes
  <2>3. QED
    BY <2>2, <1>3, <1>8, <1>9
<1>10. CASE disk.inode[i].type # "dir"
  BY <1>2, <1>4, <1>6, <1>8, <1>10
<1>11. QED
  BY <1>9, <1>10

LEMMA UnlinkTree ==
  ASSUME Inv, TreeInv, Running, NEW p \in Procs, Unlink(p)
  PROVE  TreeInv'
<1>1. /\ TypeOK /\ Shape /\ CacheFits /\ LocksHeld /\ DiskTree /\ CallsTree /\ DiskOK(disk)
      /\ Reached(p) /\ FileLinks
  BY TypeParts DEF Inv, TreeInv, DiskTree
<1>2. /\ At(p, "child", cur[p]) /\ pc[p] = "child" /\ cwd' = cwd
      /\ Leave(p, <<par[p], cur[p]>>) /\ Load(cur[p]).type # "free"
  BY DEF Unlink, At, table
<1>3. cur[p] \in Inums /\ Load(cur[p]) = disk.inode[cur[p]]
  BY <1>1, <1>2, AtCur
<1>4. /\ par[p] \in Inums /\ old[p] = 0 /\ par[p] # cur[p]
      /\ Load(par[p]) = disk.inode[par[p]] /\ disk.inode[par[p]].type = "dir"
  BY <1>1, <1>2, AtPar
<1>5. PICK i \in Inums, dp \in Inums : i = cur[p] /\ dp = par[p]
  BY <1>3, <1>4
<1>6. PICK n \in Names :
        /\ disk.dir[dp][n] = i
        /\ IF disk.inode[i].type = "dir"
           THEN disk' = iupdate(dirlink(iupdate(disk, i, nlink(disk.inode[i], -1)), dp, n, 0),
                                dp, nlink(disk.inode[dp], -1))
           ELSE disk' = dirlink(iupdate(disk, i, nlink(disk.inode[i], -1)), dp, n, 0)
  BY <1>3, <1>4, <1>5 DEF Unlink
<1>7. /\ \A j \in Inums \ {dp} : disk'.dir[j] = disk.dir[j]
      /\ disk'.dir[dp] = [disk.dir[dp] EXCEPT ![n] = 0]
      /\ \A j \in Inums \ {i, dp} : disk'.inode[j] = disk.inode[j]
      /\ disk'.inode[i] = nlink(disk.inode[i], -1)
      /\ \A j \in {i, dp} : disk'.inode[j].type = disk.inode[j].type
  <2>1. DiskOK(disk) /\ i \in Inums /\ dp \in Inums /\ i # dp /\ n \in Names
    BY <1>1, <1>4, <1>5
  <2>2. \/ disk' = dirlink(iupdate(disk, i, nlink(disk.inode[i], -1)), dp, n, 0)
        \/ disk' = iupdate(dirlink(iupdate(disk, i, nlink(disk.inode[i], -1)), dp, n, 0),
                           dp, nlink(disk.inode[dp], -1))
    BY <1>6
  <2>3. QED
    BY ONLY <2>1, <2>2, UnlinkWrites
<1>8. disk'.inode[i].nlink = disk.inode[i].nlink - 1
  <2>1. disk.inode[i] \in Dinode /\ disk.inode[i].nlink \in Int /\ -1 \in Int
    BY <1>1 DEF DiskOK, Dinode
  <2>2. disk'.inode[i].nlink = disk.inode[i].nlink + (-1)
    BY <2>1, <1>7, NlinkDoes
  <2>3. QED
    BY <2>1, <2>2
<1>9. disk'.inode[dp].nlink = IF disk.inode[i].type = "dir" THEN disk.inode[dp].nlink - 1
                                                            ELSE disk.inode[dp].nlink
  <2>1. DiskOK(disk) /\ i \in Inums /\ dp \in Inums /\ i # dp /\ n \in Names
    BY <1>1, <1>4, <1>5
  <2>2. QED
    BY ONLY <2>1, <1>6, UnlinkParent
<1>10. /\ disk'.dir[dp][n] = 0
       /\ \A d \in Inums, m \in Names : d # dp \/ m # n => disk'.dir[d][m] = disk.dir[d][m]
       /\ \A d \in Inums : disk'.dir[d]["."] = disk.dir[d]["."] /\ disk'.dir[d][".."] = disk.dir[d][".."]
  <2>1. disk.dir[dp] \in [Entries -> {0} \cup Inums] /\ n \in Entries
    BY <1>1 DEF DiskOK, Entries
  <2>2. disk'.dir[dp][n] = 0 /\ \A e \in Entries \ {n} : disk'.dir[dp][e] = disk.dir[dp][e]
    BY ONLY <2>1, <1>7
  <2>3. \A e \in {".", ".."} : e \in Entries \ {n}
    BY FileSysAssumption DEF Entries
  <2>4. QED
    BY <1>7, <2>2, <2>3 DEF Entries
<1>11. RegsStay(p) /\ pc'[p] = "end" /\ cur'[p] = 0 /\ par'[p] = 0 /\ old'[p] = 0
  <2>1. <<dp, i>> \in Seq(Inums) /\ <<dp, i>> # <<>>
    OBVIOUS
  <2>2. QED
    BY <1>2, <1>5, <2>1, LeaveSets
<1>12. TypesStay
  BY <1>7 DEF TypesStay
<1>13. Settled(i) /\ Settled(dp) /\ i # dp /\ dp # 0 /\ Named(i)
  <2>1. Named(i) /\ i # dp /\ dp # 0
    BY <1>4, <1>5, <1>6 DEF Named, Inums
  <2>2. QED
    BY <2>1, <1>5, SettledAre
<1>14. \A q \in Procs : old'[q] = old[q]
  BY <1>4, <1>11 DEF RegsStay
<1>15. CASE disk.inode[i].type = "dir"
  <2>1. DiskTree'
    <3>1. /\ disk.inode[dp].type = "dir" /\ disk'.inode[dp].nlink = disk.inode[dp].nlink - 1
          /\ Inv /\ DiskTree /\ i \in Inums /\ dp \in Inums /\ n \in Names
      BY <1>1, <1>4, <1>5, <1>9, <1>15
    <3>2. /\ \A j \in Inums \ {i, dp} : disk'.inode[j].nlink = disk.inode[j].nlink
          /\ \A q \in Procs : old'[q] \in {0, old[q]}
      BY <1>7, <1>14
    <3>3. QED
      BY ONLY <3>1, <3>2, <1>6, <1>8, <1>10, <1>12, <1>13, <1>15, DirGone
  <2>2. disk.dir[i]["."] = i
    BY <1>1, <1>13, <1>15 DEF CallsTree, Dots
  <2>3. CallsTree'
    <3>1. \A q \in Procs \ {p} : pc[q] = "new" => cur[q] # i
      BY <1>13 DEF Settled
    <3>2. \A d \in Inums, m \in Names : disk'.dir[d][m] \in {0, i, disk.dir[d][m]}
      BY <1>10
    <3>3. \A j \in Inums \ {i, dp} :
             disk'.inode[j].nlink = disk.inode[j].nlink /\ disk'.dir[j] = disk.dir[j]
      BY <1>7
    <3>4. disk'.dir[dp]["."] = disk.dir[dp]["."] /\ disk'.dir[i]["."] = i
      BY <1>10, <2>2
    <3>5. QED
      BY <1>2, <1>11, <1>12, <1>13, <3>1, <3>2, <3>3, <3>4, EntryCalls
  <2>4. QED
    BY <2>1, <2>3 DEF TreeInv
<1>16. CASE disk.inode[i].type # "dir"
  <2>1. disk.inode[i].type = "file"
    BY <1>2, <1>3, <1>5, <1>16, <1>1 DEF DiskOK, Dinode
  <2>2. FileLinks'
    <3>1. ASSUME NEW j \in Inums, disk'.inode[j].type = "file"
          PROVE  /\ disk.inode[j].type = "file" /\ disk'.inode[j].nlink \in Int
                 /\ Count(NameSet(j)) \in Nat /\ Count(NameSet(j)') \in Nat
                 /\ disk'.inode[j].nlink - disk.inode[j].nlink
                    >= Count(NameSet(j)') - Count(NameSet(j)) + Same(old'[p], j) - Same(old[p], j)
      <4>1. /\ Count(NameSet(j)) \in Nat /\ Count(NameSet(j)') \in Nat
            /\ Count(NameSet(j)') = Count(NameSet(j)) - Same(disk.dir[dp][n], j)
                                    + Same(disk'.dir[dp][n], j)
        BY <1>10, NamesMove
      <4>2. /\ Same(disk'.dir[dp][n], j) = 0 /\ Same(old'[p], j) = 0 /\ Same(old[p], j) = 0
            /\ Same(disk.dir[dp][n], j) = Same(i, j) /\ Same(i, j) \in Int
        BY <1>4, <1>6, <1>10, <1>11 DEF Same, Inums
      <4>3. disk.inode[j].type = "file" /\ disk.inode[j].nlink \in Int
        BY <3>1, <1>1, <1>12 DEF TypesStay, DiskOK, Dinode
      <4>4. disk'.inode[j].nlink = disk.inode[j].nlink - Same(i, j)
        BY <4>3, <1>7, <1>8, <1>9, <1>16 DEF Same
      <4>5. PICK a \in Int, b \in Int, s \in Int, k \in Int, l \in Int :
              /\ a = Count(NameSet(j)) /\ b = Count(NameSet(j)') /\ s = Same(i, j)
              /\ k = disk.inode[j].nlink /\ l = disk'.inode[j].nlink
        BY <4>1, <4>2, <4>3, <4>4
      <4>6. b = a - s /\ l = k - s
        BY <4>1, <4>2, <4>4, <4>5
      <4>7. l - k >= b - a + 0 - 0
        BY <4>6
      <4>8. QED
        BY <4>1, <4>2, <4>3, <4>5, <4>7
    <3>2. \A q \in Procs \ {p} : old'[q] = old[q]
      BY <1>14
    <3>3. QED
      BY <1>1, <3>1, <3>2, FileLinksFrom
  <2>3. DiskTree'
    <3>1. \A d \in Inums, m \in Names : \/ disk'.dir[d][m] = disk.dir[d][m]
                                        \/ disk.dir[d][m] \in {0, i} /\ disk'.dir[d][m] \in {0, i}
      BY <1>6, <1>10
    <3>2. \A j \in Inums \ {i} : disk'.inode[j].nlink = disk.inode[j].nlink
      BY <1>7, <1>9, <1>16
    <3>3. QED
      BY <1>1, <1>10, <1>12, <2>1, <2>2, <3>1, <3>2, FileDisk
  <2>4. CallsTree'
    <3>1. \A q \in Procs \ {p} : pc[q] = "new" => cur[q] # i
      BY <1>13 DEF Settled
    <3>2. \A d \in Inums, m \in Names : disk'.dir[d][m] \in {0, i, disk.dir[d][m]}
      BY <1>10
    <3>3. \A j \in Inums \ {i, dp} :
             disk'.inode[j].nlink = disk.inode[j].nlink /\ disk'.dir[j] = disk.dir[j]
      BY <1>7
    <3>4. disk'.dir[dp]["."] = disk.dir[dp]["."]
      BY <1>10
    <3>5. QED
      BY <1>2, <1>11, <1>12, <1>13, <1>16, <3>1, <3>2, <3>3, <3>4, EntryCalls
  <2>5. QED
    BY <2>3, <2>4 DEF TreeInv
<1>17. QED
  BY <1>15, <1>16

-----------------------------------------------------------------------------
(* create() enters the name of its new inode. *)

LEMMA FileCreated ==
  ASSUME TypeOK, BlocksOwned(disk), NEW p \in Procs, NEW i \in Inums, NEW dp \in Inums,
         cur[p] = i, par[p] = dp, i # dp, Load(i) = disk.inode[i],
         disk.inode[i].type = "file", disk.dir[i] = NoEntries, NEW n \in Names,
         disk' \in {Created(p, n)}
                   \cup {itrunc(Created(p, n), j) :
                           j \in {j \in {i} : Created(p, n).inode[j].type = "file"}}
  PROVE  /\ disk'.inode[i].nlink = 1 /\ TypesStay
         /\ \A j \in Inums \ {i} : disk'.inode[j] = disk.inode[j]
         /\ disk'.dir[dp] = [disk.dir[dp] EXCEPT ![n] = i]
         /\ \A j \in Inums \ {dp} : disk'.dir[j] = disk.dir[j]
<1>1. PICK d : d = Created(p, n)
  OBVIOUS
<1>2. /\ DiskOK(d) /\ d.used = disk.used
      /\ d.inode = [disk.inode EXCEPT ![i] = [@ EXCEPT !.nlink = 1]]
      /\ d.dir = [disk.dir EXCEPT ![dp] = [@ EXCEPT ![n] = i]]
  BY <1>1, CreatedFile
<1>3. /\ disk.inode \in [Inums -> Dinode] /\ disk.dir \in [Inums -> [Entries -> {0} \cup Inums]]
      /\ disk.inode[i] \in Dinode
  BY DEF TypeOK, DiskOK
<1>4. /\ d.inode[i] = [disk.inode[i] EXCEPT !.nlink = 1]
      /\ \A j \in Inums \ {i} : d.inode[j] = disk.inode[j]
      /\ d.dir[dp] = [disk.dir[dp] EXCEPT ![n] = i]
      /\ \A j \in Inums \ {dp} : d.dir[j] = disk.dir[j]
  BY <1>2, <1>3
<1>5. /\ d.inode[i].type = disk.inode[i].type /\ d.inode[i].blk = disk.inode[i].blk
      /\ d.inode[i].nlink = 1
  BY <1>3, <1>4 DEF Dinode
<1>6. BlocksOwned(d)
  BY <1>2, <1>4, <1>5, OwnedSame
<1>7. disk' \in {d} \cup {itrunc(d, j) : j \in {j \in {i} : d.inode[j].type = "file"}}
  BY <1>1
<1>8. /\ \A j \in Inums : /\ disk'.inode[j].type = d.inode[j].type
                          /\ disk'.inode[j].nlink = d.inode[j].nlink
      /\ \A j \in Inums \ {i} : disk'.inode[j] = d.inode[j] /\ disk'.dir[j] = d.dir[j]
      /\ \/ disk'.dir[i] = d.dir[i]
         \/ d.inode[i].type = "file" /\ disk'.dir[i] = NoEntries
  <2>1. DiskOK(d) /\ BlocksOwned(d) /\ i \in Inums
    BY <1>2, <1>6
  <2>2. QED
    BY ONLY <2>1, <1>7, TruncOrNot
<1>9. disk'.dir[i] = disk.dir[i]
  BY <1>4, <1>8
<1>10. TypesStay
  BY <1>4, <1>5, <1>8 DEF TypesStay
<1>11. disk'.inode[i].nlink = 1 /\ \A j \in Inums \ {i} : disk'.inode[j] = disk.inode[j]
  BY <1>4, <1>5, <1>8
<1>12. /\ disk'.dir[dp] = [disk.dir[dp] EXCEPT ![n] = i]
       /\ \A j \in Inums \ {dp} : disk'.dir[j] = disk.dir[j]
  <2>1. dp \in Inums \ {i}
    OBVIOUS
  <2>2. \A j \in Inums \ {i, dp} : disk'.dir[j] = disk.dir[j]
    BY <1>4, <1>8
  <2>3. disk'.dir[dp] = d.dir[dp]
    BY <2>1, <1>8
  <2>4. QED
    BY <2>2, <2>3, <1>4, <1>9
<1>13. QED
  BY <1>10, <1>11, <1>12

LEMMA CreateLinksTree ==
  ASSUME Inv, TreeInv, Running, NEW p \in Procs, CreateLinks(p)
  PROVE  TreeInv'
<1>1. /\ TypeOK /\ Shape /\ CacheFits /\ LocksHeld /\ DiskTree /\ CallsTree /\ DiskOK(disk)
      /\ Reached(p) /\ FileLinks /\ BlocksKept /\ BlocksOwned(disk) /\ OnlyDirs
  BY TypeParts DEF Inv, TreeInv, DiskTree, BlocksKept
<1>2. At(p, "new", cur[p]) /\ pc[p] = "new" /\ cwd' = cwd
  BY DEF CreateLinks, At
<1>3. cur[p] \in Inums /\ Load(cur[p]) = disk.inode[cur[p]]
  BY <1>1, <1>2, AtCur
<1>4. /\ par[p] \in Inums /\ old[p] = 0 /\ par[p] # cur[p]
      /\ Load(par[p]) = disk.inode[par[p]] /\ disk.inode[par[p]].type = "dir"
  BY <1>1, <1>2, AtPar
<1>5. PICK i \in Inums, dp \in Inums : i = cur[p] /\ dp = par[p]
  BY <1>3, <1>4
<1>6. PICK n \in Names :
        /\ disk.dir[dp][n] = 0
        /\ \/ disk.inode[i].type = "file" /\ Opens(p, i, Created(p, n), <<dp>>)
           \/ disk' = Created(p, n) /\ Leave(p, <<dp, i>>)
  BY <1>3, <1>5 DEF CreateLinks
<1>7. /\ i # dp /\ dp # 0 /\ i # 0 /\ ~Named(i) /\ disk.inode[i].nlink = 0 /\ disk.dir[i] = NoEntries
      /\ Load(i) = disk.inode[i] /\ Load(dp) = disk.inode[dp] /\ disk.inode[dp].type = "dir"
      /\ \/ disk.inode[i].type = "file"
         \/ disk.inode[i].type = "dir" /\ disk.inode[i].blk = 0 /\ Blocks \ disk.used # {}
  <2>1. ~Named(i) /\ disk.inode[i].nlink = 0 /\ disk.dir[i] = NoEntries
    BY <1>1, <1>2, <1>5 DEF CallsTree, NewAlone
  <2>2. disk.inode[i].type = "dir" => disk.inode[i].blk = 0
    BY <1>1, <1>2, <1>5 DEF BlocksKept
  <2>3. \/ disk.inode[i].type = "file"
        \/ disk.inode[i].type = "dir" /\ Blocks \ disk.used # {}
    BY <1>3, <1>5 DEF CreateLinks
  <2>4. QED
    BY <2>1, <2>2, <2>3, <1>3, <1>4, <1>5 DEF Inums
<1>8. RegsStay(p) /\ pc'[p] = "end" /\ cur'[p] = 0 /\ par'[p] = 0 /\ old'[p] = 0
  <2>1. /\ <<dp, i>> \in Seq(Inums) /\ <<dp, i>> # <<>>
        /\ <<dp>> \in Seq(Inums) /\ <<dp>> # <<>>
    OBVIOUS
  <2>2. CASE Leave(p, <<dp>>)
    BY <2>1, <2>2, LeaveSets
  <2>3. CASE Leave(p, <<dp, i>>)
    BY <2>1, <2>3, LeaveSets
  <2>4. QED
    BY <1>6, <2>2, <2>3 DEF Opens
<1>9. Settled(dp) /\ \A q \in Procs \ {p} : pc[q] = "new" => cur[q] # i
  <2>1. Settled(dp)
    BY <1>5, <1>7, SettledAre
  <2>2. \A q \in Procs : pc[q] = "new" /\ cur[q] = cur[p] => q = p
    BY <1>1, <1>2 DEF BlocksKept
  <2>3. QED
    BY <2>1, <2>2, <1>5
<1>10. \A q \in Procs : old'[q] = old[q]
  BY <1>4, <1>8 DEF RegsStay
<1>11. \A e \in {".", ".."} : e \in Entries \ {n}
  BY FileSysAssumption DEF Entries
<1>12. disk.dir \in [Inums -> [Entries -> {0} \cup Inums]] /\ n \in Entries
  BY <1>1 DEF DiskOK, Entries
<1>13. CASE disk.inode[i].type = "dir"
  <2>1. /\ disk'.inode[i].type = disk.inode[i].type /\ disk'.inode[i].nlink = 1
        /\ disk'.inode[dp] = nlink(disk.inode[dp], 1)
        /\ disk'.dir[dp] = [disk.dir[dp] EXCEPT ![n] = i]
        /\ disk'.dir[i] = [disk.dir[i] EXCEPT !["."] = i, ![".."] = dp]
        /\ \A j \in Inums \ {i, dp} : disk'.inode[j] = disk.inode[j] /\ disk'.dir[j] = disk.dir[j]
    <3>1. /\ TypeOK /\ p \in Procs /\ i \in Inums /\ dp \in Inums /\ cur[p] = i /\ par[p] = dp
          /\ i # dp /\ Load(i) = disk.inode[i] /\ Load(dp) = disk.inode[dp]
          /\ disk.inode[i].type = "dir" /\ Blocks \ disk.used # {} /\ n \in Names
          /\ disk' = Created(p, n)
      BY <1>1, <1>5, <1>6, <1>7, <1>13
    <3>2. QED
      BY ONLY <3>1, CreatedDir
  <2>2. disk'.inode[dp].nlink = disk.inode[dp].nlink + 1 /\ disk'.inode[dp].type = disk.inode[dp].type
    <3>1. disk.inode[dp] \in Dinode /\ 1 \in Int
      BY <1>1 DEF DiskOK
    <3>2. QED
      BY <3>1, <2>1, NlinkDoes
  <2>3. TypesStay
    BY <2>1, <2>2 DEF TypesStay
  <2>4. /\ disk'.dir[dp][n] = i /\ disk'.dir[i]["."] = i /\ disk'.dir[i][".."] = dp
        /\ \A e \in Entries \ {n} : disk'.dir[dp][e] = disk.dir[dp][e]
        /\ \A e \in Entries \ {".", ".."} : disk'.dir[i][e] = disk.dir[i][e]
    <3>1. "." \in Entries /\ ".." \in Entries /\ "." # ".."
      BY DEF Entries
    <3>2. i \in Inums /\ dp \in Inums
      OBVIOUS
    <3>3. QED
      BY ONLY <3>1, <3>2, <2>1, <1>12
  <2>5. /\ \A d \in Inums, m \in Names : d # dp \/ m # n => disk'.dir[d][m] = disk.dir[d][m]
        /\ \A d \in Inums \ {i} :
             disk'.dir[d]["."] = disk.dir[d]["."] /\ disk'.dir[d][".."] = disk.dir[d][".."]
    <3>1. \A m \in Names : m \in Entries \ {".", ".."}
      BY FileSysAssumption DEF Entries
    <3>2. ASSUME NEW d \in Inums, NEW m \in Names, d # dp \/ m # n
          PROVE  disk'.dir[d][m] = disk.dir[d][m]
      <4>1. CASE d = dp
        BY <3>2, <4>1, <2>4 DEF Entries
      <4>2. CASE d = i
        BY <3>1, <4>2, <2>4
      <4>3. CASE d # dp /\ d # i
        BY <4>3, <2>1
      <4>4. QED
        BY <4>1, <4>2, <4>3
    <3>3. ASSUME NEW d \in Inums \ {i}, NEW e \in {".", ".."}
          PROVE  disk'.dir[d][e] = disk.dir[d][e]
      <4>1. CASE d = dp
        BY <3>3, <4>1, <2>4, <1>11
      <4>2. CASE d # dp
        BY <4>2, <2>1
      <4>3. QED
        BY <4>1, <4>2
    <3>4. QED
      BY <3>2, <3>3
  <2>6. DiskTree'
    <3>1. /\ Inv /\ DiskTree /\ i \in Inums /\ dp \in Inums /\ n \in Names
          /\ disk.dir[dp][n] = 0 /\ disk.inode[dp].type = "dir"
      BY <1>1, <1>6, <1>7
    <3>2. /\ \A j \in Inums \ {i, dp} : disk'.inode[j].nlink = disk.inode[j].nlink
          /\ \A q \in Procs : old'[q] \in {0, old[q]}
      BY <2>1, <1>10
    <3>3. /\ i # dp /\ disk.inode[i].nlink = 0 /\ disk'.inode[i].nlink = 1
          /\ disk'.inode[dp].nlink = disk.inode[dp].nlink + 1
      BY <1>7, <2>1, <2>2
    <3>4. QED
      BY ONLY <3>1, <3>2, <3>3, <1>13, <2>3, <2>4, <2>5, DirEnters
  <2>7. CallsTree'
    <3>1. \A d \in Inums, m \in Names : disk'.dir[d][m] \in {0, i, disk.dir[d][m]}
      BY <2>4, <2>5
    <3>2. \A j \in Inums \ {i, dp} :
             disk'.inode[j].nlink = disk.inode[j].nlink /\ disk'.dir[j] = disk.dir[j]
      BY <2>1
    <3>3. disk'.dir[dp]["."] = disk.dir[dp]["."]
      BY <2>5, <1>7
    <3>4. pc[p] = "new" => cur[p] = i
      BY <1>5
    <3>5. QED
      BY <1>2, <1>8, <1>9, <2>3, <2>4, <3>1, <3>2, <3>3, <3>4, EntryCalls
  <2>8. QED
    BY <2>6, <2>7 DEF TreeInv
<1>14. CASE disk.inode[i].type = "file"
  <2>1. /\ disk'.inode[i].nlink = 1 /\ TypesStay
        /\ \A j \in Inums \ {i} : disk'.inode[j] = disk.inode[j]
        /\ disk'.dir[dp] = [disk.dir[dp] EXCEPT ![n] = i]
        /\ \A j \in Inums \ {dp} : disk'.dir[j] = disk.dir[j]
    <3>1. disk' \in {Created(p, n)}
                    \cup {itrunc(Created(p, n), j) :
                            j \in {j \in {i} : Created(p, n).inode[j].type = "file"}}
      BY <1>6 DEF Opens
    <3>2. QED
      BY <3>1, <1>1, <1>5, <1>7, <1>14, FileCreated
  <2>2. disk'.dir[dp][n] = i /\ \A e \in Entries \ {n} : disk'.dir[dp][e] = disk.dir[dp][e]
    <3>1. dp \in Inums
      OBVIOUS
    <3>2. QED
      BY ONLY <3>1, <2>1, <1>12
  <2>3. /\ \A d \in Inums, m \in Names : d # dp \/ m # n => disk'.dir[d][m] = disk.dir[d][m]
        /\ \A d \in Inums : disk'.dir[d]["."] = disk.dir[d]["."] /\ disk'.dir[d][".."] = disk.dir[d][".."]
    BY <2>1, <2>2, <1>11 DEF Entries
  <2>4. FileLinks'
    <3>1. ASSUME NEW j \in Inums, disk'.inode[j].type = "file"
          PROVE  /\ disk.inode[j].type = "file" /\ disk'.inode[j].nlink \in Int
                 /\ Count(NameSet(j)) \in Nat /\ Count(NameSet(j)') \in Nat
                 /\ disk'.inode[j].nlink - disk.inode[j].nlink
                    >= Count(NameSet(j)') - Count(NameSet(j)) + Same(old'[p], j) - Same(old[p], j)
      <4>1. /\ Count(NameSet(j)) \in Nat /\ Count(NameSet(j)') \in Nat
            /\ Count(NameSet(j)') = Count(NameSet(j)) - Same(disk.dir[dp][n], j)
                                    + Same(disk'.dir[dp][n], j)
        BY <2>3, NamesMove
      <4>2. /\ Same(disk.dir[dp][n], j) = 0 /\ Same(old'[p], j) = 0 /\ Same(old[p], j) = 0
            /\ Same(disk'.dir[dp][n], j) = Same(i, j) /\ Same(i, j) \in Int
        BY <1>4, <1>6, <1>8, <2>2 DEF Same, Inums
      <4>3. disk.inode[j].type = "file" /\ disk.inode[j].nlink \in Int
        BY <3>1, <1>1, <2>1 DEF TypesStay, DiskOK, Dinode
      <4>4. disk'.inode[j].nlink = disk.inode[j].nlink + Same(i, j) /\ disk'.inode[j].nlink \in Int
        BY <4>3, <1>7, <2>1 DEF Same
      <4>5. PICK a \in Int, b \in Int, s \in Int, k \in Int, l \in Int :
              /\ a = Count(NameSet(j)) /\ b = Count(NameSet(j)') /\ s = Same(i, j)
              /\ k = disk.inode[j].nlink /\ l = disk'.inode[j].nlink
        BY <4>1, <4>2, <4>3, <4>4
      <4>6. b = a + s /\ l = k + s
        BY <4>1, <4>2, <4>4, <4>5
      <4>7. l - k >= b - a + 0 - 0
        BY <4>6
      <4>8. QED
        BY <4>1, <4>2, <4>3, <4>5, <4>7
    <3>2. \A q \in Procs \ {p} : old'[q] = old[q]
      BY <1>10
    <3>3. QED
      BY <1>1, <3>1, <3>2, FileLinksFrom
  <2>5. DiskTree'
    <3>1. \A d \in Inums, m \in Names : \/ disk'.dir[d][m] = disk.dir[d][m]
                                        \/ disk.dir[d][m] \in {0, i} /\ disk'.dir[d][m] \in {0, i}
      BY <1>6, <2>2, <2>3
    <3>2. \A j \in Inums \ {i} : disk'.inode[j].nlink = disk.inode[j].nlink
      BY <2>1
    <3>3. QED
      BY <1>1, <1>14, <2>1, <2>3, <2>4, <3>1, <3>2, FileDisk
  <2>6. CallsTree'
    <3>1. \A d \in Inums, m \in Names : disk'.dir[d][m] \in {0, i, disk.dir[d][m]}
      BY <2>2, <2>3
    <3>2. \A j \in Inums \ {i, dp} :
             disk'.inode[j].nlink = disk.inode[j].nlink /\ disk'.dir[j] = disk.dir[j]
      BY <2>1
    <3>3. disk'.dir[dp]["."] = disk.dir[dp]["."]
      BY <2>3
    <3>4. pc[p] = "new" => cur[p] = i
      BY <1>5
    <3>5. QED
      BY <1>2, <1>8, <1>9, <1>14, <2>1, <3>1, <3>2, <3>3, <3>4, EntryCalls
  <2>7. QED
    BY <2>5, <2>6 DEF TreeInv
<1>15. QED
  BY <1>7, <1>13, <1>14

-----------------------------------------------------------------------------
(* The invariant of the tree. *)

LEMMA EmptyTree ==
  ASSUME Inv, disk = EmptyDisk, \A q \in Procs : old[q] = 0
  PROVE  DiskTree
<1>1. Root \in Inums /\ \A i \in Inums : i # 0
  BY FileSysAssumption DEF Root, Inums
<1>2. /\ disk.inode = [i \in Inums |-> IF i = Root THEN [type |-> "dir", nlink |-> 1, blk |-> 1]
                                       ELSE [type |-> "free", nlink |-> 0, blk |-> 0]]
      /\ disk.dir = [i \in Inums |-> [e \in Entries |->
                                        IF i = Root /\ e \notin Names THEN Root ELSE 0]]
  BY DEF EmptyDisk
<1>3. /\ disk.inode[Root].type = "dir" /\ disk.inode[Root].nlink = 1
      /\ \A i \in Inums \ {Root} : disk.inode[i].type = "free"
  BY <1>1, <1>2
<1>4. \A i \in Inums, n \in Names : disk.dir[i][n] = 0
  BY <1>2 DEF Entries
<1>5. disk.dir[Root]["."] = Root /\ disk.dir[Root][".."] = Root
  BY <1>1, <1>2, FileSysAssumption DEF Entries
<1>6. \A i \in Inums : ~Named(i)
  BY <1>1, <1>4 DEF Named
<1>7. NamedLive /\ RootOK /\ OneName /\ FileLinks
  BY <1>1, <1>3, <1>4, <1>5, <1>6 DEF NamedLive, RootOK, OneName, FileLinks
<1>8. DirLinks
  <2>1. Count(Kids(Root)) = 0
    <3>1. Kids(Root) = {}
      BY <1>6 DEF Kids
    <3>2. QED
      BY <3>1, NoneCounted
  <2>2. \A i \in Inums : disk.inode[i].type = "dir" => i = Root
    BY <1>3
  <2>3. QED
    BY <1>1, <1>3, <1>6, <2>1, <2>2 DEF DirLinks, One
<1>9. QED
  BY <1>7, <1>8 DEF DiskTree

LEMMA InitTree == Init => TreeInv
<1> SUFFICES ASSUME Init
             PROVE  TreeInv
  OBVIOUS
<1>1. /\ disk = EmptyDisk /\ Root \in Inums
      /\ \A q \in Procs : /\ pc[q] = "user" /\ cur[q] = 0 /\ par[q] = 0 /\ old[q] = 0
                          /\ cwd[q] \in {0, Root}
  BY FileSysAssumption DEF Init, Boot, Root, Inums
<1>2. DiskTree
  BY <1>1, InitInv, EmptyTree
<1>3. disk.inode[Root].type = "dir" /\ disk.dir[Root]["."] = Root
  BY <1>2 DEF DiskTree, RootOK
<1>4. \A i \in Inums \ {Root} : disk.inode[i].type = "free"
  BY <1>1 DEF EmptyDisk
<1>5. Settled(Root) /\ \A i : Settled(i) => i = Root
  BY <1>1, <1>3, <1>4 DEF Settled
<1>6. CallsTree
  BY <1>1, <1>3, <1>5 DEF CallsTree, Dots, NewAlone, UsesSettled
<1>7. QED
  BY <1>2, <1>6 DEF TreeInv

LEMMA CallsKeepTree ==
  ASSUME Inv, TreeInv, Running, NEW p \in Procs,
         Creating(p) \/ Unlinking(p) \/ Linking(p) \/ Descriptor(p)
  PROVE  TreeInv'
<1>1. CASE Creating(p)
  BY <1>1, CreateFindsTree, CreateAllocsTree, CreateLinksTree DEF Creating
<1>2. CASE Unlinking(p)
  BY <1>2, UnlinkFindsTree, UnlinkTree, UnlinkNotEmptyTree, RefusedTree
  DEF Unlinking, UnlinkRefused
<1>3. CASE Linking(p)
  BY <1>3, LinkTree, LinkEntersTree, LinkExistsTree, LinkBadTree DEF Linking
<1>4. CASE Descriptor(p)
  BY <1>4, ChdirTree, WriteTree, CloseTree, ExitTree, ForkTree DEF Descriptor
<1>5. QED
  BY <1>1, <1>2, <1>3, <1>4

LEMMA NextTree ==
  ASSUME Inv, TreeInv, ~StaleUp, [Next]_vars
  PROVE  TreeInv'
<1>1. ASSUME Running, NEW p \in Procs,
             \/ Put(p) \/ Path(p) \/ Opening(p) \/ Creating(p) \/ Unlinking(p)
             \/ Linking(p) \/ Descriptor(p) \/ Panics(p)
      PROVE  TreeInv'
  <2>1. CASE Path(p)
    BY <1>1, <2>1, BeginTree, StopsEarlyTree, WalkTree, WalkFailsTree DEF Path
  <2>2. CASE Opening(p)
    BY <1>1, <2>2, OpenTree, RefusedTree DEF Opening
  <2>3. QED
    BY <1>1, <2>1, <2>2, PutTree, CallsKeepTree, PanicsTree
<1>2. CASE Crash
  BY <1>2, CrashTree
<1>3. CASE UNCHANGED vars
  BY <1>3, StutterTree
<1>4. QED
  BY <1>1, <1>2, <1>3 DEF Next

\* Whatever system calls interleave, and wherever power fails, recovery finds a
\* tree with right "." and "..", no name of a free inode, exact link counts of
\* directories, files with no fewer links than names, and blocks allocated once --
\* as long as no path goes up from a removed directory, which the code allows and
\* which gives a file more names than links (the run fs_stale_parent).
THEOREM RecoveryAlwaysSound ==
  ASSUME ~StaleUp
  PROVE  Spec => []RecoversSound
<1>1. Init => Inv /\ TreeInv
  BY InitInv, InitTree
<1>2. Inv /\ TreeInv /\ [Next]_vars => (Inv /\ TreeInv)'
  BY NextKeeps, NextTree
<1>3. Inv /\ TreeInv => RecoversSound
  <2>1. Inv => BlocksOwned(disk)
    BY DEF Inv, BlocksKept
  <2>2. QED
    BY <2>1, NamesSettled, TreeFound DEF RecoversSound
<1>4. QED
  BY <1>1, <1>2, <1>3, PTL DEF Spec
=============================================================================
