------------------------------ MODULE FileSys ------------------------------
(***************************************************************************)
(* Inodes, directories, open files and the system calls on them            *)
(* (xv6-labs/kernel/fs.c, file.c, sysfile.c), with crashes.                *)
(*                                                                         *)
(* A step of a process reaches from the acquisition of an inode's lock to  *)
(* the next lock it has to wait for; iput() is in steps of its own, those  *)
(* of icache.lock.  Everything between begin_op() and end_op() reaches the *)
(* disk at once, when no operation is left (the module Log).               *)
(***************************************************************************)
EXTENDS Integers, Sequences, FiniteSets

CONSTANTS Procs, InitProc,  \* the processes; the one that boot creates
          Names,            \* names a directory entry may have
          NINODES, NBLOCKS, \* inodes and data blocks of the disk
          MayCall,          \* bound: which system calls a process makes
          MaxLinks,         \* bound: link() makes no more of an inode
          StaleUp,          \* bound: paths may go up from a directory that was removed
          NFILE, NOFILE,    \* open files, descriptors per process (param.h)
          NoProc, NoInode

Inums == 1..NINODES
Blocks == 1..NBLOCKS
Root == 1
Entries == Names \cup {".", ".."}
Calls == {"open", "creat", "mkdir", "link", "unlink", "chdir"}

ASSUME FileSysAssumption ==
  /\ {NINODES, NBLOCKS, NFILE, NOFILE, MaxLinks} \subseteq Nat \ {0}
  /\ InitProc \in Procs /\ NoProc \notin Procs
  /\ MayCall \in [Procs -> SUBSET Calls]
  /\ {".", ".."} \cap Names = {}
  /\ StaleUp \in BOOLEAN
  /\ IsFiniteSet(Procs) /\ IsFiniteSet(Names)

VARIABLES
  disk,         \* what is on the disk and in the log: inodes, directories, bitmap
  ref, mem,     \* the inode cache: references, and the copy of a valid entry
  lock,         \* who holds an inode's sleep lock
  file, ofile,  \* the file table, the processes' descriptors
  cwd,          \* a process's directory; 0: there is no such process
  pc,           \* where the process is; its system call shows at the path's end
  cur, par, old,\* its pointers to inodes: ip, dp, and the ip of link()
  put, stage    \* inodes it has still to iput(), and where it is in iput()

cache == <<ref, mem, lock>>
table == <<file, ofile, cwd>>
regs == <<pc, cur, par, old>>
vars == <<disk, cache, table, regs, put, stage>>

-----------------------------------------------------------------------------
(* The disk. *)

Dinode == [type : {"free", "dir", "file"}, nlink : Int, blk : {0} \cup Blocks]
NoEntries == [e \in Entries |-> 0]

\* balloc(): the first free block becomes the inode's.
Balloc(d, i) ==
  LET b == CHOOSE b \in Blocks \ d.used : \A c \in Blocks \ d.used : b <= c
  IN  [d EXCEPT !.used = @ \cup {b}, !.inode[i].blk = b]

\* Mutant of itrunc: the inode keeps the block it has freed.
itruncKeeps(d, i) == [d EXCEPT !.used = @ \ {d.inode[i].blk}, !.dir[i] = NoEntries]

\* itrunc(): the blocks are freed and with them the entries of a directory.
itrunc(d, i) == [d EXCEPT !.used = @ \ {d.inode[i].blk}, !.inode[i].blk = 0,
                          !.dir[i] = NoEntries]

iupdate(d, i, ip) == [d EXCEPT !.inode[i] = ip]
dirlink(d, dp, n, i) == [d EXCEPT !.dir[dp][n] = i]
nlink(ip, by) == [ip EXCEPT !.nlink = @ + by]
isdirempty(i) == \A n \in Names : disk.dir[i][n] = 0

\* The image that mkfs makes, as far as it matters: an empty root.
EmptyDisk ==
  [inode |-> [i \in Inums |-> IF i = Root THEN [type |-> "dir", nlink |-> 1, blk |-> 1]
                              ELSE [type |-> "free", nlink |-> 0, blk |-> 0]],
   dir |-> [i \in Inums |-> [e \in Entries |->
                               IF i = Root /\ e \notin Names THEN Root ELSE 0]],
   used |-> {1}]

\* The memory of a machine that has just started, its first process in "/".
Boot ==
  [ref |-> [i \in Inums |-> IF i = Root THEN 1 ELSE 0],
   mem |-> [i \in Inums |-> NoInode],
   lock |-> [i \in Inums |-> NoProc],
   file |-> [f \in 1..NFILE |-> [ref |-> 0, ip |-> 0]],
   ofile |-> [p \in Procs |-> [fd \in 1..NOFILE |-> 0]],
   cwd |-> [p \in Procs |-> IF p = InitProc THEN Root ELSE 0],
   pc |-> [p \in Procs |-> "user"],
   ptr |-> [p \in Procs |-> 0],
   put |-> [p \in Procs |-> <<>>]]

Init ==
  /\ disk = EmptyDisk
  /\ ref = Boot.ref /\ mem = Boot.mem /\ lock = Boot.lock
  /\ file = Boot.file /\ ofile = Boot.ofile /\ cwd = Boot.cwd
  /\ pc = Boot.pc /\ put = Boot.put
  /\ cur = Boot.ptr /\ par = Boot.ptr /\ old = Boot.ptr /\ stage = Boot.ptr

-----------------------------------------------------------------------------
(* The inode cache. *)

iget(i) == ref' = [ref EXCEPT ![i] = @ + 1]

\* p is at l with the lock of inode i to come, and gets it; Load is what it sees.
At(p, l, i) == pc[p] = l /\ put[p] = <<>> /\ lock[i] = NoProc
Load(i) == IF mem[i] = NoInode THEN disk.inode[i] ELSE mem[i]

\* The step leaves p at l with these pointers and these inodes to iput().
Goto(p, l, c, d, o, puts) ==
  /\ pc' = [pc EXCEPT ![p] = l]
  /\ cur' = [cur EXCEPT ![p] = c]
  /\ par' = [par EXCEPT ![p] = d]
  /\ old' = [old EXCEPT ![p] = o]
  /\ put' = [put EXCEPT ![p] = puts]
  /\ UNCHANGED stage

\* The rest of the system call is to iput() the inodes in puts, and end_op().
Leave(p, puts) == Goto(p, IF puts = <<>> THEN "user" ELSE "end", 0, 0, 0, puts)

\* One inode less to iput(): p goes on, and out of the system call at its end.
HasPut(p) ==
  /\ put' = [put EXCEPT ![p] = Tail(@)]
  /\ pc' = [pc EXCEPT ![p] = IF @ = "end" /\ Len(put[p]) = 1 THEN "user" ELSE @]
  /\ UNCHANGED <<cur, par, old>>

\* Everything the lock of i covered is written through; nothing else changes.
Seen(i) == mem' = [mem EXCEPT ![i] = Load(i)]

\* iput(): the last reference to an inode without links frees it.
iput(p) ==
  /\ put[p] # <<>> /\ stage[p] = 0
  /\ LET i == Head(put[p]) IN
       IF ref[i] = 1 /\ mem[i] # NoInode /\ mem[i].nlink = 0
       THEN /\ lock[i] = NoProc
            /\ lock' = [lock EXCEPT ![i] = p]
            /\ disk' = iupdate(itrunc(disk, i), i, [type |-> "free", nlink |-> 0, blk |-> 0])
            /\ mem' = [mem EXCEPT ![i] = disk'.inode[i]]
            /\ stage' = [stage EXCEPT ![p] = 1]
            /\ UNCHANGED <<ref, regs, put>>
       ELSE /\ ref' = [ref EXCEPT ![i] = @ - 1]
            /\ mem' = [mem EXCEPT ![i] = IF ref[i] = 1 THEN NoInode ELSE @]
            /\ HasPut(p)
            /\ UNCHANGED <<lock, disk, stage>>
  /\ UNCHANGED table

\* Mutant of Freed: the entry stays valid, its number may be given away already.
FreedValid(p) ==
  /\ stage[p] = 1
  /\ LET i == Head(put[p]) IN lock' = [lock EXCEPT ![i] = NoProc]
  /\ stage' = [stage EXCEPT ![p] = 2]
  /\ UNCHANGED <<disk, ref, mem, table, regs, put>>

\* ip->valid = 0, releasesleep(): ialloc() may have given the inode away already.
Freed(p) ==
  /\ stage[p] = 1
  /\ LET i == Head(put[p]) IN
       /\ mem' = [mem EXCEPT ![i] = NoInode]
       /\ lock' = [lock EXCEPT ![i] = NoProc]
  /\ stage' = [stage EXCEPT ![p] = 2]
  /\ UNCHANGED <<disk, ref, table, regs, put>>

FreedDeref(p) ==
  /\ stage[p] = 2
  /\ LET i == Head(put[p]) IN
       /\ ref' = [ref EXCEPT ![i] = @ - 1]
       /\ mem' = [mem EXCEPT ![i] = IF ref[i] = 1 THEN NoInode ELSE @]
  /\ HasPut(p)
  /\ stage' = [stage EXCEPT ![p] = 0]
  /\ UNCHANGED <<disk, lock, table>>

-----------------------------------------------------------------------------
(* Paths: namex() reads the elements of an arbitrary path one by one. *)


\* begin_op(), and iget() of "/" or idup() of the current directory.
Begin(p) ==
  /\ pc[p] = "user" /\ cwd[p] # 0
  /\ \E c \in MayCall[p], start \in {Root, cwd[p]} :
       /\ iget(start)
       /\ Goto(p, IF c \in {"open", "chdir", "link"} THEN "namei" ELSE "parent", start, 0, 0, <<>>)
  /\ UNCHANGED <<disk, mem, lock, table>>

\* nameiparent() stops one level early.
StopsEarly(p) ==
  LET i == cur[p] IN
  /\ At(p, "parent", i) /\ Load(i).type = "dir"
  /\ Seen(i)
  /\ Goto(p, "dir", i, 0, old[p], <<>>)
  /\ UNCHANGED <<disk, ref, lock, table>>

\* No directory names i any more; its ".." may name an inode that is free, or another.
Removed(i) == i # Root /\ \A d \in Inums, n \in Names : disk.dir[d][n] # i

\* One element: look it up, iunlockput() the directory, go on with what it names.
Walk(p, l) ==
  LET i == cur[p] IN
  /\ At(p, l, i) /\ Load(i).type = "dir"
  /\ \E e \in Entries :
       LET next == disk.dir[i][e] IN
       /\ next # 0
       /\ e = ".." /\ Removed(i) => StaleUp
       /\ iget(next)
       /\ Goto(p, l, next, 0, old[p], <<i>>)
  /\ Seen(i)
  /\ UNCHANGED <<disk, lock, table>>

\* Not a directory, or no such entry: iunlockput() and return 0.
WalkFails(p, l) ==
  LET i == cur[p] IN
  /\ At(p, l, i) /\ Load(i).type # "free"
  /\ Load(i).type = "dir" => \E e \in Entries : disk.dir[i][e] = 0
  /\ Seen(i)
  /\ IF old[p] # 0 THEN Goto(p, "bad", 0, 0, old[p], <<i>>) ELSE Leave(p, <<i>>)
  /\ UNCHANGED <<disk, ref, lock, table>>

-----------------------------------------------------------------------------
(* The system calls. *)

FreeFiles == {f \in 1..NFILE : file[f].ref = 0}
FreeFds(p) == {fd \in 1..NOFILE : ofile[p][fd] = 0}

\* The end of sys_open(), with i locked: filealloc(), fdalloc(), O_TRUNC.
Opens(p, i, d, puts) ==
  /\ Leave(p, puts)
  /\ \E f \in FreeFiles, fd \in FreeFds(p) :
       /\ file' = [file EXCEPT ![f] = [ref |-> 1, ip |-> i]]
       /\ ofile' = [ofile EXCEPT ![p][fd] = f]
       /\ \A g \in FreeFiles : f <= g
       /\ \A g \in FreeFds(p) : fd <= g
  /\ disk' \in {d} \cup {itrunc(d, j) : j \in {j \in {i} : d.inode[j].type = "file"}}

\* sys_open() of an inode that exists: by namei(), or found by create().
Open(p, l) ==
  LET i == cur[p] IN
  /\ At(p, l, i) /\ Load(i).type # "free"
  /\ l = "namei" => "open" \in MayCall[p]
  /\ l = "found" => "creat" \in MayCall[p] /\ Load(i).type = "file"
  /\ Opens(p, i, disk, <<>>)
  /\ mem' = [mem EXCEPT ![i] = disk'.inode[i]]
  /\ UNCHANGED <<ref, lock, cwd>>

\* No descriptor or file left, a directory opened for writing, a name that exists.
Refused(p, l) ==
  LET i == cur[p] IN
  /\ At(p, l, i) /\ Load(i).type # "free"
  /\ Seen(i)
  /\ Leave(p, <<i>>)
  /\ UNCHANGED <<disk, ref, lock, table>>

\* create(): the name is there; go on with what it names.
CreateFinds(p) ==
  LET dp == cur[p] IN
  /\ MayCall[p] \cap {"creat", "mkdir"} # {}
  /\ At(p, "dir", dp) /\ old[p] = 0 /\ Load(dp).type # "free"
  /\ \E e \in Entries :
       LET i == disk.dir[dp][e] IN
       /\ i # 0
       /\ iget(i)
       /\ Goto(p, "found", i, 0, 0, <<dp>>)
  /\ Seen(dp)
  /\ UNCHANGED <<disk, lock, table>>

\* create(): ialloc() takes the first inode that is free on the disk.
CreateAllocs(p) ==
  LET dp == cur[p] IN
  /\ At(p, "dir", dp) /\ old[p] = 0 /\ Load(dp).type # "free"
  /\ \E n \in Names : disk.dir[dp][n] = 0
  /\ \E i \in Inums, c \in MayCall[p] \cap {"creat", "mkdir"} :
       /\ disk.inode[i].type = "free"
       /\ \A j \in 1..(i - 1) : disk.inode[j].type # "free"
       /\ disk' = iupdate(disk, i, [type |-> IF c = "mkdir" THEN "dir" ELSE "file",
                                    nlink |-> 0, blk |-> 0])
       /\ iget(i)
       /\ Goto(p, "new", i, dp, 0, <<>>)
  /\ lock' = [lock EXCEPT ![dp] = p]
  /\ Seen(dp)
  /\ UNCHANGED table

\* What create() makes of the disk with the new inode and its directory locked.
Created(p, n) ==
  LET i == cur[p]  dp == par[p]
      d == dirlink(iupdate(disk, i, [Load(i) EXCEPT !.nlink = 1]), dp, n, i)
  IN  IF Load(i).type = "file" THEN d
      ELSE dirlink(dirlink(Balloc(iupdate(d, dp, nlink(Load(dp), 1)), i),
                           i, ".", i), i, "..", dp)

CreateLinks(p) ==
  LET i == cur[p]  dp == par[p] IN
  /\ At(p, "new", i)
  /\ Load(i).type = "file" \/ (Load(i).type = "dir" /\ Blocks \ disk.used # {})
  /\ \E n \in Names :
       /\ disk.dir[dp][n] = 0
       /\ \/ Load(i).type = "file" /\ Opens(p, i, Created(p, n), <<dp>>)
          \/ disk' = Created(p, n) /\ Leave(p, <<dp, i>>) /\ UNCHANGED <<file, ofile>>
  /\ mem' = [mem EXCEPT ![i] = disk'.inode[i], ![dp] = disk'.inode[dp]]
  /\ lock' = [lock EXCEPT ![dp] = NoProc]
  /\ UNCHANGED <<ref, cwd>>

\* Mutant of UnlinkFinds: "." and ".." are not refused.
UnlinkFindsDots(p) ==
  LET dp == cur[p] IN
  /\ "unlink" \in MayCall[p]
  /\ At(p, "dir", dp) /\ old[p] = 0 /\ Load(dp).type # "free"
  /\ \E n \in Entries :
       LET i == disk.dir[dp][n] IN
       /\ i # 0
       /\ iget(i)
       /\ Goto(p, "child", i, dp, 0, <<>>)
  /\ lock' = [lock EXCEPT ![dp] = p]
  /\ Seen(dp)
  /\ UNCHANGED <<disk, table>>

\* unlink(): the name is looked up, and its inode is locked after the directory.
UnlinkFinds(p) ==
  LET dp == cur[p] IN
  /\ "unlink" \in MayCall[p]
  /\ At(p, "dir", dp) /\ old[p] = 0 /\ Load(dp).type # "free"
  /\ \E n \in Names :
       LET i == disk.dir[dp][n] IN
       /\ i # 0
       /\ iget(i)
       /\ Goto(p, "child", i, dp, 0, <<>>)
  /\ lock' = [lock EXCEPT ![dp] = p]
  /\ Seen(dp)
  /\ UNCHANGED <<disk, table>>

\* unlink(): the entry goes, and the link; ".." goes with a directory.
Unlink(p) ==
  LET i == cur[p]  dp == par[p]  ip == Load(i) IN
  /\ At(p, "child", i) /\ ip.type # "free" /\ ip.nlink >= 1
  /\ ip.type = "dir" => isdirempty(i)
  /\ \E n \in Names :
       /\ disk.dir[dp][n] = i
       /\ disk' = LET d == dirlink(iupdate(disk, i, nlink(ip, -1)), dp, n, 0)
                  IN  IF ip.type = "dir" THEN iupdate(d, dp, nlink(Load(dp), -1)) ELSE d
  /\ mem' = [mem EXCEPT ![i] = disk'.inode[i], ![dp] = disk'.inode[dp]]
  /\ lock' = [lock EXCEPT ![dp] = NoProc]
  /\ Leave(p, <<dp, i>>)
  /\ UNCHANGED <<ref, table>>

UnlinkNotEmpty(p) ==
  LET i == cur[p]  dp == par[p] IN
  /\ At(p, "child", i) /\ Load(i).type = "dir" /\ ~isdirempty(i)
  /\ Seen(i)
  /\ lock' = [lock EXCEPT ![dp] = NoProc]
  /\ Leave(p, <<i, dp>>)
  /\ UNCHANGED <<disk, ref, table>>

\* unlink() of ".", ".." or of a name that is not there.
UnlinkRefused(p) == old[p] = 0 /\ "unlink" \in MayCall[p] /\ Refused(p, "dir")

\* link(): count the new link first, then look for its directory.
Link(p) ==
  LET i == cur[p] IN
  /\ "link" \in MayCall[p] /\ At(p, "namei", i) /\ Load(i).type = "file"
  /\ Load(i).nlink < MaxLinks
  /\ disk' = iupdate(disk, i, nlink(Load(i), 1))
  /\ mem' = [mem EXCEPT ![i] = disk'.inode[i]]
  /\ \E start \in {Root, cwd[p]} :
       /\ iget(start)
       /\ Goto(p, "parent", start, 0, i, <<>>)
  /\ UNCHANGED <<lock, table>>

LinkEnters(p) ==
  LET dp == cur[p] IN
  /\ At(p, "dir", dp) /\ old[p] # 0 /\ Load(dp).type # "free"
  /\ \E n \in Names :
       /\ disk.dir[dp][n] = 0
       /\ disk' = dirlink(disk, dp, n, old[p])
  /\ Seen(dp)
  /\ Leave(p, <<dp, old[p]>>)
  /\ UNCHANGED <<ref, lock, table>>

\* dirlink() finds the name, gets and puts what it names, and fails.
LinkExists(p) ==
  LET dp == cur[p] IN
  /\ At(p, "dir", dp) /\ old[p] # 0 /\ Load(dp).type # "free"
  /\ \E e \in Entries :
       LET i == disk.dir[dp][e] IN
       /\ i # 0
       /\ iget(i)
       /\ Goto(p, "bad", 0, 0, old[p], <<i, dp>>)
  /\ Seen(dp)
  /\ UNCHANGED <<disk, lock, table>>

LinkBad(p) ==
  LET i == old[p] IN
  /\ At(p, "bad", i)
  /\ disk' = iupdate(disk, i, nlink(Load(i), -1))
  /\ mem' = [mem EXCEPT ![i] = disk'.inode[i]]
  /\ Leave(p, <<i>>)
  /\ UNCHANGED <<ref, lock, table>>

Chdir(p) ==
  LET i == cur[p] IN
  /\ "chdir" \in MayCall[p] /\ At(p, "namei", i) /\ Load(i).type = "dir"
  /\ Seen(i)
  /\ Leave(p, <<cwd[p]>>)
  /\ cwd' = [cwd EXCEPT ![p] = i]
  /\ UNCHANGED <<disk, ref, lock, file, ofile>>

\* No operation is running: end_op() has committed what is on the disk.
Quiescent == \A p \in Procs : pc[p] = "user"

\* filewrite() and writei(): bmap() allocates the block that is written first.
Write(p) ==
  /\ pc[p] = "user" /\ Blocks \ disk.used # {}
  /\ \E fd \in 1..NOFILE :
       LET f == ofile[p][fd]  i == file[f].ip IN
       /\ f # 0 /\ lock[i] = NoProc
       /\ Load(i).type = "file" /\ Load(i).blk = 0
       /\ disk' = Balloc(disk, i)
       /\ mem' = [mem EXCEPT ![i] = disk'.inode[i]]
  /\ UNCHANGED <<ref, lock, table, regs, put, stage>>

\* sys_close() and fileclose(): the last descriptor puts the inode.
Close(p) ==
  /\ pc[p] = "user"
  /\ \E fd \in 1..NOFILE :
       LET f == ofile[p][fd] IN
       /\ f # 0
       /\ ofile' = [ofile EXCEPT ![p][fd] = 0]
       /\ IF file[f].ref > 1
          THEN /\ file' = [file EXCEPT ![f].ref = @ - 1]
               /\ UNCHANGED <<regs, put, stage>>
          ELSE /\ file' = [file EXCEPT ![f] = [ref |-> 0, ip |-> 0]]
               /\ Leave(p, <<file[f].ip>>)
  /\ UNCHANGED <<disk, cache, cwd>>

\* Mutant of Fork: the child shares the current directory without a reference.
ForkNoIdup(p, q) ==
  /\ pc[p] = "user" /\ cwd[p] # 0
  /\ pc[q] = "user" /\ cwd[q] = 0
  /\ ofile' = [ofile EXCEPT ![q] = ofile[p]]
  /\ file' = [f \in 1..NFILE |-> [file[f] EXCEPT !.ref =
                @ + Cardinality({fd \in 1..NOFILE : ofile[p][fd] = f})]]
  /\ cwd' = [cwd EXCEPT ![q] = cwd[p]]
  /\ UNCHANGED <<disk, cache, regs, put, stage>>

\* fork(): filedup() every file, idup() the directory.
Fork(p, q) ==
  /\ pc[p] = "user" /\ cwd[p] # 0
  /\ pc[q] = "user" /\ cwd[q] = 0
  /\ ofile' = [ofile EXCEPT ![q] = ofile[p]]
  /\ file' = [f \in 1..NFILE |-> [file[f] EXCEPT !.ref =
                @ + Cardinality({fd \in 1..NOFILE : ofile[p][fd] = f})]]
  /\ cwd' = [cwd EXCEPT ![q] = cwd[p]]
  /\ iget(cwd[p])
  /\ UNCHANGED <<disk, mem, lock, regs, put, stage>>

\* exit(), when it has closed the open files one by one; init does not exit.
Exit(p) ==
  /\ p # InitProc
  /\ pc[p] = "user" /\ cwd[p] # 0 /\ FreeFds(p) = 1..NOFILE
  /\ Leave(p, <<cwd[p]>>)
  /\ cwd' = [cwd EXCEPT ![p] = 0]
  /\ UNCHANGED <<disk, cache, file, ofile>>

\* The kernel panics: ilock() of an inode that is free on the disk, unlink() of
\* one without links, a full disk in ialloc() and balloc().
Panics(p) ==
  /\ \/ \E l \in {"namei", "parent", "dir", "found", "new", "child"} :
          At(p, l, cur[p]) /\ Load(cur[p]).type = "free"
     \/ At(p, "bad", old[p]) /\ Load(old[p]).type = "free"
     \/ At(p, "child", cur[p]) /\ Load(cur[p]).nlink < 1
     \/ /\ At(p, "dir", cur[p]) /\ old[p] = 0 /\ MayCall[p] \cap {"creat", "mkdir"} # {}
        /\ \E n \in Names : disk.dir[cur[p]][n] = 0
        /\ \A i \in Inums : disk.inode[i].type # "free"
     \/ At(p, "new", cur[p]) /\ Load(cur[p]).type = "dir" /\ disk.used = Blocks
  /\ pc' = [pc EXCEPT ![p] = "panic"]
  /\ UNCHANGED <<disk, cache, table, cur, par, old, put, stage>>

\* Power fails.  Recovery finds what was last committed, at a moment when no
\* operation was running, and whatever came after it has left no trace: a crash
\* is a step from that moment.
Crash ==
  /\ Quiescent
  /\ UNCHANGED disk
  /\ ref' = Boot.ref /\ mem' = Boot.mem /\ lock' = Boot.lock
  /\ file' = Boot.file /\ ofile' = Boot.ofile /\ cwd' = Boot.cwd
  /\ pc' = Boot.pc /\ put' = Boot.put
  /\ cur' = Boot.ptr /\ par' = Boot.ptr /\ old' = Boot.ptr /\ stage' = Boot.ptr

-----------------------------------------------------------------------------
Put(p) == iput(p) \/ Freed(p) \/ FreedDeref(p)
Path(p) == \/ Begin(p) \/ StopsEarly(p)
           \/ \E l \in {"namei", "parent"} : Walk(p, l) \/ WalkFails(p, l)
Opening(p) == \/ \E l \in {"namei", "found"} : Open(p, l) \/ Refused(p, l)
Creating(p) == CreateFinds(p) \/ CreateAllocs(p) \/ CreateLinks(p)
Unlinking(p) == \/ UnlinkFinds(p) \/ Unlink(p) \/ UnlinkNotEmpty(p)
                \/ UnlinkRefused(p)
Linking(p) == Link(p) \/ LinkEnters(p) \/ LinkExists(p) \/ LinkBad(p)
Descriptor(p) == Chdir(p) \/ Write(p) \/ Close(p) \/ Exit(p) \/ \E q \in Procs : Fork(p, q)
Running == \A p \in Procs : pc[p] # "panic"

Next ==
  \/ Running /\ \E p \in Procs :
       \/ Put(p) \/ Path(p) \/ Opening(p) \/ Creating(p) \/ Unlinking(p)
       \/ Linking(p) \/ Descriptor(p) \/ Panics(p)
  \/ Crash

Spec == Init /\ [][Next]_vars

-----------------------------------------------------------------------------
(* Properties. *)

DiskOK(d) ==
  d \in [inode : [Inums -> Dinode], dir : [Inums -> [Entries -> {0} \cup Inums]],
         used : SUBSET Blocks]

TypeOK ==
  /\ DiskOK(disk)
  /\ ref \in [Inums -> Nat]
  /\ mem \in [Inums -> Dinode \cup {NoInode}]
  /\ lock \in [Inums -> Procs \cup {NoProc}]
  /\ file \in [1..NFILE -> [ref : Nat, ip : {0} \cup Inums]]
  /\ ofile \in [Procs -> [1..NOFILE -> 0..NFILE]]
  /\ cwd \in [Procs -> {0} \cup Inums]
  /\ pc \in [Procs -> {"user", "namei", "parent", "dir", "found", "new",
                                  "child", "bad", "end", "panic"}]
  /\ {cur, par, old} \subseteq [Procs -> {0} \cup Inums]
  /\ put \in [Procs -> Seq(Inums)]
  /\ stage \in [Procs -> 0..2]

Count(S) == Cardinality(S)

\* Pointers to an inode: of open files, current directories and system calls.
Pointers(i) ==
  Count({f \in 1..NFILE : file[f].ip = i}) + Count({p \in Procs : cwd[p] = i})
  + Count({p \in Procs : cur[p] = i}) + Count({p \in Procs : par[p] = i})
  + Count({p \in Procs : old[p] = i})
  + Count({x \in Procs \X (1..2) : x[2] <= Len(put[x[1]]) /\ put[x[1]][x[2]] = i})

\* ip->ref and f->ref count exactly the pointers that exist (fs.c:120-125): one
\* too few frees a file that is open, one too many keeps it for ever.
RefsExact ==
  /\ \A i \in Inums : ref[i] = Pointers(i)
  /\ \A f \in 1..NFILE :
       file[f].ref = Count({x \in Procs \X (1..NOFILE) : ofile[x[1]][x[2]] = f})

\* Whom p waits for with an inode's lock.
Wants(p) == IF put[p] # <<>> \/ pc[p] \in {"user", "end", "panic"} THEN 0
            ELSE IF pc[p] = "bad" THEN old[p] ELSE cur[p]
Blocked(p, q) == Wants(p) # 0 /\ lock[Wants(p)] = q

\* Directories are locked before what is in them: no two processes wait for each
\* other's inode; and "ip->ref == 1 means no other process can have ip locked, so
\* this acquiresleep() won't block (or deadlock)" (fs.c:339-340), in iput().
NoDeadlock ==
  /\ \A p, q \in Procs : ~(Blocked(p, q) /\ Blocked(q, p))
  /\ \A p \in Procs : put[p] # <<>> /\ stage[p] = 0 =>
       LET i == Head(put[p])
       IN  ref[i] = 1 /\ mem[i] # NoInode /\ mem[i].nlink = 0 => lock[i] = NoProc

\* A valid entry of the cache is the inode on the disk, however ialloc() may have
\* reused its number since; iput() holds the lock of the one it has just freed.
CacheCoherent ==
  \A i \in Inums : mem[i] = disk.inode[i] \/ mem[i] = NoInode
                  \/ \E p \in Procs : lock[i] = p /\ stage[p] = 1 /\ Head(put[p]) = i

\* The inode cache: references are counted exactly, entries are up to date.
InodesSound == TypeOK /\ RefsExact /\ CacheCoherent

\* What a path from "/" without ".." leads to.
Reach(d) ==
  LET Closed == {S \in SUBSET Inums :
                   Root \in S /\ \A i \in S, e \in Names : d.dir[i][e] \in S \cup {0}}
  IN  {i \in Inums : \A S \in Closed : i \in S}

\* A directory that can be reached names only inodes that are allocated, in every
\* state: no inode is freed, or reused, while it has a name.
NamesAllocated(d) ==
  \A i \in Reach(d), e \in Entries :
    d.dir[i][e] # 0 => d.inode[d.dir[i][e]].type # "free"

\* The directories form a tree with correct "." and "..", and exact link counts;
\* a file has at least the links it has names.
Tree(d) ==
  LET R == Reach(d)
      Dirs == {i \in R : d.inode[i].type = "dir"}
      NamedBy(i) == {x \in Dirs \X Names : d.dir[x[1]][x[2]] = i}
  IN  /\ \A i \in Dirs : d.dir[i]["."] = i /\ d.dir[d.dir[i][".."]]["."] = d.dir[i][".."]
      /\ \A i \in Dirs \ {Root} : {x[1] : x \in NamedBy(i)} = {d.dir[i][".."]}
                                   /\ Count(NamedBy(i)) = 1
      /\ \A i \in Dirs : d.inode[i].nlink = 1 + Count({j \in Dirs \ {Root} : d.dir[j][".."] = i})
      /\ \A i \in R \ Dirs : d.inode[i].nlink >= Count(NamedBy(i))

\* Every block in use belongs to one inode, and every block of an inode is in use.
BlocksOwned(d) ==
  /\ d.used = {d.inode[i].blk : i \in Inums} \ {0}
  /\ \A i, j \in Inums : d.inode[i].blk = d.inode[j].blk /\ d.inode[i].blk # 0 => i = j

\* Whatever is interleaved, and wherever power fails, recovery finds a file
\* system that is a tree with its blocks allocated once.
RecoversSound == NamesAllocated(disk) /\ (Quiescent => Tree(disk) /\ BlocksOwned(disk))

=============================================================================
