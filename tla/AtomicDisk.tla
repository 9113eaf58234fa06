----------------------------- MODULE AtomicDisk -----------------------------
(***************************************************************************)
(* What the log promises to the file system: the disk moves from one state *)
(* between operations to another, whole operations at a time, and a crash  *)
(* takes the contents back to the last such state.                         *)
(***************************************************************************)
CONSTANTS Procs, Blocks, Vals

VARIABLES mem,    \* the blocks as the running operations see them
          disk,   \* the blocks a crash leaves behind
          open    \* the operations between begin_op() and end_op()

avars == <<mem, disk, open>>

Init == /\ mem \in [Blocks -> Vals]
        /\ disk = mem
        /\ open = {}

Begin(p) == /\ p \notin open
            /\ open' = open \cup {p}
            /\ UNCHANGED <<mem, disk>>

Write(p, b, v) == /\ p \in open
                  /\ mem' = [mem EXCEPT ![b] = v]
                  /\ UNCHANGED <<disk, open>>

End(p) == /\ p \in open
          /\ open' = open \ {p}
          /\ UNCHANGED <<mem, disk>>

\* Only while no operation is open: none is ever made durable in part.
Commit == /\ open = {}
          /\ disk' = mem
          /\ UNCHANGED <<mem, open>>

Crash == /\ mem' = disk
         /\ open' = {}
         /\ UNCHANGED disk

Next == \/ \E p \in Procs : \/ Begin(p) \/ End(p)
                            \/ \E b \in Blocks, v \in Vals : Write(p, b, v)
        \/ Commit \/ Crash

Spec == Init /\ [][Next]_avars
=============================================================================
