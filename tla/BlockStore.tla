----------------------------- MODULE BlockStore -----------------------------
(***************************************************************************)
(* What the buffer cache and the log promise to the file system: one       *)
(* current copy of every block, used by one process at a time and changed   *)
(* by operations only, whatever is on the disk.                             *)
(***************************************************************************)
CONSTANTS Procs, Blocks, Vals, NoProc

VARIABLES store,   \* the contents of each block, and the process between
                   \* bread() and brelse() of it
          writers  \* the processes between begin_op() and end_op()

Init == /\ store \in [Blocks -> [val : Vals, holder : {NoProc}]]
        /\ writers = {}

Begin(p) == /\ p \notin writers
            /\ writers' = writers \cup {p}
            /\ UNCHANGED store

End(p) == /\ p \in writers
          /\ \A b \in Blocks : store[b].holder # p
          /\ writers' = writers \ {p}
          /\ UNCHANGED store

Bread(p, b) == /\ store[b].holder = NoProc
               /\ store' = [store EXCEPT ![b].holder = p]
               /\ UNCHANGED writers

Write(b, v) == /\ store[b].holder \in writers
               /\ store' = [store EXCEPT ![b].val = v]
               /\ UNCHANGED writers

Brelse(b) == /\ store[b].holder # NoProc
             /\ store' = [store EXCEPT ![b].holder = NoProc]
             /\ UNCHANGED writers

Next == \/ \E p \in Procs : Begin(p) \/ End(p)
        \/ \E b \in Blocks : \/ \E p \in Procs : Bread(p, b)
                             \/ \E v \in Vals : Write(b, v)
                             \/ Brelse(b)

Spec == Init /\ [][Next]_<<store, writers>>
=============================================================================
