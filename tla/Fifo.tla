-------------------------------- MODULE Fifo --------------------------------
(***************************************************************************)
(* What a pipe promises: a queue of at most Capacity bytes that come out   *)
(* in the order they went in, and an end of file once every write end is   *)
(* closed and the queue is drained.                                        *)
(***************************************************************************)
EXTENDS Integers, Sequences

CONSTANTS Capacity, Bytes

VARIABLES queue,     \* the bytes in the pipe
          writable,  \* a write end is open
          out        \* the last result of a read

fvars == <<queue, writable, out>>

Init == /\ queue = <<>>
        /\ writable = TRUE
        /\ out = [eof |-> FALSE, bytes |-> <<>>]

Put(b) == /\ writable
          /\ Len(queue) < Capacity
          /\ queue' = Append(queue, b)
          /\ UNCHANGED <<writable, out>>

\* Of the m bytes that leave the queue the reader gets the first d: all of
\* them, or all but the one that its buffer could not take.
Get(m, d) == /\ d \in {m, m - 1}
             /\ out' = [eof |-> FALSE, bytes |-> SubSeq(queue, 1, d)]
             /\ queue' = SubSeq(queue, m + 1, Len(queue))
             /\ UNCHANGED writable

Eof == /\ ~writable /\ queue = <<>>
       /\ out' = [eof |-> TRUE, bytes |-> <<>>]
       /\ UNCHANGED <<queue, writable>>

HangUp == writable' = FALSE /\ UNCHANGED <<queue, out>>

Next == \/ \E b \in Bytes : Put(b)
        \/ \E m \in 1..Len(queue) : \E d \in {m, m - 1} : Get(m, d)
        \/ Eof \/ HangUp

Spec == Init /\ [][Next]_fvars
=============================================================================
