--------------------------- MODULE LineDiscipline ---------------------------
(***************************************************************************)
(* What the console promises its users: the line that is being typed can be  *)
(* edited until it ends; a read gets the bytes of one line at most, in the   *)
(* order they were typed, and nothing at an end of file; what is written is  *)
(* sent in the order of the writes.                                         *)
(***************************************************************************)
EXTENDS Integers, Sequences

CONSTANTS Users, Letters, LineCapacity, OutCapacity

VARIABLES edit,   \* the line that is being typed
          lines,  \* what readers may have
          given,  \* what each user's read has got so far
          output  \* bytes on their way to the screen

ldVars == <<edit, lines, given, output>>

LDInit == edit = <<>> /\ lines = <<>> /\ given = [u \in Users |-> <<>>] /\ output = <<>>

Held == Len(lines) + Len(edit)

Type(c) ==
  /\ Held < LineCapacity
  /\ LET line == Append(edit, c) IN
       IF c \in {"nl", "eof"} \/ Held + 1 = LineCapacity
       THEN lines' = lines \o line /\ edit' = <<>>
       ELSE edit' = line /\ UNCHANGED lines
  /\ UNCHANGED <<given, output>>

Erase == /\ edit # <<>>
         /\ edit' \in {SubSeq(edit, 1, Len(edit) - 1), <<>>}
         /\ UNCHANGED <<lines, given, output>>

\* The next byte goes to a read that has not seen the end of its line; an end of
\* file is not for a read that has got something.
Give(u) ==
  /\ lines # <<>>
  /\ given[u] # <<>> => given[u][Len(given[u])] # "nl" /\ Head(lines) # "eof"
  /\ given' = [given EXCEPT ![u] = IF Head(lines) = "eof" THEN @ ELSE Append(@, Head(lines))]
  /\ lines' = Tail(lines)
  /\ UNCHANGED <<edit, output>>

\* A byte that could not be copied to the user is lost, and ends the read.
Lose(u) == /\ lines # <<>> /\ Head(lines) # "eof"
           /\ lines' = Tail(lines)
           /\ given' = [given EXCEPT ![u] = <<>>]
           /\ UNCHANGED <<edit, output>>

Return(u) == given' = [given EXCEPT ![u] = <<>>] /\ UNCHANGED <<edit, lines, output>>

Put(u) == Len(output) < OutCapacity /\ output' = Append(output, u)
          /\ UNCHANGED <<edit, lines, given>>
Send == output # <<>> /\ output' = Tail(output) /\ UNCHANGED <<edit, lines, given>>

LDNext == \/ \E c \in Letters \cup {"nl", "eof"} : Type(c)
          \/ Erase \/ Send
          \/ \E u \in Users : Give(u) \/ Lose(u) \/ Return(u) \/ Put(u)

LDSpec == LDInit /\ [][LDNext]_ldVars
=============================================================================
