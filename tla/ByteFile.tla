------------------------------ MODULE ByteFile ------------------------------
(***************************************************************************)
(* What read() and write() promise of one file: a sequence of bytes, and an  *)
(* offset in the open file.  A write is atomic, at the offset.  One whose   *)
(* buffer the kernel cannot read moves the offset all the same, and leaves    *)
(* bytes that may change once more: torn ones.                                *)
(***************************************************************************)
EXTENDS Integers, Sequences

CONSTANTS Bytes,   \* what a byte may be
          MaxSize, \* bytes a file may have
          MaxWrite \* bytes that are written at once

VARIABLES bytes, offset, torn

Init == bytes = <<>> /\ offset = 0 /\ torn = {}

Positions(s) == 0..(Len(s) - 1)
AtPos(s, k) == s[k + 1]

\* s' is s but for the bytes at the positions in some.
AgreeBut(s, t, some) ==
  \A k \in Positions(s) \cap Positions(t) : k \notin some => AtPos(s, k) = AtPos(t, k)

\* n bytes at the offset; the file grows if it has to.
Write(n, b) ==
  LET from == offset  there == from..(from + n - 1) IN
  /\ from <= Len(bytes) /\ from + n <= MaxSize
  /\ Len(bytes') = IF from + n > Len(bytes) THEN from + n ELSE Len(bytes)
  /\ AgreeBut(bytes, bytes', there)
  /\ \A k \in there : AtPos(bytes', k) = b
  /\ torn' \subseteq torn \ there
  /\ offset' = from + n

\* A part of them arrives; the file grows by whole bytes only.
WriteTorn(n) ==
  LET from == offset  there == from..(from + n - 1) IN
  /\ from <= Len(bytes) /\ from + n <= MaxSize
  /\ Len(bytes') = Len(bytes) \/ Len(bytes') \in Len(bytes)..(from + n)
  /\ AgreeBut(bytes, bytes', there)
  /\ torn' \subseteq torn \cup there
  /\ offset' = from + n

\* The kernel forgets the torn bytes of a buffer that it reuses.
Flicker ==
  /\ Len(bytes') = Len(bytes) /\ AgreeBut(bytes, bytes', torn)
  /\ torn' \subseteq torn
  /\ UNCHANGED offset

\* At most n bytes, none beyond the end.
Read(n) ==
  /\ offset < Len(bytes)
  /\ \E r \in 1..n : /\ offset + r <= Len(bytes)
                     /\ offset' = offset + r
  /\ UNCHANGED <<bytes, torn>>

Reopen ==
  /\ bytes' \in {bytes, <<>>}
  /\ torn' \subseteq torn
  /\ offset' = 0

Next == \/ Flicker \/ Reopen \/ Read(MaxSize)
        \/ \E n \in 1..MaxWrite : WriteTorn(n) \/ \E b \in Bytes : Write(n, b)

Spec == Init /\ [][Next]_<<bytes, offset, torn>>
=============================================================================
