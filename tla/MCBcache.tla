------------------------------ MODULE MCBcache ------------------------------
(***************************************************************************)
(* Model checking of Bcache.                                               *)
(***************************************************************************)
EXTENDS Bcache, TLC

CONSTANT b1

\* What the log holds at boot: nothing, or a transaction to be recovered.
NothingCommitted == <<>>
OneCommitted == <<b1>>

\* Processes, blocks and contents are interchangeable when the log is empty.
Symmetries == {f @@ g @@ h : f \in Permutations(Procs),
                             g \in Permutations(Blocks),
                             h \in Permutations(Vals)}
=============================================================================
