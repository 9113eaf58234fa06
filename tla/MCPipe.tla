------------------------------- MODULE MCPipe -------------------------------
(***************************************************************************)
(* Model checking of Pipe.                                                 *)
(***************************************************************************)
EXTENDS Pipe, TLC

\* Readers are interchangeable, and so are writers.
ProcSymmetry ==
  {f @@ g : f \in Permutations(Readers), g \in Permutations(Writers)}
=============================================================================
