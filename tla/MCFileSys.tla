----------------------------- MODULE MCFileSys -----------------------------
(* FileSys for TLC.  Names are interchangeable.  Between them the processes   *)
(* make every call: one makes files and directories, the other uses them,     *)
(* gives them names and removes them meanwhile.                               *)
EXTENDS FileSys, TLC

NameSymmetry == Permutations(Names)
SomeCalls == [p \in Procs |-> IF p = InitProc THEN {"creat", "mkdir"}
                              ELSE {"open", "link", "unlink", "chdir"}]
=============================================================================
