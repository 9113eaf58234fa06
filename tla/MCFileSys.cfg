CONSTANTS
  Procs = {p1, p2}
  InitProc = p1
  Names = {a, b}
  NINODES = 3
  NBLOCKS = 3
  StaleUp = FALSE
  MayCall <- SomeCalls
  MaxLinks = 2
  NFILE = 1
  NOFILE = 1
  NoProc = NoProc
  NoInode = NoInode
SPECIFICATION Spec
SYMMETRY NameSymmetry
INVARIANTS InodesSound NoDeadlock RecoversSound
CHECK_DEADLOCK FALSE
