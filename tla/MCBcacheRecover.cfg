SPECIFICATION Spec
CONSTANTS
  b1 = b1
  Procs = {p1, p2}
  Blocks = {b1, b2}
  Vals = {v0, v1}
  NBUF = 3
  LOGSIZE = 2
  Committed <- OneCommitted
  Wrap = 8
  NoProc = NoProc
  NoBlock = NoBlock
INVARIANT HolderKeepsItsBlock
CHECK_DEADLOCK FALSE
