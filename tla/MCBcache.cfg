SPECIFICATION Spec
CONSTANTS
  b1 = b1
  Procs = {p1, p2}
  Blocks = {b1, b2, b3}
  Vals = {v0, v1}
  NBUF = 3
  LOGSIZE = 2
  Committed <- NothingCommitted
  Wrap = 8
  NoProc = NoProc
  NoBlock = NoBlock
SYMMETRY Symmetries
INVARIANTS
  CacheSound
  HolderKeepsItsBlock
PROPERTIES
  ImplementsBlockStore
