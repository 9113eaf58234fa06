SPECIFICATION Spec
CONSTANTS
  Readers = {r1, r2}
  Writers = {w1, w2}
  Killable = {r1, r2}
  PIPESIZE = 2
  Wrap = 4
  Bytes = {0, 1}
  MaxCount = 3
SYMMETRY ProcSymmetry
INVARIANTS
  PipeSound
PROPERTIES
  ImplementsFifo
CHECK_DEADLOCK FALSE
