SPECIFICATION Spec
CONSTANTS
  NPROC = 2
  MaxPid = 4
  MemFail = FALSE
PROPERTIES
  BornAlive
CHECK_DEADLOCK FALSE
