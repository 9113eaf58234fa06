SPECIFICATION FamilySpec
CONSTANTS
  NPROC = 4
  MaxPid = 5
  MemFail = FALSE
INVARIANTS
  NoLockCycle
CHECK_DEADLOCK FALSE
