SPECIFICATION FairSpec
CONSTANTS
  NPROC = 3
  MaxPid = 3
  MemFail = TRUE
INVARIANTS
  TypeOK
  LockPairing
  ParentStable
  ParentAlive
  NoLostWakeup
  StackLeft
  
PROPERTIES
  KilledExits
  WaitCollects
CHECK_DEADLOCK FALSE
