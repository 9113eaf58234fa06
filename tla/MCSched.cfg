SPECIFICATION FairSpec
CONSTANTS
  Cpus = {c1, c2}
  NPROC = 3
  Waiters = {1, 2}
INVARIANTS
  TypeOK
  OneStackOneHart
  SchedNeverPanics
  InterruptsFollowLocks
  NoLostWakeup
PROPERTIES
  RunnableRuns
