SPECIFICATION Spec
CONSTANTS
  SyncPeriod = 5
  MaxDelay = 2
  MaxAge = 1
  Skews = {7}
  MaxTime = 32
CHECK_DEADLOCK FALSE
INVARIANTS
  SyncAligns
