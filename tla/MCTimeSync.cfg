SPECIFICATION Spec
CONSTANTS
  SyncPeriod = 5
  MaxDelay = 2
  MaxAge = 1
  Skews = {0, 1, 7}
  MaxTime = 32
CHECK_DEADLOCK FALSE
INVARIANTS
  TypeOK
  OddSyncsAlign
  EvenSyncsUndo
