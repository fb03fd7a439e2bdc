SPECIFICATION FairSpec
CONSTANTS
  AnySize = 245
  Misread = {0, 7}
  Texts <- MCTexts
  IsGround = TRUE
  TxTimeout = 1
  SyncPeriod = 2
  MaxClock = 3
  MaxSends = 2
  MaxHeard = 1
  MaxInput = 1
INVARIANTS
  TypeOK
  StandbyBetweenCalls
  DeafUntilSending
  ReportsNoMoreThanSent
  InputLostOnlyWithoutRadio
  StampAge
  LoadedAsWritten
PROPERTIES
  LoopTurns
CHECK_DEADLOCK FALSE
