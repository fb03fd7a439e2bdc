SPECIFICATION FairSpec
CONSTANTS
  Frames = {"a", "b"}
  QueueMax = 2
  MaxRx = 3
INVARIANTS
  TypeOK
  OneOwner
  SoundWithoutOverlap
PROPERTIES
  InterruptsAcknowledged
  CallsReturn
CHECK_DEADLOCK FALSE
