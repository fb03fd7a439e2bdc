SPECIFICATION Spec
CONSTANTS
  Frames = {"a", "b"}
  QueueMax = 2
  MaxRx = 2
INVARIANT
  ConfirmedWentOut
CHECK_DEADLOCK FALSE
