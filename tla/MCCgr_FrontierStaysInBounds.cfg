SPECIFICATION Spec
CONSTANTS
  Problems <- WindowsProblem
  BeamCap = 16
  FrontierNodes = 8
  MaxPareto = 8
CHECK_DEADLOCK FALSE
INVARIANTS
  FrontierStaysInBounds
