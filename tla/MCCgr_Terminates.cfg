SPECIFICATION FairSpec
CONSTANTS
  Problems <- StarProblem
  BeamCap = 16
  FrontierNodes = 8
  MaxPareto = 8
CHECK_DEADLOCK FALSE
PROPERTIES
  Terminates
