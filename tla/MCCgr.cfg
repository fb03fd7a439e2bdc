SPECIFICATION FairSpec
CONSTANTS
  Problems <- AllProblems
  BeamCap = 2
  FrontierNodes = 8
  MaxPareto = 8
CHECK_DEADLOCK FALSE
INVARIANTS
  TypeOK
  RouteSound
  ParetoCovered
  BestOfFound
PROPERTIES
  ComesToAnEnd
