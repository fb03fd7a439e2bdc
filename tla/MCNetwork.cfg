SPECIFICATION FairSpec
CONSTANTS
  InRange <- Chain
  Policy = "accept"
  InitialPlan <- MCPlan
  BundleTTL = 3
  Requests <- MCRequests
  QueueMax = 2
  BufCap = 140
  MaxRecords = 1
  CustodyTimeout = 2
  MaxClock = 6
  MaxIssued = 1
  LastIssue = 0
  MaxBoots = 2
  LastRestart = 1
PROPERTIES
  EndToEnd
  ComesToRest
