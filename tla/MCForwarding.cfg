SPECIFICATION Spec
CONSTANTS
  Self = 2
  Relays = {4}
  Policy = "accept"
  InitialPlan <- MCPlan
  BundleTTL = 2
  Requests <- MCRequests
  Incoming <- ReusedIncoming
  SyncTimes = {1}
  MaxClock = 2
  MaxIssued = 1
  LastIssue = 0
  MaxBoots = 2
  LastRestart = 0
  MaxOffset = 1
  QueueMax = 2
  BufCap = 140
  MaxRecords = 1
  CustodyTimeout = 2
INVARIANTS
  TypeOK
  CustodySound
  NotOverbooked
  QueueRoutable
PROPERTIES
  OnlySendsAndExpiriesLeave
  SendsInWindow
  TraceAccountsForCustody
