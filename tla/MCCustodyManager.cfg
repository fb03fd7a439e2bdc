SPECIFICATION FairSpec
CONSTANTS
  MaxRecords = 3
  CustodyTimeout = 2
  MaxTime = 4
  Bundles <- MCBundles
INVARIANTS
  TypeOK
  UniqueIds
  SweptBehind
PROPERTIES
  TableImplemented
  SweepEnds
