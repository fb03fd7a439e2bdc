SPECIFICATION Spec
CONSTANTS
  QueueMax = 4
  BufCap = 225
  MaxTime = 2
  Bundles <- MCBundles
INVARIANTS
  TypeOK
  LoadWithinCap
PROPERTIES
  StoreImplemented
  NoDeepInversion
