SPECIFICATION Spec
CONSTANTS
  NumTables = 2
  Limit <- LimitTwoOne
  BeaconTables = {1}
  RefusedTables = {}
  Retentions = {0}
  MaxLateness = 1
  SentryEnabled = FALSE
  BeaconEnabled = TRUE
  MaxId = 2
  MaxNow = 1
  MaxCrashes = 1
INVARIANTS
  TypeOK
  SentReachedCloud
  PerTableFifo
  DrainedMeansDrained
  NoNeedlessReupload
PROPERTIES
  ImplementsStoreForward
