SPECIFICATION FairSpec
CONSTANTS
  NumTables = 2
  Limit <- LimitOne
  BeaconTables = {1}
  RefusedTables = {2}
  Retentions = {0}
  MaxLateness = 0
  SentryEnabled = TRUE
  BeaconEnabled = TRUE
  MaxId = 2
  MaxNow = 0
  MaxCrashes = 0
PROPERTIES
  EveryRowSent
