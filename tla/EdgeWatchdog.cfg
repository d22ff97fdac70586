SPECIFICATION WatchdogFairSpec
CONSTANTS
  Stale = 4
  BootGrace = 2
  Cooldown = 3
  BootTime = 1
  BeatEvery = 1
  MaxJumps = 1
  MaxCrashes = 1
INVARIANTS
  WatchdogTypeOK
PROPERTIES
  RestartsSpaced
  BootingNotRestarted
  WedgedEdgeRestarted
