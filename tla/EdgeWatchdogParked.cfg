SPECIFICATION WatchdogSpec
CONSTANTS
  Stale = 3
  BootGrace = 2
  Cooldown = 2
  BootTime = 1
  BeatEvery = 1
  MaxJumps = 0
  MaxCrashes = 0
PROPERTIES
  StaleMeansWedged
