SPECIFICATION FairSpec
CONSTANTS
  MotionFresh = 2
  IdleTimeout = 1
  Grace = 1
  MaxFailures = 2
  FlagErrors = {"set"}
  MaxCrashes = 1
INVARIANTS
  SuspendedOnlyAsleep
PROPERTIES
  ResumesOnActivity
  ResumesOnLink
  ActiveUnparks
