SPECIFICATION FairSpec
CONSTANTS
  Full = 4
  Trip = 1
  Recover = 2
  Margin = 2
  Fast = 1
  Idle = 3
  Samples = 2
  QueueMax = 1
  Busy = 1
INVARIANTS TypeOK TripInTime
PROPERTIES PoweroffExplained SensorComesBack
