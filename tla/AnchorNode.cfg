CONSTANTS
  d1 = d1
  d2 = d2
  d3 = d3
  Device = {d1, d2, d3}
  MaxTable = 2
  FrameSize = 1
  Retries = 2
  QueueSize = 1
  MaxAdverts = 3
  MayReboot = TRUE
SPECIFICATION FairSpec
INVARIANTS TypeOK LossExplained
PROPERTY WindowsDelivered
