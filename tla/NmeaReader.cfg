SPECIFICATION ReaderFairSpec
CONSTANTS
  TalkSets = {{"RMC", "GGA"}, {"GSA", "GLL"}}
  QueueMax = 2
  MaxBroken = 2
INVARIANTS ReaderTypeOK InOrder
PROPERTIES LostFixStops ReaderRecovers
