SPECIFICATION FairSpec
CONSTANTS
  Net = {n1, n2}
  AP = AP
  None = None
  Grace = 1
INVARIANTS
  HotspotFlagTrue
PROPERTIES
  OfflineShowsHotspot
  RejoinsSavedNetwork
