SPECIFICATION FairSpec
CONSTANTS
  Place = {0, 1, 2, 4}
  Radius = 3
  MinTrack = 3
  Hold = 1
  Keepalive = 1
  Nowhere = Nowhere
INVARIANTS TrailReachesStop
PROPERTIES StillStaysPinned StopIsSeen
