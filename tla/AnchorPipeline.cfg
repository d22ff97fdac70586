CONSTANTS
  a1 = a1
  gw = gw
  Anchor = {a1}
  Gateway = gw
  Nothing = Nothing
  Allowlist = {a1}
  NoFile = NoFile
  Unreadable = Unreadable
  Files <- MCFiles
  Refresh = 2
  QueueMax = 2
  MaxFrames = 2
  MaxTransit = 1
  MaxEdits = 1
  MaxCrashes = 1
SPECIFICATION Spec
INVARIANTS TypeOK AttributionExplained
PROPERTIES StoredInOrder QuarantineRespected
