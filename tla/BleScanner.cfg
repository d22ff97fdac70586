SPECIFICATION FairSpec
CONSTANTS
  SentryEnabled = TRUE
  SaverEnabled = TRUE
  ResetEnabled = TRUE
  Post = 2
  PostDischarging = 3
  PostLow = 4
  Duration = 2
  DurationSaving = 1
  SuspendPoll = 1
  BackoffCap = 2
  Jitter = 1
  CooldownThreshold = 2
  MaxAttempts = 3
  ResetInterval = 10
  RestartAfter = 21
  ResetTimeout = 1
  RestartDelay = 1
  MaxKills = 1
INVARIANTS
  ExitInTime
PROPERTIES
  ExitsJustified
  ResetsSpaced
  WedgedIsFreed
