CONSTANTS
  Configs <- MCConfigs
  TimerPolls <- TwoTimerPolls
  Share = 1
  MaxIssued = 3
  MaxEpoch = 3
  Scopes = {s1, s2, s3}
  Watched = s1
  MaxScopes = 2
  MaxSessions = 2
  Horizon = 2
  HalfLives = 2
  MaxInFlight <- MCMaxInFlight
  MaxCost = 2
  StoreSetups <- MCStoreSetups
SPECIFICATION EnforcementSpec
INVARIANTS
  StoreIsOneIssue
  LimitsHold
PROPERTIES
  NothingRollsBack
  SentUnderLiveGrant
  PausedForGoodIsRefused
  HoldEnds
