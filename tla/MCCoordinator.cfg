SPECIFICATION Spec
CONSTANTS
  s1 = s1
  s2 = s2
  None = None
  Services <- MCServices
  Seeds = 2
  Profiles <- MCProfiles
  Load = 3
  Slack = 1
  HealthTimeout = 1
  BroadcastTimeout = 3
  FaultTimeout = 1
  CollectTimeout = 1
  Settle = 2
  Period = 2
  PollTimeout = 1
  ControlTimeout = 1
  Central = TRUE
  KillTimes = {0, 2, 3}
INVARIANTS
  FaultsOfOwnSeed
  LastsUntilRecovery
  KillReported
  KillIsFinal
PROPERTIES
  ParamsMoveForward
  CellEnds
CHECK_DEADLOCK FALSE
