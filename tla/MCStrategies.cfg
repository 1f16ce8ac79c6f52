SPECIFICATION Spec
CONSTANTS
  c1 = c1
  c2 = c2
  Calls <- MCCalls
  Configs <- MCConfigs
  Default <- Generous
  MaxTime = 1
  MaxGenerations = 2
INVARIANTS
  StrategyTypeOK
  PermitsAccounted
  NoFetchBegunWhileOpen
  ClosedBelowThreshold
  AttemptsBounded
  ParamsInForce
PROPERTIES
  OpenUntilTimeout
  EveryCallReturns
  ImplementsPipeline
CHECK_DEADLOCK FALSE
