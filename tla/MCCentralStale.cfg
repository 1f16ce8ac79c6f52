SPECIFICATION Spec
CONSTANTS
  c1 = c1
  c2 = c2
  Calls <- MCCalls
  Configs <- MCConfigs
  Default <- Generous
  MaxTime = 1
  MaxGenerations = 2
INVARIANT
  ControlReachesPipeline
CHECK_DEADLOCK FALSE
