SPECIFICATION Spec
CONSTANTS
  Orders = 2
  Asks <- MCAsks
  Services <- MCServices
  Threshold <- MCThreshold
  OpenTimeout <- MCOpenTimeout
  MaxClock = 3
INVARIANTS
  DemosTypeOK
  OrphanExplained
  ChargeExplained
  VerdictSound
PROPERTIES
  RestsAfterOpening
CHECK_DEADLOCK FALSE
