SPECIFICATION Spec
CONSTANTS
  Capacity = 1
  QueueMax = 2
  AttemptTimeout = 2
  Backoff = 1
  MaxAttempts = 3
  CancelQueued = TRUE
  TotalTime = 8
  TickTime = 2
  ServiceTimes <- MCServiceTimes
  Gaps <- MCGaps
INVARIANTS
  OneRetryChain
  AttemptsBounded
  SlotsAccounted
  WorkConserving
  QueueConsistent
  TelemetryConserved
