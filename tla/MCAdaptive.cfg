SPECIFICATION Spec
CONSTANTS
  r1 = r1
  r2 = r2
  d1 = d1
  d2 = d2
  d3 = d3
  Requests <- MCRequests
  Downstreams <- MCDownstreams
  Buckets = 2
  MaxTime = 3
  Default <- MCDefault
  MinRequests = 0
  P90s <- MCP90s
  Interval = 1
  GossipStale = 2
  MaxResets = 1
SYMMETRY MCSymmetry
INVARIANTS
  AdaptiveTypeOK
  SnapshotExact
  QueueDepthWithin
PROPERTIES
  OnlyOpenBreakersTighten
  CrushedLimitStays
CHECK_DEADLOCK FALSE
