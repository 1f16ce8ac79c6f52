SPECIFICATION Spec
CONSTANTS
  c1 = c1
  c2 = c2
  c3 = c3
  Calls <- MCCalls
  Threshold = 2
  Window = 3
  Probe = 2
  RequestTimeout = 1
  Stale = 2
  MaxTime = 6
SYMMETRY MCSymmetry
PROPERTIES
  ProbesPeriodically
