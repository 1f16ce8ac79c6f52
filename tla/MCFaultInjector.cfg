SPECIFICATION Spec
CONSTANTS
  h1 = h1
  h2 = h2
  h3 = h3
  p1 = p1
  p2 = p2
  None = None
  Handlers <- MCHandlers
  Peers <- MCPeers
  RampSteps = 2
SYMMETRY MCSymmetry
INVARIANTS
  RulesAccounted
  RampHeld
CHECK_DEADLOCK FALSE
