SPECIFICATION Spec
CONSTANTS
  Cells <- MCCells
  Prefix <- MCPrefix
  Plain = {}
  ActionAt <- MCActionAt
  Seeds = 1
  Slots <- MCSlots
  Grace = 0
  Patience = 1
  MaxRuns = 2
INVARIANTS
  ChaosRunTypeOK
  OkMeansResults
  LabelsRight
PROPERTIES
  ImplementsBoard
CHECK_DEADLOCK FALSE
