SPECIFICATION Spec
CONSTANTS
  Width = 6
  Height = 3
  Diagonals = TRUE
  Bounds <- MCBounds
  INF = 100
  NO_FLOW = NO_FLOW
  Heights = {1, 2}
  Ends = {0, 1, 2}
  Walls = {1, 2}
  Inputs <- MCInputs
INVARIANTS
  FlatsDrainAsOneGrid
  RoundsAreShared
CHECK_DEADLOCK FALSE
