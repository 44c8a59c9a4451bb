SPECIFICATION Spec
CONSTANTS
  Width = 5
  Height = 2
  Diagonals = TRUE
  NO_DEP = 100
  BOUNDARY = 99
  NO_FLOW = NO_FLOW
  NO_VALUE = 1000
  INF = 50
  Heights = {1, 2, 3}
  Ridge = 4
  Caps = {2, 5}
  Bounds <- WideFirst
  Inputs <- MCInputs
INVARIANTS
  TieGoesToLowerCell
CHECK_DEADLOCK FALSE
