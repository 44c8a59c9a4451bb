SPECIFICATION Spec
CONSTANTS
  Width = 4
  Height = 1
  Diagonals = FALSE
  NO_DEP = 100
  BOUNDARY = 99
  NO_FLOW = NO_FLOW
  Corner = {0}
  Heights = {1}
  Shores = {"corner"}
  Inputs <- MCInputs
INVARIANTS
  FlatsAreWhole
CHECK_DEADLOCK FALSE
