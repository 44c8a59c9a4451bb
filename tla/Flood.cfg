SPECIFICATION Spec
CONSTANTS
  Width = 3
  Height = 2
  Diagonals = TRUE
  NO_DEP = 100
  BOUNDARY = 99
  NO_FLOW = NO_FLOW
  Corner = {0, 1, 2}
  Heights = {0, 1, 2}
  Shores = {"corner", "ends", "tile", "touching", "none", "all", "bad"}
  Inputs <- MCInputs
INVARIANTS
  TypeOK
  QueueIsMonotone
  FlowReachesPit
  EndsAsFunction
  OutletsCarryPasses
  PitFlatsAreWhole
PROPERTIES
  Terminates
CHECK_DEADLOCK FALSE
