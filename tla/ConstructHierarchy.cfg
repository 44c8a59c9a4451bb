SPECIFICATION Spec
CONSTANTS
  NLeaf = 4
  Cells <- MCCells
  Dem <- MCDem
  Pit <- MCPit
  NO_VALUE = 100
  INF = 50
  OutletSets <- MCOutletSets
INVARIANTS
  TypeOK
  RepresentativesAreOpen
  SetsAreComponents
  ForestIsWhole
  OceanWalk
  LabelsAreBounded
  SpillsAreLowest
PROPERTIES
  SpillIsFinal
CHECK_DEADLOCK FALSE
