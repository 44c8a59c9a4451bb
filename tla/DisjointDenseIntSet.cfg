SPECIFICATION Spec
CONSTANTS
  MaxId = 4
  Void = Void
  Thrown = Thrown
  Yes = Yes
  No = No
INVARIANTS
  TypeOK
PROPERTIES
  KeepsPartition
