SPECIFICATION Spec
CONSTANTS
  Width = 3
  Values = {1, 2}
  MaxSize = 3
  Void = Void
INVARIANTS
  HeapIsSound
PROPERTIES
  QueueOrder
