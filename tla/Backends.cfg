SPECIFICATION Spec
CONSTANTS
  Ranks = {r1, r2}
  Tags = {t1, t2}
  ThreadSends = 2
  MpiSends = 2
INVARIANTS
  MessagesAreConserved
PROPERTIES
  KeepsChannels
CHECK_DEADLOCK FALSE
