SPECIFICATION BarrierSpec
CONSTANTS
  ThreadRanks = {r1, r2, r3, r4}
  MaxEpochs = 3
INVARIANTS
  TypeOK
  CounterMatchesWaiting
  NobodyPassesEarly
PROPERTIES
  KeepsBarrier
CHECK_DEADLOCK FALSE
