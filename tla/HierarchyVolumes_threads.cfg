SPECIFICATION SpecVolumes
CONSTANTS
  NLeaf = 3
  Cells <- VolumeCells
  Dem <- VolumeDem
  Pit <- VolumePit
  NO_VALUE = 100
  INF = 50
  OutletSets <- VolumeOutletSets
  Threads = {"t1", "t2"}
  ShareOf <- HalfEach
  NAN = NAN
INVARIANTS
  VolumesTypeOK
  VolumesAreWater
CHECK_DEADLOCK FALSE
