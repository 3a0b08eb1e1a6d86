SPECIFICATION MemorySpec
CONSTANTS
  SurfaceLists <- MCSurfaceLists
  Granule = 2
  BankCount = 2
  WorkingSetBytes = 6
  SurfaceCount = 3
  LastTask = 2
  ByteLengths = {0, 3, 4}
INVARIANTS
  NoLiveOverlap
  LowestFit
  VerdictExact
PROPERTY
  PlanningEnds
