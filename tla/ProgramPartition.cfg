SPECIFICATION Spec
CONSTANTS
  Problems <- MCProblems
  MaxInputs = 2
  WorkingSet = 3
  MaxUInt = 7
  NoLimit = NoLimit
  TaskLimit = 4
INVARIANTS
  Tiling
  EveryUseExposed
  ComposedWithinLimits
  LongestPrefix
  RecordsExact
