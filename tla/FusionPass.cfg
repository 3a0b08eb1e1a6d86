SPECIFICATION Spec
CONSTANTS
  Graphs <- MCGraphs
  WorkingSet = 5
INVARIANTS
  RegionsAreComponents
  RegionsConvex
  SplitOnlyWhenTooLarge
