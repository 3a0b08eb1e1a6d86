SPECIFICATION Spec
CONSTANTS
  Problems <- MCProblems
INVARIANTS
  EveryNodeOnce
  DependenciesComplete
  LifetimesCoverReads
