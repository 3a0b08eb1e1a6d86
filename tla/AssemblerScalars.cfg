CONSTANTS
  Graphs <- MCGraphs
  Problems <- MCProblems
  InputValues <- MCInputValues
  NoProgram = NoProgram
  Depth = 1
SPECIFICATION Spec
INVARIANT ScalarsApplied
