CONSTANTS
  Graphs <- MCDriverGraphs
  Problems <- MCDriverProblems
  InputValues <- MCInputValues
  NoProgram = NoProgram
  Depth = 2
  Commands <- MCCommands
  Earlier <- MCEarlier
  Lengths = {3, 4}
  MaxFaults = 2
SPECIFICATION DriverSpec
INVARIANTS EveryStageOnce AssembledBundleLoads InterfaceIsGraphs StoredWhole ExitTold
