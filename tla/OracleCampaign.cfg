CONSTANTS
  Runs <- MCRuns
  Starts <- MCStarts
  MaxKills = 1
SPECIFICATION Spec
INVARIANTS ExitZeroComplete SummaryExact
PROPERTIES RecordsKept RootsRemoved
