SPECIFICATION Spec
CONSTANTS
  Requests <- MCRequests
  MaxTime = 3
INVARIANTS
  HandlesReleased
  ReportGated
  LateWork
