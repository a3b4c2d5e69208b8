\* No history request; one error is enough.
SPECIFICATION Spec
CONSTANTS
  Horizon = 3
  Overlap = 1
  Lookback = 9
  PageSize = 1
  MaxPages = 2
  SweepPages = 9
  AttemptCeiling = 2
  MaxDisturbances = 1
  Histories = {}
  Jobs = {j1, j2}
  NoJob = NoJob
  NoHistory = NoHistory
  Idle = Idle
INVARIANTS
  CursorHistoryValid
CHECK_DEADLOCK FALSE
