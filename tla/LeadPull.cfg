\* One history request beside the incremental sweeps.
SPECIFICATION FairSpec
CONSTANTS
  Horizon = 4
  Overlap = 1
  Lookback = 1
  PageSize = 1
  MaxPages = 2
  SweepPages = 9
  AttemptCeiling = 2
  MaxDisturbances = 1
  Histories = {h1}
  Jobs = {j1, j2, j3}
  NoJob = NoJob
  NoHistory = NoHistory
  Idle = Idle
INVARIANTS
  PullTypeOK
  NoLeadIsLost
PROPERTIES
  HistoryCompletes
CHECK_DEADLOCK FALSE
