\* One disturbance; fewer pages.
SPECIFICATION MCFairSpec
CHECK_DEADLOCK FALSE
CONSTANTS
  Runs = {r1, r2}
  Workers = {w1, w2}
  Planners = {p1}
  Jobs = {j1, j2, j3}
  NoJob = NoJob
  Idle = Idle
  LastPage = 2
  PageLimit = 1
  Batch = 2
  AttemptCeiling = 2
  MaxDisturbances = 1
  DeferralCeiling = 1
  KeepsPartial = FALSE
  MayDuplicate = FALSE
PROPERTIES
  RunsEnd
