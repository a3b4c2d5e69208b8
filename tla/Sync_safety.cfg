\* A run, its successor and the race for the scope; workers run twice.
SPECIFICATION MCSpec
CHECK_DEADLOCK FALSE
CONSTANTS
  Runs = {r1, r2}
  Workers = {w1, w2}
  Planners = {p1, p2}
  Jobs = {j1, j2, j3}
  NoJob = NoJob
  Idle = Idle
  LastPage = 3
  PageLimit = 3
  Batch = 2
  AttemptCeiling = 1
  MaxDisturbances = 2
  DeferralCeiling = 1
  KeepsPartial = TRUE
  MayDuplicate = TRUE
SYMMETRY Symmetric
INVARIANTS
  SyncTypeOK
  CompleteSweep
  ChainHolds
PROPERTIES
  AppliedUnderPlan
  ImplementsSweep
