\* A configuration change while a fetch job is at the provider.
SPECIFICATION Spec
CONSTANTS
  Hints = {h1}
  Workers = {w1, w2}
  Pulls = {p1}
  Jobs = {j1, j2, j3}
  AttemptCeiling = 2
  MaxReleases = 0
  MaxEdits = 0
  MaxDisturbances = 1
  NoJob = NoJob
  Idle = Idle
  Free = Free
PROPERTIES
  AppliedUnderCurrentRoute
CHECK_DEADLOCK FALSE
