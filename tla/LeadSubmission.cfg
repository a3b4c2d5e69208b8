\* Two callbacks, two workers, one pull page; one release and one edit.
SPECIFICATION FairSpec
CONSTANTS
  Hints = {h1, h2}
  Workers = {w1, w2}
  Pulls = {p1}
  Jobs = {j1, j2, j3}
  AttemptCeiling = 2
  MaxReleases = 1
  MaxEdits = 1
  MaxDisturbances = 2
  NoJob = NoJob
  Idle = Idle
  Free = Free
INVARIANTS
  LeadTypeOK
  OneStory
PROPERTIES
  QuarantineHolds
  LeadSettles
CHECK_DEADLOCK FALSE
