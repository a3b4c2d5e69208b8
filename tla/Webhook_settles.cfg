\* A dispatch or a delivery with a request or cron run, a worker and every
\* disturbance; or a Page that a worker subscribes, with one change of the
\* configuration and one failure.
CONSTANTS
  Jobs = {j1, j2, j3}
  NoJob = NoJob
  QueueRetries = 2
  Workers = {w1}
  Clients = {c1}
  AttemptCeiling = 2
  MaxDisturbances = 2
  Outcomes <- MCOutcomes
  Final <- MCFinal
  Idle = Idle
  MayDuplicate = FALSE
  Items = {i1}
  Consumers = {k1}
  Pages = {p1}
  Objects = {page}
  Names = {n1}
  PageObject = page
  ReconcileJobs = {r1, r2}
  Reconcilers = {s1}
  MaxVersion = 1
  MaxTroubles = 1
SPECIFICATION MCFairSpec
PROPERTIES LedgersSettle Converges
