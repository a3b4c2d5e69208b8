\* A database failure first, then one failure of the consumer.
CONSTANTS
  Jobs = {j1, j2, j3}
  NoJob = NoJob
  QueueRetries = 2
  Workers = {w1}
  Clients = {c1}
  AttemptCeiling = 2
  MaxDisturbances = 2
  Outcomes <- MCOutcomes
  Final <- MCFinal
  Idle = Idle
  MayDuplicate = FALSE
  MaxMessages = 2
  Horizon = 1
  PageSize = 1
  MaxHistory = 2
  MaxTurns = 0
  Kinds = {"inbound"}
SPECIFICATION MCSpec
INVARIANT DeadOnlyAfterConsumerFailures
