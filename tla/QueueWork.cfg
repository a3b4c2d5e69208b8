\* A dispatch with duplicates of its job and one requester, or a conversation of
\* two messages, each of them live or history, and two
\* changes of the capture policy; two workers or transactions at a time.
CONSTANTS
  Jobs = {j1, j2, j3}
  NoJob = NoJob
  QueueRetries = 2
  Workers = {w1, w2}
  Clients = {c1}
  AttemptCeiling = 2
  MaxDisturbances = 3
  Outcomes <- MCOutcomes
  Final <- MCFinal
  Idle = Idle
  MayDuplicate = TRUE
  MaxMessages = 2
  Horizon = 1
  PageSize = 1
  MaxHistory = 2
  MaxTurns = 2
  Kinds = {"inbound", "agent"}
SPECIFICATION MCSpec
INVARIANTS
  DispatchTypeOK ClaimIsExclusive EffectOnce
  EpisodesFollowTimeline FrontierSound
PROPERTIES
  PolicyHoldsAtCommit ImplementsPromise
SYMMETRY Interchangeable
