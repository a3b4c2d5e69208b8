\* One invoice, two credit notes, one allocation, two transactions at a time; or
\* one body posted by two requests that race each other, a worker,
\* reconfiguration and recovery.  Consumers and credit notes share their values, so
\* that the symmetry group stays small.
CONSTANTS
  invoice = i1
  Invoices = {i1}
  Credits = {k1, k2}
  Partials = {p1}
  Workers = {w1, w2}
  Target <- MCTarget
  Settles <- MCSettles
  Amounts <- MCAmounts
  MaxPostings <- MCPostings
  Idle = Idle
  None = None
  Jobs = {j1, j2}
  NoJob = NoJob
  Receivers = {r1}
  QueueRetries = 2
  AttemptCeiling = 2
  MaxDisturbances = 2
  Items = {item1}
  Consumers = {k1, k2}
SPECIFICATION MCSpec
INVARIANTS
  TypesOK BooksFollowDocuments LedgerAddsUp FanoutAllOrNothing
PROPERTIES
  LinkedCreditFits FanoutKeepsItsWord
SYMMETRY Interchangeable
