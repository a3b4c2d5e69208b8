\* Two transactions per part.  The parts share model values, so that the symmetry
\* group stays small.
CONSTANTS
  Leads = {1, 2, 3}
  Credited = {c}
  Authorities = {c}
  Writers = {t1, t2}
  MaxAssertions = 3
  PageSize = 1
  MaxTracking = 4
  MaxPages = 3
  Touchpoints = {x, y}
  Workers = {t1, t2}
  MaxTurns = 4
  ConversationLinks = {1, 2}
  Evidence = {1, 2}
  Businesses = {x, y}
  LinksPerJob = 1
  Converters = {t1, t2}
  MaxChanges = 4
  Accounts = {1, 2}
  Lookers = {t1, t2}
  EmptyRetries = 1
  Deferrals = 1
  MaxLookupTurns = 3
  OrderLeads = {c}
  MaxTracked = 5
  Submissions = {x, y}
  Intakes = {c}
  MaxAdmissionTurns = 3
  Clicks = {1, 2, 3, 4}
  MaxNamed = 3
  Unit = 10
  MaxRevisions = 1
  Contents = {"told", "enriched", "conflicts"}
  Connected = {1, 2}
  Resolvers = {t1, t2}
  MaxVersions = 3
  MaxResolveTurns = 5
  Prospects = {1, 2}
  Senders = {t1, t2}
  MaxIncidents = 3
SPECIFICATION MCSpec
INVARIANTS
  TypesOK
  
  EventsCountOnce
  ClassificationSettles
  LookupKeepsWord
  AdmissionKeepsWord
SYMMETRY Interchangeable
CHECK_DEADLOCK FALSE
