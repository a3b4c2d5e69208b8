\* Two transactions per part, three where a third changes the order.  The parts
\* share model values, so that the symmetry group stays small.
CONSTANTS
  Handlers = {t1, t2}
  Borrowers = {b1}
  EventKeys = {k1}
  Digests = {x, y}
  Purposes = {"ads"}
  Days = {1}
  RateLimit = 1
  Window = 1
  Keep = 1
  MaxClock = 2
  MaxRequests = 3
  MaxRevision = 2
  Hands = {t1, t2}
  IntentJobs = {x, y}
  Visits = {v1}
  MaxAttempts = 2
  Posts = {t1, t2, t3}
  FormData = {x, y}
  MaxPosts = 3
  Clickers = {t1, t2, t3}
  ClickEvents = {x, y}
  Handoffs = {h1, h2}
  MaxAliases = 3
  MaxClicks = 4
  Writers = {t1, t2}
  Clicks = {x, y}
  Messages = {m1, m2}
  CandidateLimit = 2
  ConversationLinks = {1, 2}
  Businesses = {x, y}
  Batch = 1
  MaxTurns = 3
  Bearers = {t1, t2}
  Presses = {x, y}
  Lifetime = 1
  GrantRetention = 0
  MaxTokens = 2
  MaxTime = 2
  MaxSettings = 2
SPECIFICATION MCSpec
INVARIANTS
  TypesOK
  IngressKeepsFaith
  FormsKeepFaith
  ClicksAndClaims
  JourneyConverges
PROPERTIES
  ErasedIsFinal
SYMMETRY Interchangeable
CHECK_DEADLOCK FALSE
