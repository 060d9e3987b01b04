CONSTANTS
  Versions = {1, 2}
  None = None
  ContentOf <- MCContentOf
  Requests = {q1, q2}
  Pages = {"semantic", "hybrid", "ask"}
  Texts = {t1, t2}
  Clients = {None, c1}
  CacheMax = 1
  EmbedRetries = 1
  MaxRetries = 1
  PerClientLimit = 1
  GlobalLimit = 1
  FailOpen = FALSE
  LexicalFusion = TRUE
  CandidateLimit = 3
  ResultLimit = 2
  MinimumSimilarity = 71
  RrfK = 60
  LastDay = 2
  RetentionDays = 0
SYMMETRY Interchangeable
SPECIFICATION Spec
INVARIANTS OneReleasePerPage AnswersWithinLimits CacheBounded
CHECK_DEADLOCK FALSE
