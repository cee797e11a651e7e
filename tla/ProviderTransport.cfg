\* Two processes over one raw root; two responses, two attempts each fetch.
CONSTANTS
  FreshSeconds = 1
  StaleSeconds = 2
  FutureTolerance = 0
  MinimumBooks = 2
  p1 = p1
  p2 = p2
  page = page
  query = query
  NoProc = NoProc
  NoRequest = NoRequest
  Procs <- TwoProcs
  Pages <- OnePage
  Queries <- OneQuery
  MaxAttempts = 2
  Interval = 2
  MaxCaptures = 2
SPECIFICATION ProvidersSpec
INVARIANTS
  CacheIsBacked
  GamesAreToldApart
  OddsDecisionsAgree
PROPERTIES
  RequestsAreSpaced
  EvidenceIsWriteOnce
  FetchEnds
CHECK_DEADLOCK FALSE
