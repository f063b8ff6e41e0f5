SPECIFICATION MCSpec
CONSTANTS
  j1 = j1
  j2 = j2
  j3 = j3
  acme = acme
  other = other
  board = board
  u1 = u1
  NoUrl = NoUrl
  NoJob = NoJob
  Jobs <- TwoJobs
  Filed <- TheFirst
  Companies <- OneCompany
  Canons <- MCCanons
  CompanyOf <- MCCompanyOf
  CanonOf <- MCCanonOf
  Boards <- MCBoards
  Workers = 2
  Queue = 0
  StatementsFail = TRUE
  MaxScans = 2
INVARIANTS
  NoStragglers
  FoundAddsUp
PROPERTY
  ScanEnds
  FinalStateStays
CHECK_DEADLOCK FALSE
