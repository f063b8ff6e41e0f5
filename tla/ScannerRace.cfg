SPECIFICATION MCSpec
CONSTANTS
  j1 = j1
  j2 = j2
  j3 = j3
  acme = acme
  other = other
  board = board
  u1 = u1
  NoUrl = NoUrl
  NoJob = NoJob
  Jobs <- SharedJobs
  Filed <- None
  Companies <- TwoCompanies
  Canons <- MCCanons
  CompanyOf <- MCCompanyOf
  CanonOf <- MCCanonOf
  Boards <- MCBoards
  Workers = 2
  Queue = 1
  StatementsFail = FALSE
  MaxScans = 1
INVARIANT
  UrlsStayUnique
CHECK_DEADLOCK FALSE
