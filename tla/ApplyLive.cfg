SPECIFICATION FairSpec
CONSTANTS
  j1 = j1
  j2 = j2
  board = board
  u1 = u1
  u2 = u2
  NoUrl = NoUrl
  NoJob = NoJob
  Companies <- MCCompanies
  Canons <- MCCanons
  CompanyOf <- MCCompanyOf
  CanonOf <- MCCanonOf
  Aggregators <- MCAggregators
  Jobs <- OneJob
  Requests = {r1, r2}
  MaxCrashes = 1
PROPERTIES
  RunEnds
  StaleEntriesAreDrained
