SPECIFICATION FeedAndStoreSpec
CHECK_DEADLOCK FALSE
CONSTANTS
  j1 = j1
  j2 = j2
  j3 = j3
  acme = acme
  board = board
  u1 = u1
  u2 = u2
  MaxItems = 2
  MaxRounds = 1
  KeepUpdates = 1
  Feeds <- MCFeeds
  NoUrl = NoUrl
  Jobs <- MCJobs
  Companies <- MCCompanies
  Canons <- MCCanons
  CompanyOf <- MCCompanyOf
  CanonOf <- MCCanonOf
INVARIANTS
  Integrity
PROPERTIES
  DecisionsSurvive
  IdsAreNeverReused
  StopIsFinal
  StopEnds
