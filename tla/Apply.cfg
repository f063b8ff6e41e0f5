SPECIFICATION Spec
CONSTANTS
  j1 = j1
  j2 = j2
  board = board
  u1 = u1
  u2 = u2
  NoUrl = NoUrl
  NoJob = NoJob
  Companies <- MCCompanies
  Canons <- MCCanons
  CompanyOf <- MCCompanyOf
  CanonOf <- MCCanonOf
  Aggregators <- MCAggregators
  Jobs <- TwoJobs
  Requests = {r1, r2}
  MaxCrashes = 1
SYMMETRY Symmetry
INVARIANTS
  SingleRun
  AppliedMatchesConfirmed
  StatusFollowsRun
PROPERTY
  QueueExitsAreJustified
