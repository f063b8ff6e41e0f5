SPECIFICATION PartsSpec
CONSTANTS
  Submitters = {s1, s2}
  Waiters = {t1}
  PoolWorkers = {w1, w2}
  PoolQueue = 1
  PoolClosers = {k1, k2}
  NoJob = NoJob
  MaxFailures = 2
  HalfOpenLimit = 2
  OpenTimeout = 1
  FailureBound = 4
  Limit = 2
  Interval = 3
  WaitCallers = {a, b}
  WindowBound = 8
  RetryMax = 3
  GoodWords = {g1, g2}
  Threshold = 40
  WordBound = 4
  Streams = {st1, st2}
  Pages = {pg1, pg2}
  Sources = {acme, board, other}
  ScanWorkers = 2
CHECK_DEADLOCK FALSE
INVARIANTS
  NoTaskOutlivesItsServices
  CloseIsGraceful
  CountersAddUp
  RateIsBounded
  OnlyTheAnswerIsOpen
  DeadlinesAreReported
PROPERTIES
  
  ImplementsBreaker
  WordsCountTheRightWay
