\* The pool may come to rest with every call returned.
SPECIFICATION FairSpec
CONSTANTS
  Fetches = {f1, f2, f3}
  Tabs = {t1, t2}
  Idle = Idle
  Queue = 1
INVARIANTS
  EveryJobIsInOnePlace
  NothingIsLeftBehind
PROPERTIES
  LateAnswersFreeTheTab
  CloseReturns
CHECK_DEADLOCK FALSE
