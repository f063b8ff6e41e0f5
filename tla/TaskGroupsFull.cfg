\* Every worker runs a source, and the queue holds one task.
SPECIFICATION FairGroupsSpec
CONSTANTS
  Sources = {a, b}
  Strict = {a}
  Anchors = 2
  JobLinks <- AllButTheFirst
  Workers = 2
  Queue = 1
PROPERTY
  TimeoutIsSupported
CHECK_DEADLOCK FALSE
