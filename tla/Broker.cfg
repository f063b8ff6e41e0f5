SPECIFICATION FairSpec
CONSTANTS
  s1 = s1
  s2 = s2
  i1 = i1
  i2 = i2
  p1 = p1
  NoStream = NoStream
  Streams <- MCStreams
  Ids <- MCIds
  Producers <- MCProducers
  MaxEvents = 2
  Capacity = 2
INVARIANTS
  NoSendOnClosed
  SendersOrderIsKept
  CloseMissesOnlyOverwritten
PROPERTY
  StreamsEnd
CHECK_DEADLOCK FALSE
