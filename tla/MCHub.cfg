CONSTANTS
  Clients = {c1, c2}
  BufferSize = 2
  MaxRevision = 4
SPECIFICATION FairSpec
INVARIANTS
  TypeOK
  NeverPanics
  StreamGapFree
PROPERTIES
  LossEndsConnection
  SentOrEnded
  FeedSpec
CHECK_DEADLOCK FALSE
