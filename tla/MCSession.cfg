SPECIFICATION FairSpec
CONSTANTS
  MaxRequests = 3
  MaxChunks = 2
INVARIANTS
  AtMostOneWrite
  WireInOrder
  ReadsOnlyWhenQuiet
PROPERTIES
  StreamEnds
CHECK_DEADLOCK FALSE
