SPECIFICATION Spec
CONSTANTS
  MaxRequests = 2
  MaxChunks = 1
INVARIANTS
  HeaderFirst
CHECK_DEADLOCK FALSE
