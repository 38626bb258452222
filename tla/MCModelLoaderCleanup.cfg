SPECIFICATION Spec
CONSTANTS
  IntLimit = 64
  Files <- MCFiles
  Content <- MCContent
  Bases = {12288}
  Batches = {1}
  MaxLoads = 1
INVARIANTS
  CleanupOnScopeExit
CHECK_DEADLOCK FALSE
