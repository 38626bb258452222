SPECIFICATION Spec
CONSTANTS
  IntLimit = 64
  Files <- MCFiles
  Content <- MCContent
  Bases = {12288}
  Batches = {1, 3}
  MaxLoads = 3
INVARIANTS
  InStep
  TensorsInPlace
  NoDanglingTensors
  CleanupOnReturn
  AnswersFromFile
  GraphFitsModel
PROPERTIES
  FailedLoadKeepsModel
CHECK_DEADLOCK FALSE
