SPECIFICATION FairSpec
CONSTANTS
  PromptLens = {1, 3}
  MaxTokens = 4
  MaxContext = 5
  Rows <- MCRows
  TopKs = {0, 1, 2, 4}
  StopSets <- MCStopSets
INVARIANTS
  TypeOK
  GraphFitsBatch
  AttentionSeesPast
  OutcomeMatchesEvents
  FiguresOfThisRun
PROPERTIES
  ImplementsRunProtocol
  TopKHonoured
  RunEnds
CHECK_DEADLOCK FALSE
