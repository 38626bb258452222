SPECIFICATION FairSpec
CONSTANTS
  c1 = c1
  c2 = c2
  c3 = c3
  unknown = unknown
  Chats = {c1, c2, c3}
  Unknown = unknown
  MaxTokens = 1
INVARIANTS
  OwnEventsInOrder
  CompleteDelivery
  NothingLeftListening
PROPERTIES
  EveryChatAnswered
  EveryConnectionAccepted
  ShutdownEnds
CHECK_DEADLOCK FALSE
