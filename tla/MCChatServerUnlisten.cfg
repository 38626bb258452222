SPECIFICATION Spec
CONSTANTS
  c1 = c1
  c2 = c2
  c3 = c3
  unknown = unknown
  Chats = {c1, c2}
  Unknown = unknown
  MaxTokens = 1
SYMMETRY Symmetry
INVARIANTS
  UnlistensItself
CHECK_DEADLOCK FALSE
