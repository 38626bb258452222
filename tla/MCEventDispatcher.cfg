SPECIFICATION FairSpec
CONSTANTS
  worker = worker
  io = io
  g1 = g1
  g2 = g2
  c1 = c1
  c2 = c2
  token = token
  completed = completed
  Threads = {worker, io}
  Groups = {g1, g2}
  Callbacks = {c1, c2}
  Events = {token, completed}
  MaxDispatches = 2
  MaxUnlistens = 2
INVARIANTS
  TypeOK
  CountMatches
PROPERTIES
  SnapshotDelivered
  CallsReturn
CHECK_DEADLOCK FALSE
