SPECIFICATION FairSpec
CONSTANTS
  t1 = t1
  t2 = t2
  t3 = t3
  s1 = s1
  s2 = s2
  d1 = d1
  Tasks = {t1}
  Stoppers = {s1, d1}
  Destroyers = {d1}
PROPERTIES
  ShutdownCancelsQueued
CHECK_DEADLOCK FALSE
