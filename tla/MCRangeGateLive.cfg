SPECIFICATION FairSpec
CONSTANTS
  Adds = {a1}
  Scans = {s1}
  Concurrency = 1
PROPERTIES
  UnloadEnds
  QueuedServed
CHECK_DEADLOCK FALSE
