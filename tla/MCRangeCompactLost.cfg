CONSTANTS
  N = 2
  ReadAhead = 2
  Threads = 2
  MaxFaults = 0
SPECIFICATION Spec
INVARIANT
  BlocksKept
CHECK_DEADLOCK FALSE
