CONSTANTS
  N = 2
  ReadAhead = 2
  Threads = 2
  MaxFaults = 1
SPECIFICATION FairSpec
INVARIANTS
  StoresComplete
  EndsAlone
  GateHeld
PROPERTY
  Ends
CHECK_DEADLOCK FALSE
