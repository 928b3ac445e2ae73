CONSTANTS
  g1 = g1
  g2 = g2
  None = None
  Rangers <- TwoRangers
  MaxLoads = 3
  NCols = 2
  MaxFaults = 1
SPECIFICATION FairSpec
INVARIANTS
  OneServer
  OneAtATime
  NoOrphan
PROPERTY
  Answered
CHECK_DEADLOCK FALSE
