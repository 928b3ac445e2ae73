CONSTANTS
  g1 = g1
  g2 = g2
  None = None
  Rangers <- TwoRangers
  MaxLoads = 3
  NCols = 2
  MaxFaults = 1
SPECIFICATION Spec
INVARIANT
  OneResponsible
CHECK_DEADLOCK FALSE
