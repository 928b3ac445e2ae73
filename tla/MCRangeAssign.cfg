CONSTANTS
  r1 = r1
  r2 = r2
  g1 = g1
  g2 = g2
  c1 = c1
  c2 = c2
  None = None
  Meta <- TwoRanges
  Data <- NoRanges
  Rangers <- TwoRangers
  Calls <- TwoCalls
  Due = 2
  MaxFails = 1
  RangersRole = TRUE
  MaxFaults = 1
SPECIFICATION FairSpec
INVARIANTS
  NotForgotten
  LoadsCounted
PROPERTY Settles
