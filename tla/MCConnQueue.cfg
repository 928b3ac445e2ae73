CONSTANTS
  r1 = r1
  r2 = r2
  Reqs <- TwoReqs
  MaxConns = 2
  MaxTries = 1
  MaxId = 4
SPECIFICATION Spec
INVARIANTS
  OnePlace
  OwnResponse
  NotLeft
CHECK_DEADLOCK FALSE
