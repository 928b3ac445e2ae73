CONSTANTS
  u1 = u1
  u2 = u2
  s1 = s1
  r1 = r1
  Updates <- TwoUpdates
  Stored <- OneStored
  Upper <- BothUpper
  Scans <- OneScan
  Preload = 2
SPECIFICATION FairSpec
INVARIANTS
  BlockComplete
  ScanComplete
  OnceUnlessRaced
  ReadOnceUnlessSplit
PROPERTIES
  ScanAnswered
