CONSTANTS
  c1 = c1
  c2 = c2
  d1 = d1
  d2 = d2
  f1 = f1
  f2 = f2
  f3 = f3
  Cells <- PairCells
  Kills <- PairKills
  Frags <- MCFrags
  Absent = Absent
  Faults = {"crash"}
SPECIFICATION Spec
SYMMETRY FragSymmetry
PROPERTY ImplementsRangeData
