CONSTANTS
  c1 = c1
  c2 = c2
  d1 = d1
  d2 = d2
  f1 = f1
  f2 = f2
  f3 = f3
  Cells <- MCCells
  Kills <- MCKills
  Frags <- MCFrags
  Absent = Absent
  Faults = {"crash", "torn", "rmdir", "noop", "noStore", "noFragment", "corrupt"}
SPECIFICATION Spec
SYMMETRY FragSymmetry
CONSTRAINT TwoFaults
INVARIANTS
  TypeOK
  Recoverable
  ViewExact
  StoresAgree
