SPECIFICATION Spec
CONSTANTS
  Adds = {a1, a2}
  Scans = {s1}
  Concurrency = 1
SYMMETRY Symmetry
INVARIANTS
  TypeOK
  ApplyAlone
  WorkersBounded
  AddNotStranded
  ScanNotStranded
  AckedKept
  UnloadAlone
CHECK_DEADLOCK FALSE
