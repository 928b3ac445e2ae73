CONSTANTS
  u1 = u1
  k1 = k1
  k2 = k2
  t1 = t1
  Updates <- OneUpdate
  Tasks <- TwoTasks
  Triers <- OneTrier
  Sem = 2
CHECK_DEADLOCK FALSE
SPECIFICATION FairSpec
INVARIANTS
  TypeOK
  OneCommitter
  FinalizeComplete
  UnloadedQuiet
  NotStranded
PROPERTIES
  UnloadEnds
  FinalizeEnds
