CONSTANTS
  Threads = {t1, t2, t3}
  Mutexes = {m1, m2}
  Kinds <- MCKinds
  CountMod = 3
  MaxCalls = 5
  MaxDeaths = 2
  Nobody = Nobody
  NULL = NULL
SYMMETRY Symmetry
CONSTRAINT Promised
SPECIFICATION Spec
INVARIANTS HoldersExclude NoOrphan LossTold ListRight
CHECK_DEADLOCK FALSE
