CONSTANTS
  t1 = t1
  t2 = t2
  m1 = m1
  m2 = m2
  m3 = m3
  m0 = m0
  Threads = {t1, t2}
  Mutexes = {m1, m2, m3, m0}
  Kind <- MCKind
  Ceiling <- MCCeiling
  Base <- MCBase
  MinPrio = 1
  MaxPrio = 3
  MapMod = 3
  CountMod = 3
  Failing = {"calloc", "setscheduler"}
  Nobody = Nobody
SPECIFICATION Spec
INVARIANTS HolderIsOwner NoSleeperForgotten BooksRight PriorityRight
