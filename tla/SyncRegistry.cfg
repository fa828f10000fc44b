CONSTANTS
  Mutexes = {m1, m2}
  MaxThreads = 2
  MaxSyncEntries = 3
  CountMod = 2
  MaxLocks = 2
  NULL = NULL
SYMMETRY Symmetry
SPECIFICATION Spec
INVARIANTS OneEntryPerMutex SameRecord LockFindsRecord CountsConserved
  ReportExact AssertOnlyMidCreate
PROPERTY RecordForLife
