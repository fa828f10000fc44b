CONSTANTS
  Threads = {t1, t2}
  Kinds = {"timed", "recursive", "errorcheck", "adaptive"}
  Pshared = {FALSE, TRUE}
  CountMod = 3
  MaxAdaptiveCount = 3
  SpinBase = 1
  SpinDivisor = 2
  MaxCalls = 2
  Nobody = Nobody
SPECIFICATION FairSpec
INVARIANTS HolderIsOwner UsersExact CountIsDepth ConflictsAccounted
PROPERTY SomebodyGetsIt
