CONSTANTS
  Threads = {t1, t2}
  Kinds = {"timed", "recursive"}
  Pshared = {FALSE, TRUE}
  CountMod = 3
  MaxAdaptiveCount = 3
  SpinBase = 1
  SpinDivisor = 2
  MaxCalls = 2
  Nobody = Nobody
SYMMETRY Symmetry
SPECIFICATION Spec
INVARIANT LockNeverInvalid
