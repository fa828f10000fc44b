CONSTANTS
  Threads = {t1, t2}
  Sites = {a, b}
  MaxNumStacks = 2
  Unset = Unset
SYMMETRY Symmetry
SPECIFICATION Spec
INVARIANT NoContextLost
