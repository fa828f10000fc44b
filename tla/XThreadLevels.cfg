CONSTANTS
  MaxThreads = 5
  MaxAliveThreads = 4
  MaxThreadLevels = 16
  None = None
SPECIFICATION Spec
INVARIANTS NeverUndercounts LevelsRight
