CONSTANTS
  MaxThreads = 5
  MaxAliveThreads = 3
  MaxThreadLevels = 6
  None = None
SPECIFICATION Spec
INVARIANT LevelsWithinArray
