CONSTANTS
  Threads <- MCThreads
  Records <- MCRecords
  Adaptive = {1}
  StacksOf <- MCStacksOf
  Exiters = {0}
  LineOf <- MCLineOf
  NotFound = "?"
  CpuFreq = 1
  MinElapsed = 1
  UIntMod = 128
  LowMod = 2
  BootCycles = 1
  SpinCounts = {9}
  HighWords = {0, 1, 2}
  MaxLocks = 3
  MaxTime = 2
  MaxCond = 1
SPECIFICATION Spec
INVARIANTS CountsCredible QuadrantsRight WaitsReported AsymmetricRight
