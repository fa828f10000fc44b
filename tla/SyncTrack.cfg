CONSTANTS
  Threads = {0, 1, 2}
  total_threads = 2
  Sites = {a, b}
  Listed = {a}
  Insts <- MCInsts
  MaxLocks = 2
  MaxInsts = 1
SPECIFICATION Spec
INVARIANTS SharedIsShared ReportComplete ReportNeverOver SectionsCounted
CHECK_DEADLOCK FALSE
