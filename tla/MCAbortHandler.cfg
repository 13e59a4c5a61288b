\* Nobody else sends SIGABRT.
CONSTANTS
  MaxSent = 0
  MaxCalls = 1
SPECIFICATION Spec
INVARIANTS
  CallerCatchesAbort
CHECK_DEADLOCK FALSE
