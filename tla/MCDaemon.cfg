\* Two launches, so that one meets the lock of the other.
CONSTANTS
  p1 = p1
  p2 = p2
  Proc <- MCProc
  MaxSignals <- MCSignals
SPECIFICATION Spec
INVARIANTS SingleDaemon LockFileNamesHolder
PROPERTIES StartupSettles DeathsExplained TermStops
CHECK_DEADLOCK FALSE
