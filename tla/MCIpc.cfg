\* Each program runs twice: what a run leaves behind meets a later one.
CONSTANT MaxRuns = 2
SPECIFICATION Spec
INVARIANTS
  CriticalAlone
  UsesTheOthers
  CrashExplained
PROPERTIES
  SecondReturns
\* The programs end, or wait for one that is not started again.
CHECK_DEADLOCK FALSE
