\* All four programs, started with SIGUSR1 blocked or not.  The processes exit.
SPECIFICATION TurnsSpec
INVARIANTS
  WaitsForTheTell
PROPERTIES
  HandlerOnlyInSuspend
  LocksRefused
  BothExit
CHECK_DEADLOCK FALSE
