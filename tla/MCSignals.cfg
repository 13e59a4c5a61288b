\* Three signals from others: one before, one in and one after a wait or a handler.
\* Two calls of a sleep function: what a call leaves behind meets a later one.
CONSTANTS
  MaxSent = 3
  MaxCalls = 2
SPECIFICATION Spec
INVARIANTS
  JumpIsValid
  NeverPastFirstKill
  HandlerBack
PROPERTIES
  EveryWaitEnds
  HandlersOnlyInSuspend
\* The programs end, or wait for ever.
CHECK_DEADLOCK FALSE
