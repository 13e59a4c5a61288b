\* Two keys: one may end the command and another one meet its caller.
CONSTANT MaxInterrupts = 2
SPECIFICATION Spec
INVARIANTS
  StatusIsTheCommands
  SignalsAsTheCallerHadThem
PROPERTIES
  CallerOutlivesCommand
  CallsReturn
\* main() returns.
CHECK_DEADLOCK FALSE
