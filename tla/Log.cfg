SPECIFICATION Spec
CONSTANTS
  Bodies <- MCBodies
  MaxCalls = 3
INVARIANTS TypeOK LinesComplete CrBeforeLf ConsoleNotReentered
PROPERTY Returns
CHECK_DEADLOCK FALSE
