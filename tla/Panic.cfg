CONSTANTS
  Pieces = 3
  MaxNested = 3
  NoReport = NoReport
SPECIFICATION Spec
INVARIANTS TypeOK PageFaultOnce
PROPERTIES ImplementsOneReport FailureSettles
CHECK_DEADLOCK FALSE
