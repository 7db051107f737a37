CONSTANTS
  Pieces = 3
  MaxNested = 2
  NoReport = NoReport
SPECIFICATION Spec
PROPERTIES NestedIsReported
CHECK_DEADLOCK FALSE
