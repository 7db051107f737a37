SPECIFICATION PrintfSpec
CONSTANTS
  Values <- MCValues
  Nibbles = 3
  B = 14
  SizeMax = 1023
  Room = 12
  Extent = 16
  Directives <- MCDirectives
  Requests <- MCRequests
  Calls <- MCCalls
INVARIANTS Bounded Prints
CHECK_DEADLOCK FALSE
