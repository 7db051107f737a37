CONSTANTS
  FifoSize = 3
  Left <- MCLeft
  Text <- MCText
SPECIFICATION UartSpec
INVARIANTS TextLegible
PROPERTIES TextSent
CHECK_DEADLOCK FALSE
