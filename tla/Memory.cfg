SPECIFICATION Spec
CONSTANTS
  Size = 9
  WordSize = 4
  Contents <- MCContents
  Functions = {"memcpy", "memmove", "memset", "memclr", "strncpy", "strncmp"}
INVARIANTS TypeOK Written SourceAhead OrdersStrings
CHECK_DEADLOCK FALSE
