SPECIFICATION Spec
CONSTANTS
  StubAddr <- MCStubAddr
  StackTop <- MCStackTop
  TssAddr <- MCTssAddr
  Failing <- Vectors
  MaxFailures = 2
INVARIANTS TypeOK Delivered FrameIsContext OutputReady
PROPERTY BootCompletes
CHECK_DEADLOCK FALSE
