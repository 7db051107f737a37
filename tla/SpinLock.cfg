CONSTANTS
  CPUs = {c1, c2, c3}
  Modulus = 3
  None = None
SPECIFICATION Spec
INVARIANTS TypeOK MutualExclusion HandOver
PROPERTIES Progress ImplementsMutex
