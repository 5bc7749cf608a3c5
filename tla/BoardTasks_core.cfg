\* The property is violated: netif functions are called without the core lock.
SPECIFICATION Spec
CONSTANTS
  MboxSize = 1
  RecvSize = 1
INVARIANTS
  CoreExclusive
CHECK_DEADLOCK FALSE
