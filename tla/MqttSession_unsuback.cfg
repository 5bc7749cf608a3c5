\* The property is violated: another packet is taken for the UNSUBACK.
SPECIFICATION Spec
CONSTANT MaxMessages = 1
INVARIANTS
  UnsubackAwaited
CHECK_DEADLOCK FALSE
