\* The property is violated: a read of 0 bytes over a text that looks like a
\* PUBLISH.
SPECIFICATION Spec
CONSTANT MaxMessages = 1
PROPERTIES
  LossEnds
CHECK_DEADLOCK FALSE
