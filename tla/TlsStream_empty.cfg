\* The property is violated: Main terminated inside of a read.
SPECIFICATION Spec
CONSTANTS
  MaxPackets = 1
  MaxRecords = 1
INVARIANT EmptyReadAtEnd
\* The program ends.
CHECK_DEADLOCK FALSE
