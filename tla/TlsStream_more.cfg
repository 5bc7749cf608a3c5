SPECIFICATION Spec
CONSTANTS
  MaxPackets = 2
  MaxRecords = 2
INVARIANTS
  TypeOK
  NothingRejected
  OneWriteSkipped
PROPERTY WritesArrive
\* The program ends.
CHECK_DEADLOCK FALSE
