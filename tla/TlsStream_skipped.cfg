\* The property is violated: Main terminated before the flush of a record.
SPECIFICATION Spec
CONSTANTS
  MaxPackets = 1
  MaxRecords = 1
INVARIANT OkMeansSent
\* The program ends.
CHECK_DEADLOCK FALSE
