SPECIFICATION Spec
CONSTANTS
  MaxPackets = 2
  MaxRecords = 2
PROPERTIES
  OutboundInOrder
  InboundInOrder
  ClosingEnds
\* The program ends.
CHECK_DEADLOCK FALSE
