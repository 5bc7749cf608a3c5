CONSTANTS
  MaxExchanges = 2
  MaxPending = 2
SPECIFICATION Spec
INVARIANT TypeOK
PROPERTY PendingEnds
\* The start-up is over.
CHECK_DEADLOCK FALSE
