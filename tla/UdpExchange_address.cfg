\* The property is violated: an answer that does not end in an address.
CONSTANTS
  MaxExchanges = 1
  MaxPending = 2
SPECIFICATION Spec
INVARIANT AddressFromRecord
CHECK_DEADLOCK FALSE
