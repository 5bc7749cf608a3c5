\* The property is violated: a lease that ends between two reads of one poll.
CONSTANTS
  Attempts = 1
  Addresses = {"a1"}
  Leases = {60}
  MaxTries = 6
  TickLimit = 4
  Word = 4800
  MaxXid = 4
SPECIFICATION Spec
INVARIANT GatewayKnown
CHECK_DEADLOCK FALSE
