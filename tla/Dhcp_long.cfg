\* The property is violated: the counts of a long lease are all the largest one.
CONSTANTS
  Attempts = 1
  Addresses = {"a1"}
  Leases = {600}
  MaxTries = 6
  TickLimit = 4
  Word = 4800
  MaxXid = 4
SPECIFICATION Spec
PROPERTY AllRenewedInTime
CHECK_DEADLOCK FALSE
