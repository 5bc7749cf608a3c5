\* The property is violated: a refusal leaves the timers of the old lease running.
CONSTANTS
  Attempts = 1
  Addresses = {"a1"}
  Leases = {300}
  MaxTries = 6
  TickLimit = 8
  Word = 4800
  MaxXid = 4
SPECIFICATION Spec
INVARIANT SuppliedMeansAddress
CHECK_DEADLOCK FALSE
