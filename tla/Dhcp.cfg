\* Leases of one tick of dhcp_coarse_tmr, of a few, at the limit, and without end.
CONSTANTS
  Attempts = 2
  Addresses = {"a1", "a2"}
  Leases = {60, 200, 600, 4799}
  MaxTries = 6
  TickLimit = 4
  Word = 4800
  MaxXid = 4
SPECIFICATION Spec
INVARIANTS AddressIsLeased LeaseEnds
PROPERTIES StaticStays RequestingEnds
\* The transactions of the run are used up.
CHECK_DEADLOCK FALSE
