\* Leases of one tick of dhcp_coarse_tmr, of a few, one whose T2 wraps, and without end.
CONSTANTS
  Attempts = 2
  Addresses = {"a1", "a2"}
  Leases = {60, 200, 700, 4799}
  MaxTries = 6
  TickLimit = 4
  Word = 4800
  MaxXid = 4
SPECIFICATION Spec
INVARIANT TypeOK
PROPERTIES RenewedInTime DhcpEnds
\* The transactions of the run are used up.
CHECK_DEADLOCK FALSE
