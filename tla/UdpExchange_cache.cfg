\* The property is violated: an ARP packet between the two calls and the send.
CONSTANTS
  MaxExchanges = 2
  MaxPending = 2
SPECIFICATION Spec
INVARIANT SocketsWork
CHECK_DEADLOCK FALSE
