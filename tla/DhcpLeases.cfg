SPECIFICATION Spec
CONSTANTS
  Servers = {a, b}
  None = none
  Lease = 5
  LeaseCounted = 2
  LeaseDefault = 1
  Unstated = {b}
  MaxLate = 1
  MAX_UDP_SOCKETS = 2
  MaxFaults = 2
INVARIANTS BoundIsLeased OneSocket
PROPERTIES StaysBound
