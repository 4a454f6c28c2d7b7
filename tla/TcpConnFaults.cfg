SPECIFICATION Spec
CONSTANTS
  NumServers = 1
  Clients = {a}
  Nobody = nobody
  Isns = {1, 2, 3, 4, 5, 6}
  TCP_MAX_RETRIES = 1
  TCP_MAX_SYN_RETRIES = 1
  TCP_MAX_UNACKED_KEEP_ALIVES = 1
  TCP_SYN_QUEUE_MAX_ENTRIES = 2
  MaxOpens = 2
  MaxFaults = 2
CHECK_DEADLOCK FALSE
INVARIANTS EstablishedIsAgreed
PROPERTIES HalfOpenEnds ClosingEnds WaitersAreServed
