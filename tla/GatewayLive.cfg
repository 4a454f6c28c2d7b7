SPECIFICATION FairSpec
CONSTANTS
  NConns = 2
  Room = 1
  Kinds = {"query", "command", "status"}
  MaxFrames = 2
  MaxLost = 1
  MaxOpen = 2
  CommandAck = TRUE
  PowerOff = FALSE
  Split = FALSE
  Closes = FALSE
INVARIANTS NotReportedTwice
PROPERTIES RelayedToAll
