SPECIFICATION Spec
CONSTANTS
  NConns = 2
  Room = 2
  Kinds = {"ext"}
  MaxFrames = 3
  MaxLost = 0
  MaxOpen = 2
  CommandAck = FALSE
  PowerOff = TRUE
  Split = TRUE
  Closes = TRUE
INVARIANTS SameSourceOrder EthOnce MissedIsResent
