SPECIFICATION FairSpec
CONSTANTS
  Servers = 1
  IdleTime = 2
  HBEATS_INTERVAL = 2
  IdleTimeout = TRUE
INVARIANTS ServersKept
PROPERTIES ClosedForOwnSilence SilentIsClosed BridgeComesBack
