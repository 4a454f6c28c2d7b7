SPECIFICATION StreamSpec
CONSTANTS
  TxSize = 4
  RxSize = 4
  RemoteMSS = 2
  WordSize = 16
  MaxPut = 2
  TCP_MAX_RETRIES = 1
  TCP_MAX_UNACKED_KEEP_ALIVES = 1
  MaxBytes = 4
  MaxLost = 1
  MaxDup = 1
  MaxSwap = 2
  MaxTight = 1
  MaxEarly = 1
  MaxFaults = 2
CHECK_DEADLOCK FALSE
INVARIANTS EndsAgree GivenUpForLosses
PROPERTIES KeepsPromise EventuallyArrives
