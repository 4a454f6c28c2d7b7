SPECIFICATION FairSpec
CONSTANTS
  SW_FIFO = 2
  LARB_RETRIES = 1
  MaxFrames = 4
  Errors = {"other"}
  RxIdx = {0}
PROPERTIES SendAlwaysReturns
