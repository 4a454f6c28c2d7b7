SPECIFICATION FairSpec
CONSTANTS
  SW_FIFO = 2
  HW_FIFO = 3
  Watermark = 2
  MaxFrames = 7
  Ignored = {2}
PROPERTIES KeepsPromise NoneStuck
