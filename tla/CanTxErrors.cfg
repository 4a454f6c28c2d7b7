SPECIFICATION Spec
CONSTANTS
  SW_FIFO = 2
  LARB_RETRIES = 2
  MaxFrames = 4
  Errors = {"larb", "buserr", "other"}
  RxIdx = {0}
VIEW WithoutMark
INVARIANTS QueueExact LoadedOnce PutInBounds NoOrphan PendingIsTimed
PROPERTIES PendingKept OvertakeOnlyAfterFailure
