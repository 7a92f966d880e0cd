CONSTANTS
  Jobs = {j1, j2}
  None = None
  Timeout = 3
  Slow = {}
  Pace = 1
SPECIFICATION FairSpec
PROPERTIES OrphanIsTakenOver RecordIsRestored
CHECK_DEADLOCK FALSE
