CONSTANTS
  Jobs = {j1, j2}
  None = None
  Timeout = 3
  Slow = {j1}
  Pace = 1
SPECIFICATION Spec
INVARIANTS TypeOK LiveOwnerLooksAlive
PROPERTIES DoneStaysDone
CHECK_DEADLOCK FALSE
