CONSTANTS
  m1 = m1
  m2 = m2
  m3 = m3
  p1 = p1
  p2 = p2
  Modals = {m1, m2, m3}
  Paths = {p1, p2}
  Screen = Screen
  Moves <- Both
  MaxLength = 6
  MaxSteps = 3
SPECIFICATION Spec
INVARIANTS OpenModalsAreListed CurrentRecordIsNotStale
PROPERTIES PopstateClosesNobody
CHECK_DEADLOCK FALSE
