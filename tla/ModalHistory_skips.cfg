CONSTANTS
  m1 = m1
  m2 = m2
  m3 = m3
  p1 = p1
  p2 = p2
  Modals = {m1, m2}
  Paths = {p1, p2}
  Screen = Screen
  Moves <- Back
  MaxLength = 5
  MaxSteps = 2
SPECIFICATION Spec
PROPERTIES SkipsGoOn
CHECK_DEADLOCK FALSE
