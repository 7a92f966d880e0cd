SPECIFICATION Spec
CONSTANTS
  t1 = t1
  t2 = t2
  t3 = t3
  Tasks = {t1, t2, t3}
  Limits = {0, 1, 2}
  Hold = 2
  MaxWait = 2
  TaskLimit = 1
SYMMETRY Symmetry
INVARIANTS
  TypeOK
  HoldersAreCounted
  LimitHolds
PROPERTY LeaksDoNotStarve
