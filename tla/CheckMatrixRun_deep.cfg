SPECIFICATION Spec
CONSTANTS
  m1 = m1
  m2 = m2
  k1 = k1
  c1 = c1
  c2 = c2
  Runs = {m1, k1}
  Cells = {c1}
  CellOf <- OneCell
  SourceOf <- AllDeep
  CronRuns = {k1}
  Requesters = {q1}
  Cancellers = {x1}
  MaxTries = 1
  MaxSteps = 1
  NoRun = NoRun
CHECK_DEADLOCK FALSE
INVARIANTS
  TypeOK
  CancelSticks
  EarlyCancelNeverRuns
  
  VerdictIsLogged
 
