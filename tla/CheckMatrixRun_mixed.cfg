SPECIFICATION FairSpec
CONSTANTS
  m1 = m1
  m2 = m2
  k1 = k1
  c1 = c1
  c2 = c2
  Runs = {m1, m2}
  Cells = {c1, c2}
  CellOf <- TwoCells
  SourceOf <- Slowest
  CronRuns = {}
  Requesters = {q1}
  Cancellers = {x1}
  MaxTries = 0
  MaxSteps = 0
  NoRun = NoRun
CHECK_DEADLOCK FALSE
PROPERTIES
  
  EveryRunSettles
