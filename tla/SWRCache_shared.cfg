CONSTANTS
  p1 = p1
  p2 = p2
  Procs = {p1, p2}
  Readers = {r1, r2}
  Home <- AllInOne
  Keys = {k1}
  Fresh = 0
  Stale = 1
  MaxEntries = 1
  RemoteTtl = 2
  LoadLimit = 0
  MaxWrites = 2
  None = None
SPECIFICATION Spec
INVARIANTS TypeOK SingleFlight
PROPERTIES BumpedWritesAreSeen RecoversByTtl
CHECK_DEADLOCK FALSE
SYMMETRY ReaderSymmetry
