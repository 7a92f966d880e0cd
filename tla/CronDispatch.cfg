SPECIFICATION Spec
CONSTANTS
  d1 = d1
  d2 = d2
  Dispatchers = {d1, d2}
  Crons <- TwoCrons
  Window = 2
  MaxSends = 2
  MaxTime = 5
SYMMETRY Symmetry
CHECK_DEADLOCK FALSE
INVARIANTS
  TypeOK
  OncePerFire
  NoFireIsSkipped
  FiresAfterEdit
PROPERTIES
  OnlyResendsRepeat
  KeepsLedger
