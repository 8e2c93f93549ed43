SPECIFICATION Spec
CONSTANTS
  i1 = i1
  i2 = i2
  n1 = n1
  n2 = n2
  c1 = c1
  c2 = c2
  q1 = q1
  q2 = q2
  k1 = k1
  k2 = k2
  Ids = {i1, i2}
  Names = {n1, n2}
  Codes = {c1, c2}
  None = None
  Requests = {q1, q2}
  Taken = n1
  Copy = n2
  MaxFunctions = 2
  BinLimit = 2
  Library = n1
  Importers = {n2}
  Reads = {k1, k2}
  Bounds <- AllBounds
INVARIANTS NothingLost Agreement CacheAgrees ModulesAreCurrent
CHECK_DEADLOCK FALSE
SYMMETRY Symmetry
