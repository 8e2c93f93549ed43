SPECIFICATION FairSpec
CONSTANTS
  t1 = t1
  t2 = t2
  d1 = d1
  w1 = w1
  w2 = w2
  p1 = p1
  p2 = p2
  t3 = t3
  Tasks = {t1, t2, t3}
  Concurrency = 1
  k1 = k1
  k2 = k2
  Ticks = {k1, k2}
  Documents = {d1}
  Watched = {d1}
  Works = {w1, w2}
  Parts = {p1, p2}
  Growing = {p1}
  MaxSize = 1
  NaN = NaN
  Nothing = Nothing
  Kinds = {"DatabaseLimit", "DatabaseCapture", "StorageCapture"}
  MaxFaults = 1
INVARIANTS ActiveBound SlotsAreUsed QueueBounded
PROPERTIES VerdictIsApplied LimitIsEnforced SizeIsCaptured
CHECK_DEADLOCK FALSE
