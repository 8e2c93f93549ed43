CONSTANTS
  w1 = w1
  w2 = w2
  r1 = r1
  Workers = {w1}
  Requests = {r1}
  Free = Free
  Nobody = Nobody
  SlowHandlers = FALSE
  MaxFaults = 1
  HasDedicatedDatabase = TRUE
  StartTimesOut = TRUE
  NamespaceMode = "appid"
  UserKinds = {}
SPECIFICATION FairSpec
PROPERTIES StopIsServed DeleteIsServed
INVARIANT CreatedIsComplete
CHECK_DEADLOCK FALSE
