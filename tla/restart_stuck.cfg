CONSTANTS
  w1 = w1
  w2 = w2
  r1 = r1
  Workers = {w1}
  Requests = {r1}
  Free = Free
  Nobody = Nobody
  SlowHandlers = FALSE
  MaxFaults = 0
  HasDedicatedDatabase = FALSE
  StartTimesOut = FALSE
  NamespaceMode = "appid"
  UserKinds = {}
SPECIFICATION FairSpec
PROPERTY RestartIsServed
CHECK_DEADLOCK FALSE
