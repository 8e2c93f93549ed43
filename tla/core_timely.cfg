CONSTANTS
  w1 = w1
  w2 = w2
  r1 = r1
  Workers = {w1, w2}
  Requests = {r1}
  Free = Free
  Nobody = Nobody
  SlowHandlers = FALSE
  MaxFaults = 0
  HasDedicatedDatabase = TRUE
  StartTimesOut = FALSE
  NamespaceMode = "appid"
  UserKinds = {"CronTrigger"}
SYMMETRY Symmetry
SPECIFICATION Spec
INVARIANTS TypeOK HandlerExclusion StoppedIsDown RunningIsServed DeletedLeavesNothing
PROPERTY PhaseFollowsLifeCycle
CHECK_DEADLOCK FALSE
