CONSTANTS
  w1 = w1
  w2 = w2
  Workers = {w1, w2}
  Free = Free
  Nobody = Nobody
  SlowHandlers = TRUE
  MaxFaults = 1
SPECIFICATION FairSpec
INVARIANTS PhaseIsTrue NoOrphan
PROPERTIES ImplementsLifecycle DeleteIsServed RestartIsServed
CHECK_DEADLOCK FALSE
