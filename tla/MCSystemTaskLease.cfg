SPECIFICATION FairSpec
CONSTANTS
  r1 = r1
  r2 = r2
  Runners = {r1, r2}
  MaxTasks = 2
  TTL = 1
  MaxClock = 4
  PassFaults = FALSE
  None = None
INVARIANTS RunningIsLeased
PROPERTIES LostLeaseEnds
