SPECIFICATION Spec
CONSTANTS
  r1 = r1
  r2 = r2
  Runners = {r1, r2}
  MaxTasks = 2
  TTL = 1
  MaxClock = 4
  PassFaults = TRUE
  None = None
SYMMETRY RunnerSymmetry
INVARIANTS OneExecutor ActiveKeyTracksStatus
PROPERTIES TerminalIsFinal LiveLockKept
