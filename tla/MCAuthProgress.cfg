SPECIFICATION Spec
CONSTANTS
  Dashboard = {d1}
  Site = {s1}
  Console = {c1}
  Sid = {a, b}
  NoSid = NoSid
  MaxFaults = 1
  MaxActs = 3
CHECK_DEADLOCK FALSE
PROPERTIES RefreshEnds DeadSessionLeft ConsoleLeavesDeadSession
