SPECIFICATION Spec
CONSTANTS
  Dashboard = {d1, d2}
  Site = {s1}
  Console = {c1}
  Sid = {a, b}
  NoSid = NoSid
  MaxFaults = 1
  MaxActs = 3
CHECK_DEADLOCK FALSE
INVARIANTS TypeOK NotForcedOut
PROPERTIES NeverSwitched
