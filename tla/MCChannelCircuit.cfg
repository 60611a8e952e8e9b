SPECIFICATION FairSpec
CONSTANTS
  Request = {r1, r2}
  Instance = {i1}
  Redis = Redis
  RedisEnabled = TRUE
  Threshold = 2
  FailureCooldown = 3
  RateLimitCooldown = 2
  ProbeTimeout = 3
  Lag = 1
CHECK_DEADLOCK FALSE
PROPERTIES ProbesSpaced Recovers
