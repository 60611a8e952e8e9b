SPECIFICATION FairAuditSpec
CONSTANTS
  q1 = q1
  Requests = {q1}
  ReqAttrs <- AllAttrs
  Quotas = {0, 1, 2}
  InitWallet = 3
  InitToken = 3
  SubTotal = 2
  TrustQuota = 1
  CachedQuotas = {0, 2}
  MaxResets = 1
  RetryTimes = 1
  Wallet = Wallet
  Subscription = Subscription
  NoSource = NoSource
CHECK_DEADLOCK FALSE
INVARIANTS SettledAgrees RefundedAgrees
PROPERTIES ClosedStays ChargeSurfaces
