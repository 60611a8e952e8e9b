SPECIFICATION AuditSpec
CONSTANTS
  q1 = q1
  Requests = {q1}
  ReqAttrs <- RelayAttrs
  Quotas = {0, 1, 2}
  InitWallet = 3
  InitToken = 3
  SubTotal = 2
  TrustQuota = 1
  CachedQuotas = {0, 2}
  MaxResets = 1
  RetryTimes = 0
  Wallet = Wallet
  Subscription = Subscription
  NoSource = NoSource
CHECK_DEADLOCK FALSE
INVARIANT NoChargeAgrees
