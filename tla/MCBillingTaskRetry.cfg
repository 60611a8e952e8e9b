SPECIFICATION Spec
CONSTANTS
  q1 = q1
  q2 = q2
  Requests = {q1}
  ReqAttrs <- TaskAttrs
  Quotas = {0, 1, 2}
  InitWallet = 3
  InitToken = 3
  SubTotal = 2
  TrustQuota = 0
  CachedQuotas = {0, 2}
  MaxResets = 0
  RetryTimes = 1
  Wallet = Wallet
  Subscription = Subscription
  NoSource = NoSource
CHECK_DEADLOCK FALSE
INVARIANTS RelayedIsPaid
