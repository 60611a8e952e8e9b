SPECIFICATION Spec
CONSTANTS
  q1 = q1
  q2 = q2
  Requests = {q1, q2}
  ReqAttrs <- MixedAttrs
  Quotas = {0, 1, 2}
  InitWallet = 3
  InitToken = 3
  SubTotal = 3
  TrustQuota = 1
  CachedQuotas = {0, 1, 3}
  MaxResets = 1
  RetryTimes = 0
  Wallet = Wallet
  Subscription = Subscription
  NoSource = NoSource
SYMMETRY RequestSymmetry
CHECK_DEADLOCK FALSE
INVARIANTS NoOverdraft TokenBooks FailedPaysNothing RelayedIsPaid SubscriptionBooks TokenFollowsFunding
PROPERTIES ImplementsLedger
