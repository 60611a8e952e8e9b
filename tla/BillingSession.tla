--------------------------- MODULE BillingSession ---------------------------
(***************************************************************************)
(* Pre-charge, settlement and refund of relay requests                     *)
(* (service/billing_session.go, funding_source.go, billing.go) over the    *)
(* rows they share: the wallet of one user, one API token of that user and *)
(* one subscription.                                                       *)
(*                                                                         *)
(* Requests run concurrently, each owning one billing session at a time.   *)
(* Relay serves synchronous requests, RelayTask submits asynchronous tasks *)
(* (RelayTaskSubmit) and may retry a failed submission.                    *)
(* An SQL statement or transaction is one step; between two steps of a     *)
(* session any other request may run, and the process may die.  A database *)
(* statement may fail.  Redis is only read: the user and token quotas a    *)
(* request sees before it charges may be any value.                        *)
(***************************************************************************)
EXTENDS Integers, FiniteSets, Functions

CONSTANTS
  Requests,      \* concurrent requests of the user
  ReqAttrs,      \* the kinds of requests considered
  Quotas,        \* estimated and actual costs a request may have
  InitWallet,    \* users.quota at the start
  InitToken,     \* tokens.remain_quota at the start
  SubTotal,      \* user_subscriptions.amount_total; 0 is unlimited
  TrustQuota,    \* common.GetTrustQuota(); 0 disables the bypass
  CachedQuotas,  \* values GetUserQuota may read from Redis
  MaxResets,     \* bound: quota resets of the subscription
  RetryTimes,    \* common.RetryTimes: further attempts of a task submission
  Wallet, Subscription, NoSource

Prefs == {"subscription_only", "wallet_only", "wallet_first", "subscription_first"}

\* quota: the estimate; force: RelayInfo.ForcePreConsume; task: served by
\* RelayTask, which sets ForcePreConsume.
ReqAttr ==
  {r \in [pref : Prefs, quota : Quotas, playground : BOOLEAN, force : BOOLEAN, task : BOOLEAN] :
     r.task => r.force}

ASSUME RequestsAssumption == IsFiniteSet(Requests)
ASSUME QuotasAssumption == Quotas \subseteq Nat /\ CachedQuotas \subseteq Int
ASSUME ReqAssumption == ReqAttrs \subseteq ReqAttr
ASSUME AmountsAssumption ==
  /\ InitWallet \in Nat /\ InitToken \in Nat /\ SubTotal \in Nat
  /\ TrustQuota \in Nat /\ MaxResets \in Nat /\ RetryTimes \in Nat
ASSUME SourcesAssumption == Wallet # Subscription /\ Wallet # NoSource /\ Subscription # NoSource

VARIABLES
  wallet,         \* users.quota
  token,          \* tokens.remain_quota
  unlimited,      \* tokens.unlimited_quota
  used,           \* user_subscriptions.amount_used
  subActive,      \* user_subscriptions.status = active and not past its end
  subRecord,      \* subscription_pre_consume_records.status by request
  resets,         \* resets of the subscription so far
  at,             \* request -> the statement it is about to execute
  req,            \* request -> its fixed attributes
  source,         \* BillingSession.funding
  pre,            \* BillingSession.preConsumedQuota (the amount being taken)
  consumed,       \* WalletFunding.consumed, SubscriptionFunding.preConsumed
  tokenConsumed,  \* BillingSession.tokenConsumed
  flags,          \* fundingSettled, settled, refunded; opened: the pre-charge was accepted
  errs,           \* errors of the last phase, only logged or reported
  arg,            \* actualQuota of the Settle call
  leak,           \* token quota a failed rollback left taken
  retries,        \* attempts after the first
  dead            \* requests whose process died

books == <<wallet, token, unlimited, used, subActive, subRecord, resets>>
session == <<source, pre, consumed, tokenConsumed, flags, errs, arg, leak, retries>>
vars == <<books, at, req, session, dead>>

At == {"start", "tryWallet", "trySub", "token", "fund", "rollback", "overflow", "sync",
       "open", "settleFund", "settleToken", "refundFund", "refundToken", "closed",
       "failed", "denied", "refused"}

Flag == {"fundingSettled", "settled", "refunded", "opened"}
Failure == {"fundRefund", "tokenRefund", "tokenSettle"}

Init ==
  /\ wallet = InitWallet /\ token = InitToken /\ unlimited \in BOOLEAN
  /\ used = 0 /\ subActive \in BOOLEAN /\ resets = 0
  /\ subRecord = [s \in Requests |-> "none"]
  /\ at = [s \in Requests |-> "start"]
  /\ req \in [Requests -> ReqAttrs]
  /\ source = [s \in Requests |-> NoSource]
  /\ pre = [s \in Requests |-> 0]
  /\ consumed = [s \in Requests |-> 0]
  /\ tokenConsumed = [s \in Requests |-> 0]
  /\ flags = [s \in Requests |-> {}]
  /\ errs = [s \in Requests |-> {}]
  /\ arg = [s \in Requests |-> 0]
  /\ leak = [s \in Requests |-> 0]
  /\ retries = [s \in Requests |-> 0]
  /\ dead = {}

-----------------------------------------------------------------------------
(* Shared helpers                                                          *)

Goto(s, to) == at' = [at EXCEPT ![s] = to]
Flagged(s, f) == f \in flags[s]
Raise(s, f) == flags' = [flags EXCEPT ![s] = @ \cup {f}]
Fails(s, e) == errs' = [errs EXCEPT ![s] = @ \cup {e}]

\* UPDATE users SET quota = quota - n WHERE quota >= n
DecreaseUserQuota(n) == wallet >= n /\ wallet' = wallet - n
IncreaseUserQuota(n) == wallet' = wallet + n

\* UPDATE tokens ... WHERE unlimited_quota OR remain_quota >= n
DecreaseTokenQuota(n) == (unlimited \/ token >= n) /\ token' = token - n
IncreaseTokenQuota(n) == token' = token + n

\* The amount used after a delta: never below 0.
UsedAfter(delta) == IF used + delta < 0 THEN 0 ELSE used + delta

\* The transaction of postConsumeUserSubscriptionDeltaTx; it does not look at
\* the subscription's status.
PostConsumeUserSubscriptionDelta(delta) ==
  /\ SubTotal = 0 \/ UsedAfter(delta) <= SubTotal
  /\ used' = UsedAfter(delta)

\* Mutant: the amount asked for is left out of the comparison.
SubHasAnyRoom(n) == subActive /\ (SubTotal = 0 \/ used < SubTotal)

SubHasRoom(n) == subActive /\ (SubTotal = 0 \/ used + n <= SubTotal)

-----------------------------------------------------------------------------
(* Opening a session: NewBillingSession and preConsume                     *)

\* The funding source is chosen from the user's preference; subscription_first
\* reads whether there is an active subscription, and that read may fail.
NewBillingSession(s) ==
  /\ at[s] = "start"
  /\ \/ Goto(s, IF \/ req[s].pref = "subscription_only"
                   \/ req[s].pref = "subscription_first" /\ subActive
                  THEN "trySub" ELSE "tryWallet")
     \/ req[s].pref = "subscription_first" /\ Goto(s, "denied")
  /\ UNCHANGED <<books, req, session, dead>>

\* shouldTrust: q is the wallet quota read from the cache, and the token quota
\* stored by the authentication middleware may be any value.
shouldTrust(s, q) ==
  /\ ~req[s].force
  /\ TrustQuota > 0
  /\ q > TrustQuota

NewSession(s, src, n) ==
  /\ source' = [source EXCEPT ![s] = src]
  /\ pre' = [pre EXCEPT ![s] = n]
  /\ UNCHANGED <<consumed, tokenConsumed, flags, errs, arg, leak, retries>>

\* tryWallet: GetUserQuota, its checks, and the trust bypass.
TryWalletOpens(s, q, trusted) ==
  LET n == IF trusted THEN 0 ELSE req[s].quota IN
  /\ q > 0 /\ q >= req[s].quota
  /\ trusted => shouldTrust(s, q)
  /\ shouldTrust(s, q) /\ unlimited => trusted
  /\ NewSession(s, Wallet, n)
  /\ Goto(s, IF n > 0 THEN "token" ELSE "fund")

\* Not enough quota, or the read failed; wallet_first goes on to the
\* subscription in the first case only.
TryWalletRefuses(s) ==
  /\ \/ /\ \E q \in CachedQuotas : q <= 0 \/ q < req[s].quota
        /\ Goto(s, IF req[s].pref = "wallet_first" THEN "trySub" ELSE "denied")
     \/ Goto(s, "denied")
  /\ UNCHANGED session

TryWallet(s) ==
  /\ at[s] = "tryWallet"
  /\ \/ \E q \in CachedQuotas, trusted \in BOOLEAN : TryWalletOpens(s, q, trusted)
     \/ TryWalletRefuses(s)
  /\ UNCHANGED <<books, req, dead>>

\* trySubscription charges at least 1, so that a record is created.
TrySubscription(s) ==
  /\ at[s] = "trySub"
  /\ NewSession(s, Subscription, IF req[s].quota > 0 THEN req[s].quota ELSE 1)
  /\ Goto(s, "token")
  /\ UNCHANGED <<books, req, dead>>

\* Mutant: the token pays the estimate and not the amount the funding pays.
PreConsumeEstimate(s) ==
  /\ at[s] = "token"
  /\ DecreaseTokenQuota(req[s].quota)
  /\ tokenConsumed' = [tokenConsumed EXCEPT ![s] = req[s].quota]
  /\ Goto(s, "fund")
  /\ UNCHANGED <<wallet, unlimited, used, subActive, subRecord, resets, req, source, pre,
                 consumed, flags, errs, arg, leak, retries, dead>>

\* Mutant: a playground request, which has no token, records no pre-charge.
PreConsumeSkipsPlayground(s) ==
  /\ at[s] = "token"
  /\ IF req[s].playground
       THEN UNCHANGED <<token, tokenConsumed>>
       ELSE /\ DecreaseTokenQuota(pre[s])
            /\ tokenConsumed' = [tokenConsumed EXCEPT ![s] = pre[s]]
  /\ Goto(s, "fund")
  /\ UNCHANGED <<wallet, unlimited, used, subActive, subRecord, resets, req, source, pre,
                 consumed, flags, errs, arg, leak, retries, dead>>

\* The token is charged first; a stale cached token, a short row or a failing
\* statement ends the request with nothing taken.
PreConsumeTokenQuota(s) ==
  /\ at[s] = "token"
  /\ \/ /\ IF req[s].playground THEN UNCHANGED token ELSE DecreaseTokenQuota(pre[s])
        /\ tokenConsumed' = [tokenConsumed EXCEPT ![s] = pre[s]]
        /\ Goto(s, "fund")
     \/ /\ ~req[s].playground
        /\ Goto(s, "denied")
        /\ UNCHANGED <<token, tokenConsumed>>
  /\ UNCHANGED <<wallet, unlimited, used, subActive, subRecord, resets, req, source, pre,
                 consumed, flags, errs, arg, leak, retries, dead>>

\* Mutant: the error of the decrement is ignored.
WalletPreConsumeIgnoresError(s) ==
  /\ at[s] = "fund" /\ source[s] = Wallet
  /\ \/ /\ IF pre[s] > 0 THEN DecreaseUserQuota(pre[s]) ELSE UNCHANGED wallet
        /\ consumed' = [consumed EXCEPT ![s] = pre[s]]
     \/ pre[s] > 0 /\ UNCHANGED <<wallet, consumed>>
  /\ Goto(s, "sync")
  /\ UNCHANGED <<token, unlimited, used, subActive, subRecord, resets, req, source, pre,
                 tokenConsumed, flags, errs, arg, leak, retries, dead>>

\* WalletFunding.PreConsume
WalletPreConsume(s) ==
  /\ at[s] = "fund" /\ source[s] = Wallet
  /\ \/ /\ IF pre[s] > 0 THEN DecreaseUserQuota(pre[s]) ELSE UNCHANGED wallet
        /\ consumed' = [consumed EXCEPT ![s] = pre[s]]
        /\ Goto(s, "sync")
     \/ /\ pre[s] > 0
        /\ Goto(s, "rollback")
        /\ UNCHANGED <<wallet, consumed>>
  /\ UNCHANGED <<token, unlimited, used, subActive, subRecord, resets, req, source, pre,
                 tokenConsumed, flags, errs, arg, leak, retries, dead>>

\* SubscriptionFunding.PreConsume: one transaction writes the record and the
\* amount used.  A lack of quota may overflow to the wallet, an error not.
SubscriptionPreConsume(s) ==
  /\ at[s] = "fund" /\ source[s] = Subscription
  /\ \/ /\ SubHasRoom(pre[s])
        /\ used' = used + pre[s]
        /\ subRecord' = [subRecord EXCEPT ![s] = "consumed"]
        /\ consumed' = [consumed EXCEPT ![s] = pre[s]]
        /\ Goto(s, "sync")
     \/ /\ \/ ~SubHasRoom(pre[s]) /\ Goto(s, "overflow")
           \/ Goto(s, "rollback")
        /\ UNCHANGED <<used, subRecord, consumed>>
  /\ UNCHANGED <<wallet, token, unlimited, subActive, resets, req, source, pre,
                 tokenConsumed, flags, errs, arg, leak, retries, dead>>

\* preConsume gives the token quota back; a failure is only logged.  A
\* subscription_first request may then fall back to the wallet, if its
\* subscriptions allow it.
RollbackToken(s) ==
  /\ at[s] \in {"rollback", "overflow"}
  /\ \/ /\ IF req[s].playground THEN UNCHANGED token ELSE IncreaseTokenQuota(tokenConsumed[s])
        /\ UNCHANGED leak
     \/ /\ tokenConsumed[s] > 0 /\ ~req[s].playground
        /\ leak' = [leak EXCEPT ![s] = @ + tokenConsumed[s]]
        /\ UNCHANGED token
  /\ tokenConsumed' = [tokenConsumed EXCEPT ![s] = 0]
  /\ \/ at[s] = "overflow" /\ req[s].pref = "subscription_first" /\ Goto(s, "tryWallet")
     \/ Goto(s, "denied")
  /\ UNCHANGED <<wallet, unlimited, used, subActive, subRecord, resets, req, source, pre,
                 consumed, flags, errs, arg, retries, dead>>

-----------------------------------------------------------------------------
(* Refunding                                                               *)

needsRefundLocked(s) ==
  /\ flags[s] \cap {"settled", "refunded", "fundingSettled"} = {}
  /\ tokenConsumed[s] > 0 \/ (source[s] = Subscription /\ consumed[s] > 0)

\* Where a refund ends: the session of a refused request was never opened.
RefundEnds(s) == IF Flagged(s, "opened") \/ at[s] = "refused" THEN "failed" ELSE "refused"

\* Mutant: the refunded flag is not set.
RefundUnflagged(s) ==
  /\ Goto(s, IF needsRefundLocked(s) THEN "refundFund" ELSE RefundEnds(s))
  /\ UNCHANGED flags

\* RefundWithResult decides under the session's mutex.
RefundWithResult(s) ==
  IF flags[s] \cap {"settled", "refunded"} # {} \/ ~needsRefundLocked(s)
    THEN Goto(s, RefundEnds(s)) /\ UNCHANGED flags
    ELSE Goto(s, "refundFund") /\ Raise(s, "refunded")

\* Mutant: the record is not consulted.
RefundRepeatedly(s) ==
  /\ PostConsumeUserSubscriptionDelta(-consumed[s])
  /\ subRecord' = [subRecord EXCEPT ![s] = "refunded"]

\* RefundSubscriptionPreConsume: one transaction, idempotent by its record.
RefundSubscriptionPreConsume(s) ==
  IF subRecord[s] = "refunded"
    THEN UNCHANGED <<used, subRecord>>
    ELSE /\ PostConsumeUserSubscriptionDelta(-consumed[s])
         /\ subRecord' = [subRecord EXCEPT ![s] = "refunded"]

\* WalletFunding.Refund adds once: it is not idempotent and not retried.
WalletRefund(s) ==
  /\ at[s] = "refundFund" /\ source[s] = Wallet
  /\ \/ IncreaseUserQuota(consumed[s]) /\ UNCHANGED errs
     \/ consumed[s] > 0 /\ Fails(s, "fundRefund") /\ UNCHANGED wallet
  /\ Goto(s, "refundToken")
  /\ UNCHANGED <<token, unlimited, used, subActive, subRecord, resets, req, source, pre,
                 consumed, tokenConsumed, flags, arg, leak, retries, dead>>

\* SubscriptionFunding.Refund: an attempt may commit and still report an error,
\* and is then repeated; in the end the attempts succeed or are given up.
SubscriptionRefund(s) ==
  /\ at[s] = "refundFund" /\ source[s] = Subscription
  /\ \/ RefundSubscriptionPreConsume(s) /\ UNCHANGED errs /\ Goto(s, "refundToken")
     \/ RefundSubscriptionPreConsume(s) /\ UNCHANGED <<errs, at>>
     \/ Fails(s, "fundRefund") /\ UNCHANGED <<used, subRecord>> /\ Goto(s, "refundToken")
  /\ UNCHANGED <<wallet, token, unlimited, subActive, resets, req, source, pre,
                 consumed, tokenConsumed, flags, arg, leak, retries, dead>>

\* Mutant: the token of a playground request, never charged, is credited.
RefundAnyToken(s) ==
  /\ at[s] = "refundToken"
  /\ IncreaseTokenQuota(tokenConsumed[s])
  /\ Goto(s, RefundEnds(s))
  /\ UNCHANGED <<wallet, unlimited, used, subActive, subRecord, resets, req, source, pre,
                 consumed, tokenConsumed, flags, errs, arg, leak, retries, dead>>

\* Then the token, whether or not the funding refund succeeded.
RefundToken(s) ==
  /\ at[s] = "refundToken"
  /\ \/ /\ IF req[s].playground THEN UNCHANGED token ELSE IncreaseTokenQuota(tokenConsumed[s])
        /\ UNCHANGED errs
     \/ /\ tokenConsumed[s] > 0 /\ ~req[s].playground
        /\ Fails(s, "tokenRefund")
        /\ UNCHANGED token
  /\ Goto(s, RefundEnds(s))
  /\ UNCHANGED <<wallet, unlimited, used, subActive, subRecord, resets, req, source, pre,
                 consumed, tokenConsumed, flags, arg, leak, retries, dead>>

\* PreConsumeBilling records the pre-charge in the pricing audit; if that
\* fails the session is refunded before the request is refused.
SyncRequestPricing(s) ==
  /\ at[s] = "sync"
  /\ \/ Goto(s, "open") /\ Raise(s, "opened")
     \/ RefundWithResult(s)
  /\ UNCHANGED <<books, req, source, pre, consumed, tokenConsumed, errs, arg, leak, retries, dead>>

\* The deferred refund of Relay and RelayTask; RelayTask also runs it after
\* PreConsumeBilling has refunded by itself.
DeferredRefund(s) ==
  /\ at[s] = "open" \/ (at[s] = "refused" /\ req[s].task)
  /\ RefundWithResult(s)
  /\ UNCHANGED <<books, req, source, pre, consumed, tokenConsumed, errs, arg, leak, retries, dead>>

-----------------------------------------------------------------------------
(* Settling                                                                *)

\* Settle(actualQuota), up to its first statement.  The handlers call it once,
\* last, and then end without error whatever it returns.
Settle(s, actual) ==
  /\ at[s] = "open"
  /\ arg' = [arg EXCEPT ![s] = actual]
  /\ IF actual = pre[s]
       THEN Raise(s, "settled") /\ Goto(s, "closed")
       ELSE Goto(s, "settleFund") /\ UNCHANGED flags
  /\ UNCHANGED <<books, req, source, pre, consumed, tokenConsumed, errs, leak, retries, dead>>

Delta(s) == arg[s] - pre[s]

\* funding.Settle(delta); on an error nothing more is done and the pre-charge
\* is kept.
SettleFunding(s) ==
  /\ at[s] = "settleFund"
  /\ \/ /\ \/ source[s] = Subscription /\ PostConsumeUserSubscriptionDelta(Delta(s)) /\ UNCHANGED wallet
           \/ source[s] = Wallet /\ Delta(s) > 0 /\ DecreaseUserQuota(Delta(s)) /\ UNCHANGED used
           \/ source[s] = Wallet /\ Delta(s) < 0 /\ IncreaseUserQuota(-Delta(s)) /\ UNCHANGED used
        /\ Raise(s, "fundingSettled")
        /\ Goto(s, "settleToken")
     \/ /\ Goto(s, "closed")
        /\ UNCHANGED <<wallet, used, flags>>
  /\ UNCHANGED <<token, unlimited, subActive, subRecord, resets, req, source, pre,
                 consumed, tokenConsumed, errs, arg, leak, retries, dead>>

\* The token follows; if it cannot, the session is settled all the same.
SettleToken(s) ==
  /\ at[s] = "settleToken"
  /\ \/ /\ \/ req[s].playground /\ UNCHANGED token
           \/ ~req[s].playground /\ Delta(s) > 0 /\ DecreaseTokenQuota(Delta(s))
           \/ ~req[s].playground /\ Delta(s) < 0 /\ IncreaseTokenQuota(-Delta(s))
        /\ UNCHANGED errs
     \/ /\ ~req[s].playground
        /\ Fails(s, "tokenSettle")
        /\ UNCHANGED token
  /\ Raise(s, "settled")
  /\ Goto(s, "closed")
  /\ UNCHANGED <<wallet, unlimited, used, subActive, subRecord, resets, req, source, pre,
                 consumed, tokenConsumed, arg, leak, retries, dead>>

\* A task the provider accepted but whose row could not be written: the
\* pre-charge is neither settled nor refunded.
AcceptedUnrecorded(s) ==
  /\ at[s] = "open" /\ req[s].task
  /\ Goto(s, "closed")
  /\ UNCHANGED <<books, req, session, dead>>

\* RelayTask tries again after a refusal.  RelayTaskSubmit opens a new session
\* only if RelayInfo.Billing is nil: one that PreConsumeBilling has set and
\* refunded is used as it is.
RetryTask(s) ==
  /\ req[s].task
  /\ retries[s] < RetryTimes
  /\ retries' = [retries EXCEPT ![s] = @ + 1]
  /\ \/ at[s] = "denied" /\ Goto(s, "start") /\ UNCHANGED flags
     \/ at[s] = "refused" /\ Goto(s, "open") /\ Raise(s, "opened")
  /\ UNCHANGED <<books, req, source, pre, consumed, tokenConsumed, errs, arg, leak, dead>>

-----------------------------------------------------------------------------
(* The environment                                                         *)

\* A quota period ends (resetUserSubscriptionTx, maybeReset...WithPlanTx).
ResetSubscription ==
  /\ subActive /\ resets < MaxResets
  /\ used' = 0
  /\ resets' = resets + 1
  /\ UNCHANGED <<wallet, token, unlimited, subActive, subRecord, at, req, session, dead>>

\* The subscription ends (ExpireDueSubscriptions, or end_time passes).
ExpireSubscription ==
  /\ subActive
  /\ subActive' = FALSE
  /\ UNCHANGED <<wallet, token, unlimited, used, subRecord, resets, at, req, session, dead>>

\* The process serving s dies between two of its statements.
Crash(s) ==
  /\ at[s] \notin {"start", "closed", "failed", "denied", "refused"}
  /\ dead' = dead \cup {s}
  /\ UNCHANGED <<books, at, req, session>>

SessionStep(s) ==
  \/ NewBillingSession(s) \/ TryWallet(s) \/ TrySubscription(s)
  \/ PreConsumeTokenQuota(s) \/ WalletPreConsume(s) \/ SubscriptionPreConsume(s)
  \/ RollbackToken(s) \/ SyncRequestPricing(s)
  \/ DeferredRefund(s) \/ WalletRefund(s) \/ SubscriptionRefund(s) \/ RefundToken(s)
  \/ (\E a \in Quotas : Settle(s, a)) \/ SettleFunding(s) \/ SettleToken(s)
  \/ AcceptedUnrecorded(s) \/ RetryTask(s)

Next ==
  \/ \E s \in Requests \ dead : SessionStep(s) \/ Crash(s)
  \/ ResetSubscription
  \/ ExpireSubscription

Spec == Init /\ [][Next]_vars

-----------------------------------------------------------------------------
(* What each request has taken, as the session itself accounts for it      *)

FundingRefunded(s) ==
  IF source[s] = Subscription
    THEN subRecord[s] = "refunded"
    ELSE Flagged(s, "refunded") /\ at[s] # "refundFund" /\ "fundRefund" \notin errs[s]

FundingNet(s) ==
  IF FundingRefunded(s) THEN 0
  ELSE IF Flagged(s, "fundingSettled") THEN arg[s]
  ELSE consumed[s]

WalletNet(s) == IF source[s] = Wallet THEN FundingNet(s) ELSE 0
SubscriptionNet(s) == IF source[s] = Subscription THEN FundingNet(s) ELSE 0

TokenRefunded(s) ==
  Flagged(s, "refunded") /\ at[s] \notin {"refundFund", "refundToken"} /\ "tokenRefund" \notin errs[s]

TokenSettled(s) ==
  {"fundingSettled", "settled"} \subseteq flags[s] /\ "tokenSettle" \notin errs[s]

TokenNet(s) ==
  IF req[s].playground THEN 0
  ELSE leak[s] + (IF TokenRefunded(s) THEN 0
                  ELSE IF TokenSettled(s) THEN arg[s]
                  ELSE tokenConsumed[s])

-----------------------------------------------------------------------------
(* Properties                                                              *)

TypeOK ==
  /\ wallet \in Int /\ token \in Int /\ used \in Int /\ resets \in Nat
  /\ unlimited \in BOOLEAN /\ subActive \in BOOLEAN
  /\ subRecord \in [Requests -> {"none", "consumed", "refunded"}]
  /\ at \in [Requests -> At]
  /\ req \in [Requests -> ReqAttr]
  /\ source \in [Requests -> {Wallet, Subscription, NoSource}]
  /\ pre \in [Requests -> Nat]
  /\ consumed \in [Requests -> Nat]
  /\ tokenConsumed \in [Requests -> Nat]
  /\ flags \in [Requests -> SUBSET Flag]
  /\ errs \in [Requests -> SUBSET Failure]
  /\ arg \in [Requests -> Nat]
  /\ leak \in [Requests -> Nat]
  /\ retries \in [Requests -> Nat]
  /\ dead \subseteq Requests

\* No interleaving of requests overdraws an account, however stale the quotas
\* they read: the wallet never goes negative, a limited token never, and the
\* subscription never exceeds its total.
NoOverdraft ==
  /\ wallet >= 0
  /\ unlimited \/ token >= 0
  /\ used >= 0 /\ (SubTotal > 0 => used <= SubTotal)

\* A request that was refused or ended in an error, whose refund and rollback
\* statements all succeeded and that was never settled, has paid nothing from
\* any account (preConsume's rollback, RefundWithResult).
FailedPaysNothing ==
  \A s \in Requests :
    /\ at[s] \in {"failed", "denied", "refused"}
    /\ flags[s] \cap {"settled", "fundingSettled"} = {}
    /\ errs[s] = {} /\ leak[s] = 0
    => WalletNet(s) = 0 /\ SubscriptionNet(s) = 0 /\ TokenNet(s) = 0

\* Unless a settlement, refund or rollback statement failed, a finished API
\* request has cost its token exactly what it has cost the wallet or the
\* subscription.
TokenFollowsFunding ==
  \A s \in Requests :
    /\ at[s] \in {"closed", "failed", "denied", "refused"}
    /\ ~req[s].playground
    /\ errs[s] = {} /\ leak[s] = 0
    => TokenNet(s) = WalletNet(s) + SubscriptionNet(s)

\* While a request is being relayed its whole pre-charge is held, on a retry
\* too ("only the first time: on a retry info.Billing exists already",
\* RelayTaskSubmit).
RelayedIsPaid ==
  \A s \in Requests : at[s] = "open" => WalletNet(s) + SubscriptionNet(s) = pre[s]

\* The token row is exactly what it was less what the sessions believe they have
\* taken, at every point of every interleaving, with rollbacks, refunds and
\* settlements that fail half-way and processes that die (preConsume,
\* RefundWithResult and Settle on tokens.remain_quota).
TokenBooks == token = InitToken - SumFunction([s \in Requests |-> TokenNet(s)])

\* The subscription never counts more than its sessions have taken, and exactly
\* that until a reset, even when an attempt of a refund commits and is repeated
\* (refundWithRetry, RefundSubscriptionPreConsume); it counts less only after a
\* reset, when a refund or a settlement of the old period lands in the new one.
SubscriptionBooks ==
  LET taken == SumFunction([s \in Requests |-> SubscriptionNet(s)])
  IN  used <= taken /\ (resets = 0 => used = taken)

-----------------------------------------------------------------------------
(* The wallet as an abstract ledger                                        *)

WalletFinal(s) ==
  /\ source[s] = Wallet
  /\ FundingRefunded(s) \/ flags[s] \cap {"settled", "fundingSettled"} # {}

WalletLedger == INSTANCE Ledger WITH
  Accounts <- Requests,
  Amounts <- Quotas \cup {0},
  InitBalance <- InitWallet,
  balance <- wallet,
  taken <- [s \in Requests |-> WalletNet(s)],
  final <- [s \in Requests |-> WalletFinal(s)]

\* Each request takes its pre-charge from the wallet at most once and then at
\* most once either settles at its actual cost or gets everything back, and the
\* wallet changes by exactly that (Settle, RefundWithResult and their flags).
ImplementsLedger == WalletLedger!Spec
=============================================================================
