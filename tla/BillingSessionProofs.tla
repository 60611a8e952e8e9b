------------------------ MODULE BillingSessionProofs ------------------------
(***************************************************************************)
(* Theorems about BillingSession, for any set of requests, any quotas, any *)
(* balances, and whatever the caches show.                                 *)
(***************************************************************************)
EXTENDS BillingSession, FiniteSetTheorems, WellFoundedInduction, TLAPS

-----------------------------------------------------------------------------
(* Sums over the requests                                                  *)

Picked(T) == CHOOSE x \in T : TRUE

\* f maps each subset of S to the sum of g over it, taking one summand at a time
\* as SumFunction does.
SumsOver(f, g, S) ==
  f = [T \in SUBSET S |-> IF T = {} THEN 0 ELSE g[Picked(T)] + f[T \ {Picked(T)}]]

\* SumFunction is the value of such a function at the whole domain.
LEMMA SumLink ==
  ASSUME NEW S, NEW g, DOMAIN g = S
  PROVE  SumFunction(g) = (CHOOSE f : SumsOver(f, g, S))[S]
BY Zenon DEF SumFunction, SumFunctionOnSet, FoldFunctionOnSet, MapThenFoldSet, SumsOver, Picked

\* Among subsets of a finite set there is a smallest one: the proofs below take
\* a smallest counterexample.
LEMMA Smallest ==
  ASSUME NEW S, IsFiniteSet(S), NEW B, B \subseteq SUBSET S, B # {}
  PROVE  \E T \in B : \A U \in B : ~(U \subseteq T /\ U # T)
<1>1. IsWellFoundedOn(StrictSubsetOrdering(S), SUBSET S)
  BY FS_StrictSubsetOrderingWellFounded, FS_FiniteSubsetsOfFinite
<1>2. PICK T \in B : \A U \in B : ~(<<U, T>> \in StrictSubsetOrdering(S))
  BY <1>1, WFMin, Zenon
<1>3. \A U \in B : ~(U \subseteq T /\ U # T)
  BY <1>2 DEF StrictSubsetOrdering
<1> QED BY <1>3


\* One step of the recursion.
LEMMA SumUnfolds ==
  ASSUME NEW S, NEW f, NEW g, SumsOver(f, g, S), NEW T \in SUBSET S
  PROVE  /\ T = {} => f[T] = 0
         /\ T # {} => /\ Picked(T) \in T
                      /\ T \ {Picked(T)} \in SUBSET S
                      /\ T \ {Picked(T)} # T
                      /\ f[T] = g[Picked(T)] + f[T \ {Picked(T)}]
<1>1. T # {} => Picked(T) \in T
  BY DEF Picked
<1> QED BY <1>1 DEF SumsOver

\* The sum over a set does not depend on the set it is part of.
LEMMA SumAgree ==
  ASSUME NEW S, IsFiniteSet(S), NEW A \in SUBSET S, NEW D \in SUBSET S, NEW f, NEW h, NEW g,
         SumsOver(f, g, A), SumsOver(h, g, D)
  PROVE  \A T \in SUBSET (A \cap D) : f[T] = h[T]
<1> DEFINE Bad == {T \in SUBSET (A \cap D) : f[T] # h[T]}
<1> SUFFICES ASSUME Bad # {} PROVE FALSE
  OBVIOUS
<1>1. PICK T \in Bad : \A U \in Bad : ~(U \subseteq T /\ U # T)
  <2>1. Bad \subseteq SUBSET S
    OBVIOUS
  <2> HIDE DEF Bad
  <2> QED BY <2>1, Smallest
<1>2. T \in SUBSET A /\ T \in SUBSET D /\ f[T] # h[T]
  OBVIOUS
<1> HIDE DEF Bad
<1>3. T # {}
  BY <1>2, SumUnfolds
<1> DEFINE U == T \ {Picked(T)}
<1>4. f[T] = g[Picked(T)] + f[U] /\ U \subseteq T /\ U # T
  BY <1>2, <1>3, SumUnfolds
<1>5. h[T] = g[Picked(T)] + h[U]
  BY <1>2, <1>3, SumUnfolds
<1>6. U \in Bad
  BY <1>2, <1>4, <1>5 DEF Bad
<1> QED BY <1>1, <1>4, <1>6

\* The sums are defined: a function for the strict subsets, one summand more.
LEMMA SumExists ==
  ASSUME NEW S, IsFiniteSet(S), NEW g
  PROVE  \E f : SumsOver(f, g, S)
<1> DEFINE Bad == {T \in SUBSET S : ~\E f : SumsOver(f, g, T)}
<1> SUFFICES ASSUME Bad # {} PROVE FALSE
  OBVIOUS
<1>1. PICK T \in Bad : \A U \in Bad : ~(U \subseteq T /\ U # T)
  <2>1. Bad \subseteq SUBSET S
    OBVIOUS
  <2> HIDE DEF Bad
  <2> QED BY <2>1, Smallest
<1> DEFINE h(U) == CHOOSE f : SumsOver(f, g, U)
<1>2. ASSUME NEW U \in SUBSET T, U # T PROVE SumsOver(h(U), g, U)
  <2>1. U \in SUBSET S /\ U \notin Bad
    BY <1>1, <1>2
  <2>2. \E f : SumsOver(f, g, U)
    BY <2>1
  <2> QED BY <2>2
<1> DEFINE F == [U \in SUBSET T |-> IF U = {} THEN 0
                                   ELSE g[Picked(U)] + h(U \ {Picked(U)})[U \ {Picked(U)}]]
<1> HIDE DEF h
<1>3. ASSUME NEW V \in SUBSET T, V # T PROVE F[V] = h(V)[V]
  <2>1. SumsOver(h(V), g, V)
    BY <1>2, <1>3
  <2>2. CASE V = {}
    <3>1. h(V)[V] = 0
      BY <2>1, <2>2, SumUnfolds
    <3> QED BY <2>2, <3>1
  <2>3. CASE V # {}
    <3> DEFINE W == V \ {Picked(V)}
    <3>1. h(V)[V] = g[Picked(V)] + h(V)[W] /\ W \in SUBSET V /\ W # V
      BY <2>1, <2>3, SumUnfolds
    <3>2. SumsOver(h(W), g, W)
      BY <1>2, <1>3, <3>1
    <3>3. h(V)[W] = h(W)[W]
      <4>1. V \in SUBSET S /\ W \in SUBSET S /\ W \in SUBSET (V \cap W)
        BY <3>1
      <4> HIDE DEF W
      <4> QED BY <2>1, <3>2, <4>1, SumAgree
    <3>4. F[V] = g[Picked(V)] + h(W)[W]
      BY <2>3
    <3> QED BY <3>1, <3>3, <3>4
  <2> QED BY <2>2, <2>3
<1>4. ASSUME NEW U \in SUBSET T
      PROVE  F[U] = (IF U = {} THEN 0 ELSE g[Picked(U)] + F[U \ {Picked(U)}])
  <2>1. CASE U = {}
    BY <2>1
  <2>2. CASE U # {}
    <3> DEFINE V == U \ {Picked(U)}
    <3>1. Picked(U) \in U
      BY <2>2 DEF Picked
    <3>2. V \in SUBSET T /\ V # T
      BY <3>1
    <3>3. F[V] = h(V)[V]
      BY <1>3, <3>2
    <3>4. F[U] = g[Picked(U)] + h(V)[V]
      BY <2>2
    <3> QED BY <2>2, <3>3, <3>4
  <2> QED BY <2>1, <2>2
<1>5. F = [U \in SUBSET T |-> F[U]]
  OBVIOUS
<1> HIDE DEF F
<1>6. SumsOver(F, g, T)
  BY <1>4, <1>5 DEF SumsOver
<1> QED BY <1>6

\* The sum of numbers from a set closed under addition is in that set.
LEMMA SumStaysIn ==
  ASSUME NEW S, IsFiniteSet(S), NEW N, 0 \in N, \A a, b \in N : a + b \in N,
         NEW g \in [S -> N], NEW f, SumsOver(f, g, S)
  PROVE  \A T \in SUBSET S : f[T] \in N
<1> DEFINE Bad == {T \in SUBSET S : f[T] \notin N}
<1> SUFFICES ASSUME Bad # {} PROVE FALSE
  OBVIOUS
<1>1. PICK T \in Bad : \A U \in Bad : ~(U \subseteq T /\ U # T)
  <2>1. Bad \subseteq SUBSET S
    OBVIOUS
  <2> HIDE DEF Bad
  <2> QED BY <2>1, Smallest
<1>2. T \in SUBSET S /\ f[T] \notin N
  OBVIOUS
<1> HIDE DEF Bad
<1>3. T # {}
  <2>1. T = {} => f[T] = 0
    BY <1>2, SumUnfolds
  <2> QED BY <1>2, <2>1
<1> DEFINE U == T \ {Picked(T)}
<1>4. /\ f[T] = g[Picked(T)] + f[U] /\ Picked(T) \in S
      /\ U \subseteq T /\ U # T /\ U \in SUBSET S
  BY <1>2, <1>3, SumUnfolds
<1>5. f[U] \in N
  BY <1>1, <1>4 DEF Bad
<1>6. g[Picked(T)] \in N
  BY <1>4
<1> QED BY <1>2, <1>4, <1>5, <1>6

\* A change of one summand changes the sums that have it, and only these.
LEMMA SumMoves ==
  ASSUME NEW S, IsFiniteSet(S), NEW g \in [S -> Int], NEW k \in [S -> Int], NEW s \in S,
         \A o \in S \ {s} : k[o] = g[o],
         NEW f, SumsOver(f, g, S), NEW h, SumsOver(h, k, S)
  PROVE  \A T \in SUBSET S : h[T] = f[T] + (IF s \in T THEN k[s] - g[s] ELSE 0)
<1> DEFINE Bad == {T \in SUBSET S : h[T] # f[T] + (IF s \in T THEN k[s] - g[s] ELSE 0)}
<1> SUFFICES ASSUME Bad # {} PROVE FALSE
  OBVIOUS
<1>1. PICK T \in Bad : \A U \in Bad : ~(U \subseteq T /\ U # T)
  <2>1. Bad \subseteq SUBSET S
    OBVIOUS
  <2> HIDE DEF Bad
  <2> QED BY <2>1, Smallest
<1>2. T \in SUBSET S /\ h[T] # f[T] + (IF s \in T THEN k[s] - g[s] ELSE 0)
  OBVIOUS
<1> HIDE DEF Bad
<1>3. T # {}
  <2>1. T = {} => f[T] = 0 /\ h[T] = 0
    BY <1>2, SumUnfolds
  <2> QED BY <1>2, <2>1
<1> DEFINE U == T \ {Picked(T)}
<1>4. /\ f[T] = g[Picked(T)] + f[U] /\ Picked(T) \in T
      /\ U \subseteq T /\ U # T /\ U \in SUBSET S
  BY <1>2, <1>3, SumUnfolds
<1>5. h[T] = k[Picked(T)] + h[U]
  BY <1>2, <1>3, SumUnfolds
<1>6. h[U] = f[U] + (IF s \in U THEN k[s] - g[s] ELSE 0)
  BY <1>1, <1>4 DEF Bad
<1>7. f[U] \in Int
  <2>1. \A a, b \in Int : a + b \in Int
    OBVIOUS
  <2> HIDE DEF U
  <2> QED BY <1>4, <2>1, SumStaysIn
<1>8. s \in U <=> s \in T /\ s # Picked(T)
  OBVIOUS
<1>9. g[Picked(T)] \in Int /\ k[Picked(T)] \in Int /\ g[s] \in Int /\ k[s] \in Int
  BY <1>2, <1>4
<1>10. s # Picked(T) => k[Picked(T)] = g[Picked(T)]
  BY <1>2, <1>4
<1> HIDE DEF U
<1> QED BY <1>2, <1>4, <1>6, <1>7, <1>8, <1>9, <1>10, <1>5

LEMMA SumFound ==
  ASSUME NEW S, IsFiniteSet(S), NEW g, DOMAIN g = S
  PROVE  \E f : SumsOver(f, g, S) /\ SumFunction(g) = f[S]
<1>1. SumsOver(CHOOSE f : SumsOver(f, g, S), g, S)
  BY SumExists, Zenon
<1> QED BY <1>1, SumLink, Zenon

\* What closure and a single change mean for SumFunction.
LEMMA SumInside ==
  ASSUME NEW S, IsFiniteSet(S), NEW N, 0 \in N, \A a, b \in N : a + b \in N, NEW g \in [S -> N]
  PROVE  SumFunction(g) \in N
<1>1. PICK f : SumsOver(f, g, S) /\ SumFunction(g) = f[S]
  BY SumFound
<1>2. \A T \in SUBSET S : f[T] \in N
  BY <1>1, SumStaysIn
<1> QED BY <1>1, <1>2

LEMMA SumChanges ==
  ASSUME NEW S, IsFiniteSet(S), NEW g \in [S -> Int], NEW k \in [S -> Int], NEW s \in S,
         \A o \in S \ {s} : k[o] = g[o]
  PROVE  SumFunction(k) = SumFunction(g) + k[s] - g[s]
<1>1. PICK f : SumsOver(f, g, S) /\ SumFunction(g) = f[S]
  BY SumFound
<1>2. PICK h : SumsOver(h, k, S) /\ SumFunction(k) = h[S]
  BY SumFound
<1>3. h[S] = f[S] + (k[s] - g[s])
  BY <1>1, <1>2, SumMoves
<1>4. f[S] \in Int
  <2>1. \A a, b \in Int : a + b \in Int
    OBVIOUS
  <2> QED BY <1>1, <2>1, SumStaysIn
<1>5. g[s] \in Int /\ k[s] \in Int
  OBVIOUS
<1> QED BY <1>1, <1>2, <1>3, <1>4, <1>5

USE QuotasAssumption, AmountsAssumption, ReqAssumption, SourcesAssumption

-----------------------------------------------------------------------------
(* Types                                                                   *)

LEMMA QuotaIsNat == ASSUME TypeOK, NEW s \in Requests PROVE req[s].quota \in Nat
BY DEF TypeOK, ReqAttr

\* Every step of every request keeps TypeOK.
LEMMA TypeStep == TypeOK /\ [Next]_vars => TypeOK'
<1> SUFFICES ASSUME TypeOK, [Next]_vars PROVE TypeOK'
  OBVIOUS
<1> USE DEF TypeOK, Goto, Raise, Fails, At, Flag, Failure
<1>1. CASE UNCHANGED vars
  BY <1>1 DEF vars, books, session
<1>2. ASSUME NEW s \in Requests, NewBillingSession(s) PROVE TypeOK'
  BY <1>2 DEF NewBillingSession, books, session
<1>3. ASSUME NEW s \in Requests, TryWallet(s) PROVE TypeOK'
  BY <1>3, QuotaIsNat DEF TryWallet, TryWalletOpens, TryWalletRefuses, NewSession, books, session
<1>4. ASSUME NEW s \in Requests, TrySubscription(s) PROVE TypeOK'
  BY <1>4, QuotaIsNat DEF TrySubscription, NewSession, books
<1>5. ASSUME NEW s \in Requests, PreConsumeTokenQuota(s) PROVE TypeOK'
  BY <1>5 DEF PreConsumeTokenQuota, DecreaseTokenQuota
<1>6. ASSUME NEW s \in Requests, WalletPreConsume(s) PROVE TypeOK'
  BY <1>6 DEF WalletPreConsume, DecreaseUserQuota
<1>7. ASSUME NEW s \in Requests, SubscriptionPreConsume(s) PROVE TypeOK'
  BY <1>7 DEF SubscriptionPreConsume
<1>8. ASSUME NEW s \in Requests, RollbackToken(s) PROVE TypeOK'
  BY <1>8 DEF RollbackToken, IncreaseTokenQuota
<1>9. ASSUME NEW s \in Requests, SyncRequestPricing(s) \/ DeferredRefund(s) PROVE TypeOK'
  BY <1>9 DEF SyncRequestPricing, DeferredRefund, RefundWithResult, RefundEnds, books
<1>10. ASSUME NEW s \in Requests, WalletRefund(s) PROVE TypeOK'
  BY <1>10 DEF WalletRefund, IncreaseUserQuota
<1>11. ASSUME NEW s \in Requests, SubscriptionRefund(s) PROVE TypeOK'
  BY <1>11 DEF SubscriptionRefund, RefundSubscriptionPreConsume,
     PostConsumeUserSubscriptionDelta, UsedAfter
<1>12. ASSUME NEW s \in Requests, RefundToken(s) PROVE TypeOK'
  BY <1>12 DEF RefundToken, RefundEnds, IncreaseTokenQuota
<1>13. ASSUME NEW s \in Requests, NEW a \in Quotas, Settle(s, a) PROVE TypeOK'
  BY <1>13 DEF Settle, books
<1>14. ASSUME NEW s \in Requests, SettleFunding(s) PROVE TypeOK'
  BY <1>14 DEF SettleFunding, PostConsumeUserSubscriptionDelta, UsedAfter, Delta,
     DecreaseUserQuota, IncreaseUserQuota
<1>15. ASSUME NEW s \in Requests, SettleToken(s) PROVE TypeOK'
  <2>1. token' \in Int
    BY <1>15 DEF SettleToken, Delta, DecreaseTokenQuota, IncreaseTokenQuota
  <2>2. errs' \in [Requests -> SUBSET Failure]
    BY <1>15 DEF SettleToken
  <2> QED BY <1>15, <2>1, <2>2 DEF SettleToken
<1>16. ASSUME NEW s \in Requests, AcceptedUnrecorded(s) \/ RetryTask(s) \/ Crash(s) PROVE TypeOK'
  BY <1>16 DEF AcceptedUnrecorded, RetryTask, Crash, books, session
<1>17. CASE ResetSubscription \/ ExpireSubscription
  <2>1. subActive' \in BOOLEAN
    BY <1>17, Zenon DEF ResetSubscription, ExpireSubscription
  <2> QED BY <1>17, <2>1 DEF ResetSubscription, ExpireSubscription, session
<1> QED
  BY <1>1, <1>2, <1>3, <1>4, <1>5, <1>6, <1>7, <1>8, <1>9, <1>10, <1>11, <1>12, <1>13,
     <1>14, <1>15, <1>16, <1>17
     DEF Next, SessionStep

\* The rows and the sessions always have their types.
THEOREM TypeCorrect == Spec => []TypeOK
<1>1. Init => TypeOK
  BY DEF Init, TypeOK, At
<1> QED BY <1>1, TypeStep, PTL DEF Spec

-----------------------------------------------------------------------------
(* The inductive invariant, without retries                                *)

\* The inductive invariant behind the ledger: how the phase of a request, its
\* flags and its amounts go together.
Opening == {"start", "tryWallet", "trySub", "token", "fund", "rollback", "overflow", "denied"}
Decided == {"settled", "fundingSettled", "refunded"}

PhaseOK(s) ==
  /\ at[s] \in Opening => consumed[s] = 0 /\ flags[s] = {}
  /\ at[s] \notin Opening => consumed[s] = pre[s]
  /\ at[s] = "sync" => flags[s] = {}
  /\ at[s] \in {"open", "settleFund"} => flags[s] \cap Decided = {}
  /\ at[s] = "refused" => flags[s] \subseteq {"refunded"}
  /\ at[s] = "settleToken" => flags[s] \cap Decided = {"fundingSettled"}
  /\ at[s] \in {"refundFund", "refundToken"} => flags[s] \cap Decided = {"refunded"}
  /\ "fundRefund" \in errs[s] => Flagged(s, "refunded") /\ at[s] # "refundFund"

AmountsOK(s) ==
  /\ source[s] = Wallet => pre[s] \in Quotas \cup {0}
  /\ arg[s] \in Quotas \cup {0}

SessionInv == wallet >= 0 /\ \A s \in Requests : PhaseOK(s) /\ AmountsOK(s)

\* A step of s that leaves the wallet no lower than 0 and its own phase in
\* order keeps SessionInv: it changes nothing of another request.
OthersUnchanged(s) ==
  \A o \in Requests \ {s} :
    /\ at'[o] = at[o] /\ source'[o] = source[o] /\ pre'[o] = pre[o]
    /\ consumed'[o] = consumed[o] /\ flags'[o] = flags[o] /\ errs'[o] = errs[o]
    /\ arg'[o] = arg[o]

LEMMA StepIsLocal ==
  ASSUME TypeOK, NEW s \in Requests, SessionStep(s) \/ Crash(s)
  PROVE  OthersUnchanged(s)
<1> USE DEF TypeOK, OthersUnchanged, Goto, Raise, Fails, session
<1>1. CASE NewBillingSession(s) \/ TryWallet(s) \/ TrySubscription(s)
  BY <1>1 DEF NewBillingSession, TryWallet, TryWalletOpens, TryWalletRefuses, TrySubscription, NewSession
<1>2. CASE PreConsumeTokenQuota(s) \/ WalletPreConsume(s) \/ SubscriptionPreConsume(s)
  BY <1>2 DEF PreConsumeTokenQuota, WalletPreConsume, SubscriptionPreConsume
<1>3. CASE RollbackToken(s) \/ SyncRequestPricing(s) \/ DeferredRefund(s)
  BY <1>3 DEF RollbackToken, SyncRequestPricing, DeferredRefund, RefundWithResult, RefundEnds
<1>4. CASE WalletRefund(s) \/ SubscriptionRefund(s) \/ RefundToken(s)
  BY <1>4 DEF WalletRefund, SubscriptionRefund, RefundToken
<1>5. CASE \E a \in Quotas : Settle(s, a)
  BY <1>5 DEF Settle
<1>6. CASE SettleFunding(s) \/ SettleToken(s) \/ AcceptedUnrecorded(s) \/ RetryTask(s) \/ Crash(s)
  BY <1>6 DEF SettleFunding, SettleToken, AcceptedUnrecorded, RetryTask, Crash
<1> QED BY <1>1, <1>2, <1>3, <1>4, <1>5, <1>6 DEF SessionStep

LEMMA InvStep ==
  ASSUME RetryTimes = 0
  PROVE  TypeOK /\ SessionInv /\ [Next]_vars => SessionInv'
<1> SUFFICES ASSUME TypeOK, SessionInv, [Next]_vars PROVE SessionInv'
  OBVIOUS
<1> USE DEF TypeOK
<1>1. CASE UNCHANGED vars
  BY <1>1 DEF vars, books, session, SessionInv, PhaseOK, AmountsOK, Flagged
<1>2. CASE ResetSubscription \/ ExpireSubscription
  BY <1>2 DEF ResetSubscription, ExpireSubscription, session, SessionInv, PhaseOK,
     AmountsOK, Flagged
<1>3. ASSUME NEW s \in Requests, SessionStep(s) \/ Crash(s) PROVE SessionInv'
  <2>1. PhaseOK(s) /\ AmountsOK(s) /\ wallet >= 0
    BY DEF SessionInv
  <2>2. \A o \in Requests \ {s} : PhaseOK(o)' /\ AmountsOK(o)'
    BY <1>3, StepIsLocal DEF OthersUnchanged, SessionInv, PhaseOK, AmountsOK, Flagged
  <2>3. wallet' >= 0 /\ PhaseOK(s)' /\ AmountsOK(s)'
    <3> USE <2>1 DEF PhaseOK, AmountsOK, Flagged, Opening, Decided, Goto, Raise, Fails,
            Flag, Failure, At
    <3>1. CASE NewBillingSession(s)
      BY <3>1 DEF NewBillingSession, books, session
    <3>2. CASE TryWallet(s)
      BY <3>2 DEF TryWallet, TryWalletOpens, TryWalletRefuses, NewSession, books, session, ReqAttr
    <3>3. CASE TrySubscription(s)
      BY <3>3 DEF TrySubscription, NewSession, books
    <3>4. CASE PreConsumeTokenQuota(s)
      BY <3>4 DEF PreConsumeTokenQuota
    <3>5. CASE WalletPreConsume(s)
      BY <3>5 DEF WalletPreConsume, DecreaseUserQuota
    <3>6. CASE SubscriptionPreConsume(s)
      BY <3>6 DEF SubscriptionPreConsume
    <3>7. CASE RollbackToken(s)
      BY <3>7 DEF RollbackToken
    <3>8. CASE SyncRequestPricing(s)
      BY <3>8 DEF SyncRequestPricing, RefundWithResult, RefundEnds, needsRefundLocked, books
    <3>9. CASE DeferredRefund(s)
      BY <3>9 DEF DeferredRefund, RefundWithResult, RefundEnds, needsRefundLocked, books
    <3>10. CASE WalletRefund(s)
      BY <3>10 DEF WalletRefund, IncreaseUserQuota
    <3>11. CASE SubscriptionRefund(s)
      BY <3>11 DEF SubscriptionRefund
    <3>12. CASE RefundToken(s)
      BY <3>12 DEF RefundToken, RefundEnds
    <3>13. ASSUME NEW a \in Quotas, Settle(s, a)
           PROVE  wallet' >= 0 /\ PhaseOK(s)' /\ AmountsOK(s)'
      BY <3>13 DEF Settle, books
    <3>14. CASE SettleFunding(s)
      BY <3>14 DEF SettleFunding, Delta, DecreaseUserQuota, IncreaseUserQuota
    <3>15. CASE SettleToken(s)
      BY <3>15 DEF SettleToken
    <3>16. CASE AcceptedUnrecorded(s) \/ RetryTask(s) \/ Crash(s)
      BY <3>16 DEF AcceptedUnrecorded, RetryTask, Crash, books, session
    <3> QED
      BY <1>3, <3>1, <3>2, <3>3, <3>4, <3>5, <3>6, <3>7, <3>8, <3>9, <3>10, <3>11, <3>12,
         <3>13, <3>14, <3>15, <3>16
         DEF SessionStep
  <2> QED BY <2>2, <2>3 DEF SessionInv
<1> QED BY <1>1, <1>2, <1>3 DEF Next

LEMMA InvHolds == ASSUME RetryTimes = 0 PROVE Spec => []SessionInv
<1>1. Init => SessionInv
  BY DEF Init, SessionInv, PhaseOK, AmountsOK, Opening, Flagged
<1> QED BY <1>1, InvStep, TypeCorrect, PTL DEF Spec

-----------------------------------------------------------------------------
(* No account is overdrawn                                                 *)

\* However requests interleave, fail or die, and whatever the caches show, the
\* wallet and a limited token never go negative and the subscription never
\* exceeds its total: the guards in the UPDATE statements suffice.
THEOREM NoOverdraftHolds == Spec => []NoOverdraft
<1>1. Init => NoOverdraft
  BY DEF Init, NoOverdraft
<1>2. TypeOK /\ NoOverdraft /\ [Next]_vars => NoOverdraft'
  <2> SUFFICES ASSUME TypeOK, NoOverdraft, [Next]_vars PROVE NoOverdraft'
    OBVIOUS
  <2> USE DEF TypeOK, NoOverdraft
  <2>1. ASSUME UNCHANGED <<wallet, token, unlimited, used>> PROVE NoOverdraft'
    BY <2>1
  <2>2. ASSUME NEW s \in Requests, PreConsumeTokenQuota(s) PROVE NoOverdraft'
    BY <2>2 DEF PreConsumeTokenQuota, DecreaseTokenQuota
  <2>3. ASSUME NEW s \in Requests, WalletPreConsume(s) PROVE NoOverdraft'
    BY <2>3 DEF WalletPreConsume, DecreaseUserQuota
  <2>4. ASSUME NEW s \in Requests, SubscriptionPreConsume(s) PROVE NoOverdraft'
    BY <2>4 DEF SubscriptionPreConsume, SubHasRoom
  <2>5. ASSUME NEW s \in Requests, RollbackToken(s) \/ RefundToken(s) PROVE NoOverdraft'
    BY <2>5 DEF RollbackToken, RefundToken, IncreaseTokenQuota
  <2>6. ASSUME NEW s \in Requests, WalletRefund(s) PROVE NoOverdraft'
    BY <2>6 DEF WalletRefund, IncreaseUserQuota
  <2>7. ASSUME NEW s \in Requests, SubscriptionRefund(s) PROVE NoOverdraft'
    BY <2>7 DEF SubscriptionRefund, RefundSubscriptionPreConsume,
       PostConsumeUserSubscriptionDelta, UsedAfter
  <2>8. ASSUME NEW s \in Requests, SettleFunding(s) PROVE NoOverdraft'
    BY <2>8 DEF SettleFunding, Delta, PostConsumeUserSubscriptionDelta, UsedAfter,
       DecreaseUserQuota, IncreaseUserQuota
  <2>9. ASSUME NEW s \in Requests, SettleToken(s) PROVE NoOverdraft'
    BY <2>9 DEF SettleToken, Delta, DecreaseTokenQuota, IncreaseTokenQuota
  <2>10. CASE ResetSubscription
    BY <2>10 DEF ResetSubscription
  <2> QED
    BY <2>1, <2>2, <2>3, <2>4, <2>5, <2>6, <2>7, <2>8, <2>9, <2>10
       DEF Next, SessionStep, NewBillingSession, TryWallet, TrySubscription,
           SyncRequestPricing, DeferredRefund, Settle, AcceptedUnrecorded, RetryTask, Crash,
           ExpireSubscription, vars, books
<1> QED BY <1>1, <1>2, TypeCorrect, PTL DEF Spec

-----------------------------------------------------------------------------
(* The sessions implement the ledger                                       *)

\* A step that changes neither the wallet nor what s has taken or concluded is
\* a stutter of the ledger.
LedgerSame(s) ==
  /\ wallet' = wallet
  /\ WalletNet(s)' = WalletNet(s)
  /\ WalletFinal(s)' = WalletFinal(s)

\* A step that takes from or concludes s, in the ledger's terms.
LedgerMoves(s) ==
  /\ ~WalletFinal(s)
  /\ WalletNet(s)' \in Quotas \cup {0}
  /\ wallet + WalletNet(s) >= WalletNet(s)'
  /\ wallet' = wallet + WalletNet(s) - WalletNet(s)'
  /\ \/ WalletFinal(s)' = TRUE
     \/ WalletFinal(s)' = FALSE /\ WalletNet(s) = 0

\* What other requests have in the ledger does not change.
LEMMA LedgerIsLocal ==
  ASSUME TypeOK, NEW s \in Requests, OthersUnchanged(s),
         \A o \in Requests \ {s} : subRecord'[o] = subRecord[o]
  PROVE  \A o \in Requests \ {s} :
           WalletNet(o)' = WalletNet(o) /\ WalletFinal(o)' = WalletFinal(o)
BY DEF OthersUnchanged, WalletNet, WalletFinal, FundingNet, FundingRefunded, Flagged

LEMMA RecordIsLocal ==
  ASSUME TypeOK, NEW s \in Requests, SessionStep(s) \/ Crash(s)
  PROVE  \A o \in Requests \ {s} : subRecord'[o] = subRecord[o]
BY DEF TypeOK, SessionStep, NewBillingSession, TryWallet, TrySubscription,
   PreConsumeTokenQuota, WalletPreConsume, SubscriptionPreConsume, RollbackToken,
   SyncRequestPricing, DeferredRefund, WalletRefund, SubscriptionRefund,
   RefundSubscriptionPreConsume, RefundToken, Settle, SettleFunding, SettleToken,
   AcceptedUnrecorded, RetryTask, Crash, books

\* Each step of a session is a stutter or a move of its account.
LEMMA LedgerStep ==
  ASSUME RetryTimes = 0, TypeOK, SessionInv, NEW s \in Requests, SessionStep(s) \/ Crash(s)
  PROVE  LedgerSame(s) \/ LedgerMoves(s)
<1>1. PhaseOK(s) /\ AmountsOK(s) /\ wallet >= 0
  BY DEF SessionInv
<1> USE <1>1 DEF TypeOK, PhaseOK, AmountsOK, Opening, Decided, Flagged, WalletNet, WalletFinal,
        FundingNet, FundingRefunded, Goto, Raise, Fails, Flag, Failure
<1>2. CASE NewBillingSession(s) \/ AcceptedUnrecorded(s) \/ RetryTask(s) \/ Crash(s)
  BY <1>2 DEF NewBillingSession, AcceptedUnrecorded, RetryTask, Crash, LedgerSame, books, session
<1>3. CASE TryWallet(s) \/ TrySubscription(s)
  BY <1>3 DEF TryWallet, TryWalletOpens, TryWalletRefuses, TrySubscription, NewSession,
     LedgerSame, books, session
<1>4. CASE PreConsumeTokenQuota(s) \/ RollbackToken(s)
  BY <1>4 DEF PreConsumeTokenQuota, RollbackToken, LedgerSame
<1>5. CASE WalletPreConsume(s)
  BY <1>5 DEF WalletPreConsume, DecreaseUserQuota, LedgerSame, LedgerMoves
<1>6. CASE SubscriptionPreConsume(s) \/ SubscriptionRefund(s)
  BY <1>6 DEF SubscriptionPreConsume, SubscriptionRefund, LedgerSame
<1>7. CASE SyncRequestPricing(s) \/ DeferredRefund(s)
  BY <1>7 DEF SyncRequestPricing, DeferredRefund, RefundWithResult, RefundEnds, needsRefundLocked,
     LedgerSame, books
<1>8. CASE WalletRefund(s)
  BY <1>8 DEF WalletRefund, IncreaseUserQuota, LedgerSame, LedgerMoves
<1>9. CASE RefundToken(s)
  BY <1>9 DEF RefundToken, RefundEnds, LedgerSame
<1>10. ASSUME NEW a \in Quotas, Settle(s, a) PROVE LedgerSame(s) \/ LedgerMoves(s)
  BY <1>10 DEF Settle, LedgerSame, LedgerMoves, books
<1>11. CASE SettleFunding(s)
  BY <1>11 DEF SettleFunding, Delta, DecreaseUserQuota, IncreaseUserQuota, LedgerSame, LedgerMoves
<1>12. CASE SettleToken(s)
  BY <1>12 DEF SettleToken, LedgerSame
<1> QED
  BY <1>2, <1>3, <1>4, <1>5, <1>6, <1>7, <1>8, <1>9, <1>10, <1>11, <1>12 DEF SessionStep

\* The refinement: each step of the sessions is a step of the ledger or leaves
\* it as it is.
LEMMA LedgerNext ==
  ASSUME RetryTimes = 0
  PROVE  TypeOK /\ SessionInv /\ [Next]_vars => [WalletLedger!Next]_(WalletLedger!vars)
<1> SUFFICES ASSUME TypeOK, SessionInv, [Next]_vars
             PROVE  [WalletLedger!Next]_(WalletLedger!vars)
  OBVIOUS
<1> DEFINE taken == [s \in Requests |-> WalletNet(s)]
           final == [s \in Requests |-> WalletFinal(s)]
<1>1. ASSUME UNCHANGED <<wallet, subRecord, at, source, consumed, flags, errs, arg>>
      PROVE  UNCHANGED WalletLedger!vars
  BY <1>1 DEF WalletLedger!vars, WalletNet, WalletFinal, FundingNet, FundingRefunded, Flagged
<1>2. ASSUME NEW s \in Requests, SessionStep(s) \/ Crash(s)
      PROVE  [WalletLedger!Next]_(WalletLedger!vars)
  <2>1. OthersUnchanged(s)
    BY <1>2, StepIsLocal
  <2>2. \A o \in Requests \ {s} : subRecord'[o] = subRecord[o]
    BY <1>2, RecordIsLocal
  <2>3. \A o \in Requests \ {s} : WalletNet(o)' = WalletNet(o) /\ WalletFinal(o)' = WalletFinal(o)
    BY <2>1, <2>2, LedgerIsLocal
  <2>4. taken' = [o \in Requests |-> IF o = s THEN WalletNet(s)' ELSE WalletNet(o)]
    BY <2>3
  <2>5. final' = [o \in Requests |-> IF o = s THEN WalletFinal(s)' ELSE WalletFinal(o)]
    BY <2>3
  <2>6. CASE LedgerSame(s)
    <3>1. taken' = taken
      BY <2>4, <2>6 DEF LedgerSame
    <3>2. final' = final
      BY <2>5, <2>6 DEF LedgerSame
    <3> QED BY <2>6, <3>1, <3>2 DEF LedgerSame, WalletLedger!vars
  <2>7. CASE LedgerMoves(s)
    <3>1. taken' = [taken EXCEPT ![s] = WalletNet(s)']
      BY <2>4
    <3>2. \E n \in Quotas \cup {0} : WalletLedger!Take(s, n)
      BY <2>7, <3>1 DEF LedgerMoves, WalletLedger!Take
    <3>3. ~final[s]
      BY <2>7 DEF LedgerMoves
    <3>4. CASE WalletFinal(s)' = TRUE
      <4>1. final' = [final EXCEPT ![s] = TRUE]
        BY <2>5, <3>4
      <4> QED BY <3>2, <3>3, <4>1 DEF WalletLedger!Next, WalletLedger!Conclude
    <3>5. CASE WalletFinal(s)' = FALSE /\ WalletNet(s) = 0
      <4>1. final' = final
        BY <2>5, <2>7, <3>5 DEF LedgerMoves, WalletFinal
      <4>2. taken[s] = 0
        BY <3>5
      <4> QED BY <3>2, <3>3, <4>1, <4>2 DEF WalletLedger!Next, WalletLedger!Hold
    <3> QED BY <2>7, <3>4, <3>5 DEF LedgerMoves
  <2> QED BY <1>2, <2>6, <2>7, LedgerStep
<1> QED
  BY <1>1, <1>2 DEF Next, ResetSubscription, ExpireSubscription, vars, books, session

\* The sessions implement the ledger, for any number of requests and any
\* amounts: each request takes its pre-charge from the wallet at most once and
\* is concluded (settled or refunded) at most once, whatever fails or dies in
\* between, and the wallet changes by exactly that.  Retried submissions are
\* excluded: a retry may relay a request whose pre-charge was given back.
THEOREM LedgerImplemented == ASSUME RetryTimes = 0 PROVE Spec => ImplementsLedger
<1>1. Init => WalletLedger!Init
  BY DEF Init, WalletLedger!Init, WalletNet, WalletFinal
<1>2. TypeOK /\ SessionInv /\ [Next]_vars => [WalletLedger!Next]_(WalletLedger!vars)
  BY LedgerNext
<1> QED
  BY <1>1, <1>2, TypeCorrect, InvHolds, PTL DEF Spec, ImplementsLedger, WalletLedger!Spec

-----------------------------------------------------------------------------
(* Token and funding hold the same, without retries                        *)

\* Further, the token holds the pre-charge like the funding does, and a session
\* that closed as settled was not refunded and has its cost taken or needed no
\* change.
HeldOK(s) ==
  /\ at[s] \in {"start", "tryWallet", "trySub", "token", "denied"} => tokenConsumed[s] = 0
  /\ at[s] \in {"fund", "sync", "open", "settleFund", "settleToken", "closed"} =>
       tokenConsumed[s] = pre[s]
  /\ subRecord[s] = "refunded" => Flagged(s, "refunded")
  /\ at[s] = "closed" => ~Flagged(s, "refunded")
  /\ at[s] = "closed" /\ Flagged(s, "settled") => arg[s] = pre[s] \/ Flagged(s, "fundingSettled")

HeldInv == \A s \in Requests : HeldOK(s)

\* A step of a session changes nothing that HeldOK says of another request.
LEMMA HeldIsLocal ==
  ASSUME TypeOK, NEW s \in Requests, SessionStep(s), NEW o \in Requests \ {s}
  PROVE  /\ tokenConsumed'[o] = tokenConsumed[o] /\ subRecord'[o] = subRecord[o]
         /\ leak'[o] = leak[o] /\ req'[o] = req[o]
<1> USE DEF TypeOK, session, books
<1>1. CASE NewBillingSession(s) \/ TryWallet(s) \/ TrySubscription(s)
  BY <1>1 DEF NewBillingSession, TryWallet, TryWalletOpens, TryWalletRefuses, TrySubscription, NewSession
<1>2. CASE PreConsumeTokenQuota(s) \/ WalletPreConsume(s) \/ SubscriptionPreConsume(s)
  BY <1>2 DEF PreConsumeTokenQuota, WalletPreConsume, SubscriptionPreConsume
<1>3. CASE RollbackToken(s) \/ SyncRequestPricing(s) \/ DeferredRefund(s)
  BY <1>3 DEF RollbackToken, SyncRequestPricing, DeferredRefund
<1>4. CASE WalletRefund(s) \/ SubscriptionRefund(s) \/ RefundToken(s)
  BY <1>4 DEF WalletRefund, SubscriptionRefund, RefundSubscriptionPreConsume, RefundToken
<1>5. CASE \E a \in Quotas : Settle(s, a)
  BY <1>5 DEF Settle
<1>6. CASE SettleFunding(s) \/ SettleToken(s) \/ AcceptedUnrecorded(s) \/ RetryTask(s)
  BY <1>6 DEF SettleFunding, SettleToken, AcceptedUnrecorded, RetryTask
<1> QED BY <1>1, <1>2, <1>3, <1>4, <1>5, <1>6 DEF SessionStep

LEMMA HeldStep ==
  ASSUME RetryTimes = 0
  PROVE  TypeOK /\ SessionInv /\ HeldInv /\ [Next]_vars => HeldInv'
<1> SUFFICES ASSUME TypeOK, SessionInv, HeldInv, [Next]_vars PROVE HeldInv'
  OBVIOUS
<1> USE DEF TypeOK
<1>1. CASE UNCHANGED vars
  BY <1>1 DEF vars, books, session, HeldInv, HeldOK, Flagged
<1>2. CASE ResetSubscription \/ ExpireSubscription \/ \E s \in Requests : Crash(s)
  BY <1>2 DEF ResetSubscription, ExpireSubscription, Crash, books, session, HeldInv, HeldOK, Flagged
<1>3. ASSUME NEW s \in Requests, SessionStep(s) PROVE HeldInv'
  <2>1. HeldOK(s) /\ PhaseOK(s)
    BY DEF SessionInv, HeldInv
  <2>2. \A o \in Requests \ {s} : HeldOK(o)'
    BY <1>3, StepIsLocal, HeldIsLocal DEF OthersUnchanged, HeldInv, HeldOK, Flagged
  <2>3. HeldOK(s)'
    <3> USE <2>1 DEF HeldOK, PhaseOK, Flagged, Opening, Decided, Goto, Raise, Fails, Flag, At
    <3>1. CASE NewBillingSession(s)
      BY <3>1 DEF NewBillingSession, books, session
    <3>2. CASE TryWallet(s)
      BY <3>2, QuotaIsNat DEF TryWallet, TryWalletOpens, TryWalletRefuses, NewSession, books, session
    <3>3. CASE TrySubscription(s)
      BY <3>3 DEF TrySubscription, NewSession, books
    <3>4. CASE PreConsumeTokenQuota(s)
      BY <3>4 DEF PreConsumeTokenQuota
    <3>5. CASE WalletPreConsume(s)
      BY <3>5 DEF WalletPreConsume
    <3>6. CASE SubscriptionPreConsume(s)
      BY <3>6 DEF SubscriptionPreConsume
    <3>7. CASE RollbackToken(s)
      BY <3>7 DEF RollbackToken
    <3>8. CASE SyncRequestPricing(s) \/ DeferredRefund(s)
      BY <3>8 DEF SyncRequestPricing, DeferredRefund, RefundWithResult, RefundEnds, books
    <3>9. CASE WalletRefund(s)
      BY <3>9 DEF WalletRefund
    <3>10. CASE SubscriptionRefund(s)
      BY <3>10 DEF SubscriptionRefund, RefundSubscriptionPreConsume
    <3>11. CASE RefundToken(s)
      BY <3>11 DEF RefundToken, RefundEnds
    <3>12. ASSUME NEW a \in Quotas, Settle(s, a) PROVE HeldOK(s)'
      BY <3>12 DEF Settle, books
    <3>13. CASE SettleFunding(s)
      BY <3>13 DEF SettleFunding
    <3>14. CASE SettleToken(s)
      BY <3>14 DEF SettleToken
    <3>15. CASE AcceptedUnrecorded(s) \/ RetryTask(s)
      BY <3>15 DEF AcceptedUnrecorded, RetryTask, books, session
    <3> QED
      BY <1>3, <3>1, <3>2, <3>3, <3>4, <3>5, <3>6, <3>7, <3>8, <3>9, <3>10, <3>11, <3>12,
         <3>13, <3>14, <3>15
         DEF SessionStep
  <2> QED BY <2>2, <2>3 DEF HeldInv
<1> QED BY <1>1, <1>2, <1>3 DEF Next

LEMMA HeldHolds == ASSUME RetryTimes = 0 PROVE Spec => []HeldInv
<1>1. Init => HeldInv
  BY DEF Init, HeldInv, HeldOK, Flagged
<1> QED BY <1>1, HeldStep, InvHolds, TypeCorrect, PTL DEF Spec

-----------------------------------------------------------------------------
(* What becomes of the pre-charge, without retries                         *)

\* And what becomes of the pre-charge: errors arise only from the refund or the
\* settlement, a session that ended unrefunded had taken nothing, and a refund
\* without an error has reached the subscription's record.
RefundOK(s) ==
  /\ at[s] \in {"token", "fund", "rollback", "overflow"} \cup (At \ Opening) => source[s] # NoSource
  /\ at[s] \in Opening \cup {"sync", "open", "settleFund", "settleToken", "refundFund"} => errs[s] = {}
  /\ at[s] = "refundToken" => errs[s] \subseteq {"fundRefund"}
  /\ at[s] \in {"refundFund", "refundToken", "failed", "refused"} => tokenConsumed[s] = pre[s]
  /\ at[s] \in {"failed", "refused"} =>
       /\ Flagged(s, "refunded") \/ pre[s] = 0
       /\ flags[s] \cap {"settled", "fundingSettled"} = {}
       /\ "tokenSettle" \notin errs[s]
  /\ at[s] = "closed" /\ Flagged(s, "fundingSettled") => Flagged(s, "settled")
  /\ Flagged(s, "refunded") /\ at[s] # "refundFund" /\ source[s] = Subscription =>
       subRecord[s] = "refunded" \/ "fundRefund" \in errs[s]
  /\ req[s].playground => leak[s] = 0

RefundInv == \A s \in Requests : RefundOK(s)

LEMMA RefundStep ==
  ASSUME RetryTimes = 0
  PROVE  TypeOK /\ SessionInv /\ HeldInv /\ RefundInv /\ [Next]_vars => RefundInv'
<1> SUFFICES ASSUME TypeOK, SessionInv, HeldInv, RefundInv, [Next]_vars PROVE RefundInv'
  OBVIOUS
<1> USE DEF TypeOK
<1>1. CASE UNCHANGED vars
  BY <1>1 DEF vars, books, session, RefundInv, RefundOK, Flagged
<1>2. CASE ResetSubscription \/ ExpireSubscription \/ \E s \in Requests : Crash(s)
  BY <1>2 DEF ResetSubscription, ExpireSubscription, Crash, books, session, RefundInv, RefundOK,
     Flagged
<1>3. ASSUME NEW s \in Requests, SessionStep(s) PROVE RefundInv'
  <2>1. RefundOK(s) /\ HeldOK(s) /\ PhaseOK(s)
    BY DEF SessionInv, HeldInv, RefundInv
  <2>2. \A o \in Requests \ {s} : RefundOK(o)'
    BY <1>3, StepIsLocal, HeldIsLocal DEF OthersUnchanged, RefundInv, RefundOK, Flagged
  <2>3. RefundOK(s)'
    <3> USE <2>1 DEF RefundOK, HeldOK, PhaseOK, Flagged, Opening, Decided, Goto, Raise, Fails,
            Flag, Failure, At
    <3>1. CASE NewBillingSession(s)
      BY <3>1 DEF NewBillingSession, books, session
    <3>2. CASE TryWallet(s)
      BY <3>2 DEF TryWallet, TryWalletOpens, TryWalletRefuses, NewSession, books, session
    <3>3. CASE TrySubscription(s)
      BY <3>3 DEF TrySubscription, NewSession, books
    <3>4. CASE PreConsumeTokenQuota(s)
      BY <3>4 DEF PreConsumeTokenQuota
    <3>5. CASE WalletPreConsume(s)
      BY <3>5 DEF WalletPreConsume
    <3>6. CASE SubscriptionPreConsume(s)
      BY <3>6 DEF SubscriptionPreConsume
    <3>7. CASE RollbackToken(s)
      BY <3>7 DEF RollbackToken
    <3>8. CASE SyncRequestPricing(s) \/ DeferredRefund(s)
      BY <3>8 DEF SyncRequestPricing, DeferredRefund, RefundWithResult, RefundEnds,
         needsRefundLocked, books
    <3>9. CASE WalletRefund(s)
      BY <3>9 DEF WalletRefund
    <3>10. CASE SubscriptionRefund(s)
      BY <3>10 DEF SubscriptionRefund, RefundSubscriptionPreConsume
    <3>11. CASE RefundToken(s)
      BY <3>11 DEF RefundToken, RefundEnds
    <3>12. ASSUME NEW a \in Quotas, Settle(s, a) PROVE RefundOK(s)'
      BY <3>12 DEF Settle, books
    <3>13. CASE SettleFunding(s)
      BY <3>13 DEF SettleFunding
    <3>14. CASE SettleToken(s)
      BY <3>14 DEF SettleToken
    <3>15. CASE AcceptedUnrecorded(s) \/ RetryTask(s)
      BY <3>15 DEF AcceptedUnrecorded, RetryTask, books, session
    <3> QED
      BY <1>3, <3>1, <3>2, <3>3, <3>4, <3>5, <3>6, <3>7, <3>8, <3>9, <3>10, <3>11, <3>12,
         <3>13, <3>14, <3>15
         DEF SessionStep
  <2> QED BY <2>2, <2>3 DEF RefundInv
<1> QED BY <1>1, <1>2, <1>3 DEF Next

LEMMA RefundHolds == ASSUME RetryTimes = 0 PROVE Spec => []RefundInv
<1>1. Init => RefundInv
  BY DEF Init, RefundInv, RefundOK, Flagged, Opening, At
<1> QED BY <1>1, RefundStep, InvHolds, HeldHolds, TypeCorrect, PTL DEF Spec

\* What a request with a funding source has taken, from the one or the other.
LEMMA NetSplits ==
  ASSUME TypeOK, NEW s \in Requests
  PROVE  /\ source[s] # NoSource => WalletNet(s) + SubscriptionNet(s) = FundingNet(s)
         /\ FundingNet(s) = 0 => WalletNet(s) = 0 /\ SubscriptionNet(s) = 0
         /\ FundingNet(s) \in Nat
BY DEF TypeOK, WalletNet, SubscriptionNet, FundingNet

\* While a synchronous request or a first submission is relayed, its whole
\* pre-charge is held, whatever the other requests, the resets and the expiry
\* of the subscription do.  For a retried submission this is false.
THEOREM RelayedIsPaidHolds == ASSUME RetryTimes = 0 PROVE Spec => []RelayedIsPaid
<1>1. TypeOK /\ SessionInv /\ HeldInv /\ RefundInv => RelayedIsPaid
  <2> SUFFICES ASSUME TypeOK, SessionInv, HeldInv, RefundInv, NEW s \in Requests, at[s] = "open"
               PROVE  WalletNet(s) + SubscriptionNet(s) = pre[s]
    BY DEF RelayedIsPaid
  <2>1. consumed[s] = pre[s] /\ flags[s] \cap Decided = {}
    BY DEF SessionInv, PhaseOK, Opening
  <2>2. source[s] # NoSource /\ subRecord[s] # "refunded"
    BY <2>1 DEF HeldInv, HeldOK, RefundInv, RefundOK, Flagged, Decided, At, Opening
  <2>3. FundingNet(s) = pre[s]
    BY <2>1, <2>2 DEF FundingNet, FundingRefunded, Flagged, Decided
  <2> QED BY <2>2, <2>3, NetSplits
<1> QED BY <1>1, RefundHolds, HeldHolds, InvHolds, TypeCorrect, PTL

\* What the sessions say of a request that ended in an error without one of its
\* own statements failing.
LEMMA FailedNet ==
  ASSUME TypeOK, SessionInv, HeldInv, RefundInv, NEW s \in Requests,
         at[s] \in {"failed", "denied", "refused"}, errs[s] = {}
  PROVE  FundingNet(s) = 0 /\ TokenNet(s) = leak[s]
<1>1. PhaseOK(s) /\ HeldOK(s) /\ RefundOK(s)
  BY DEF SessionInv, HeldInv, RefundInv
<1>2. flags[s] \cap {"settled", "fundingSettled"} = {}
  BY <1>1 DEF PhaseOK, RefundOK, Opening
<1>3. CASE Flagged(s, "refunded")
  <2>1. at[s] # "denied"
    BY <1>1, <1>3 DEF PhaseOK, Opening, Flagged
  <2>2. FundingRefunded(s) /\ TokenRefunded(s)
    BY <1>1, <1>3, <2>1 DEF FundingRefunded, TokenRefunded, RefundOK
  <2> QED BY <1>1, <2>2 DEF FundingNet, TokenNet, RefundOK, TypeOK
<1>4. CASE ~Flagged(s, "refunded")
  <2>1. consumed[s] = 0 /\ tokenConsumed[s] = 0
    BY <1>1, <1>4 DEF PhaseOK, HeldOK, RefundOK, Opening
  <2>2. FundingNet(s) = 0
    BY <1>2, <2>1 DEF FundingNet, Flagged
  <2>3. TokenNet(s) = leak[s]
    BY <1>1, <1>2, <1>4, <2>1 DEF TokenNet, TokenRefunded, TokenSettled, RefundOK, TypeOK
  <2> QED BY <2>2, <2>3
<1> QED BY <1>3, <1>4

\* A request that was refused or failed has paid nothing from any account,
\* unless one of its own rollback or refund statements failed.
THEOREM FailedPaysNothingHolds == ASSUME RetryTimes = 0 PROVE Spec => []FailedPaysNothing
<1>1. TypeOK /\ SessionInv /\ HeldInv /\ RefundInv => FailedPaysNothing
  BY FailedNet, NetSplits DEF FailedPaysNothing
<1> QED BY <1>1, RefundHolds, HeldHolds, InvHolds, TypeCorrect, PTL

\* A finished API request has cost its token exactly what it has cost the wallet
\* or the subscription, unless a token statement failed.
THEOREM TokenFollowsFundingHolds == ASSUME RetryTimes = 0 PROVE Spec => []TokenFollowsFunding
<1>1. TypeOK /\ SessionInv /\ HeldInv /\ RefundInv => TokenFollowsFunding
  <2> SUFFICES ASSUME TypeOK, SessionInv, HeldInv, RefundInv, NEW s \in Requests,
                      at[s] \in {"closed", "failed", "denied", "refused"}, ~req[s].playground,
                      errs[s] = {}, leak[s] = 0
               PROVE  TokenNet(s) = WalletNet(s) + SubscriptionNet(s)
    BY DEF TokenFollowsFunding
  <2>1. CASE at[s] # "closed"
    BY <2>1, FailedNet, NetSplits
  <2>2. CASE at[s] = "closed"
    <3>1. /\ consumed[s] = pre[s] /\ tokenConsumed[s] = pre[s] /\ source[s] # NoSource
          /\ "refunded" \notin flags[s] /\ subRecord[s] # "refunded"
          /\ "fundingSettled" \in flags[s] => "settled" \in flags[s]
      BY <2>2 DEF SessionInv, HeldInv, RefundInv, PhaseOK, HeldOK, RefundOK, Opening, Flagged, At
    <3>2. FundingNet(s) = (IF "fundingSettled" \in flags[s] THEN arg[s] ELSE pre[s])
      BY <3>1 DEF FundingNet, FundingRefunded, Flagged
    <3>3. TokenNet(s) = (IF "fundingSettled" \in flags[s] THEN arg[s] ELSE pre[s])
      BY <3>1 DEF TokenNet, TokenRefunded, TokenSettled, Flagged, TypeOK
    <3> QED BY <3>1, <3>2, <3>3, NetSplits
  <2> QED BY <2>1, <2>2
<1> QED BY <1>1, RefundHolds, HeldHolds, InvHolds, TypeCorrect, PTL

-----------------------------------------------------------------------------
(* The books, without retries                                              *)

\* A step of a session changes the token by what the session's own account of
\* it changes by.
LEMMA TokenMoves ==
  ASSUME RetryTimes = 0, TypeOK, SessionInv, HeldInv, RefundInv, NEW s \in Requests, SessionStep(s)
  PROVE  token' = token + TokenNet(s) - TokenNet(s)'
<1>1. PhaseOK(s) /\ HeldOK(s) /\ RefundOK(s)
  BY DEF SessionInv, HeldInv, RefundInv
<1> USE <1>1 DEF TypeOK, PhaseOK, HeldOK, RefundOK, Opening, Decided, Flagged, TokenNet,
        TokenRefunded, TokenSettled, Goto, Raise, Fails, Flag, Failure
<1>2. CASE NewBillingSession(s) \/ AcceptedUnrecorded(s) \/ RetryTask(s)
  BY <1>2 DEF NewBillingSession, AcceptedUnrecorded, RetryTask, books, session
<1>3. CASE TryWallet(s) \/ TrySubscription(s)
  BY <1>3 DEF TryWallet, TryWalletOpens, TryWalletRefuses, TrySubscription, NewSession, books, session
<1>4. CASE PreConsumeTokenQuota(s)
  BY <1>4 DEF PreConsumeTokenQuota, DecreaseTokenQuota
<1>5. CASE RollbackToken(s)
  BY <1>5 DEF RollbackToken, IncreaseTokenQuota
<1>6. CASE WalletPreConsume(s) \/ SubscriptionPreConsume(s)
  BY <1>6 DEF WalletPreConsume, SubscriptionPreConsume
<1>7. CASE SyncRequestPricing(s) \/ DeferredRefund(s)
  BY <1>7 DEF SyncRequestPricing, DeferredRefund, RefundWithResult, RefundEnds, needsRefundLocked, books
<1>8. CASE WalletRefund(s) \/ SubscriptionRefund(s)
  BY <1>8 DEF WalletRefund, SubscriptionRefund
<1>9. CASE RefundToken(s)
  BY <1>9 DEF RefundToken, RefundEnds, IncreaseTokenQuota
<1>10. ASSUME NEW a \in Quotas, Settle(s, a) PROVE token' = token + TokenNet(s) - TokenNet(s)'
  BY <1>10 DEF Settle, books
<1>11. CASE SettleFunding(s)
  BY <1>11 DEF SettleFunding
<1>12. CASE SettleToken(s)
  BY <1>12 DEF SettleToken, Delta, DecreaseTokenQuota, IncreaseTokenQuota
<1> QED
  BY <1>2, <1>3, <1>4, <1>5, <1>6, <1>7, <1>8, <1>9, <1>10, <1>11, <1>12 DEF SessionStep

\* A step of a session changes the subscription's usage by what the session's
\* account of it changes by, as far as the clamp at 0 lets it.
LEMMA UsageMoves ==
  ASSUME RetryTimes = 0, TypeOK, SessionInv, HeldInv, used >= 0, NEW s \in Requests, SessionStep(s)
  PROVE  used' = UsedAfter(SubscriptionNet(s)' - SubscriptionNet(s)) /\ resets' = resets
<1>1. PhaseOK(s) /\ HeldOK(s)
  BY DEF SessionInv, HeldInv
<1> USE <1>1 DEF TypeOK, PhaseOK, HeldOK, Opening, Decided, Flagged, SubscriptionNet, FundingNet,
        FundingRefunded, UsedAfter, Goto, Raise, Fails, Flag, Failure
<1>2. CASE NewBillingSession(s) \/ AcceptedUnrecorded(s) \/ RetryTask(s)
  BY <1>2 DEF NewBillingSession, AcceptedUnrecorded, RetryTask, books, session
<1>3. CASE TryWallet(s) \/ TrySubscription(s)
  BY <1>3 DEF TryWallet, TryWalletOpens, TryWalletRefuses, TrySubscription, NewSession, books, session
<1>4. CASE PreConsumeTokenQuota(s) \/ RollbackToken(s) \/ RefundToken(s) \/ SettleToken(s)
  BY <1>4 DEF PreConsumeTokenQuota, RollbackToken, RefundToken, SettleToken
<1>5. CASE WalletPreConsume(s) \/ WalletRefund(s)
  BY <1>5 DEF WalletPreConsume, WalletRefund
<1>6. CASE SubscriptionPreConsume(s)
  BY <1>6 DEF SubscriptionPreConsume
<1>7. CASE SyncRequestPricing(s) \/ DeferredRefund(s)
  BY <1>7 DEF SyncRequestPricing, DeferredRefund, RefundWithResult, RefundEnds, needsRefundLocked, books
<1>8. CASE SubscriptionRefund(s)
  BY <1>8 DEF SubscriptionRefund, RefundSubscriptionPreConsume, PostConsumeUserSubscriptionDelta
<1>9. ASSUME NEW a \in Quotas, Settle(s, a)
      PROVE  used' = UsedAfter(SubscriptionNet(s)' - SubscriptionNet(s)) /\ resets' = resets
  BY <1>9 DEF Settle, books
<1>10. CASE SettleFunding(s)
  BY <1>10 DEF SettleFunding, Delta, PostConsumeUserSubscriptionDelta
<1> QED
  BY <1>2, <1>3, <1>4, <1>5, <1>6, <1>7, <1>8, <1>9, <1>10 DEF SessionStep

\* No step changes what another request has taken.
LEMMA NetsAreLocal ==
  ASSUME TypeOK, NEW s \in Requests, SessionStep(s), NEW o \in Requests \ {s}
  PROVE  TokenNet(o)' = TokenNet(o) /\ SubscriptionNet(o)' = SubscriptionNet(o)
<1>1. /\ at'[o] = at[o] /\ source'[o] = source[o] /\ consumed'[o] = consumed[o]
      /\ flags'[o] = flags[o] /\ errs'[o] = errs[o] /\ arg'[o] = arg[o]
  BY StepIsLocal DEF OthersUnchanged
<1>2. /\ tokenConsumed'[o] = tokenConsumed[o] /\ subRecord'[o] = subRecord[o]
      /\ leak'[o] = leak[o] /\ req'[o] = req[o]
  BY HeldIsLocal
<1> QED
  BY <1>1, <1>2 DEF TokenNet, TokenRefunded, TokenSettled, SubscriptionNet, FundingNet,
     FundingRefunded, Flagged

\* What a request has taken is a natural number, before and after a step.
LEMMA NetsAreNat ==
  ASSUME TypeOK
  PROVE  /\ [s \in Requests |-> TokenNet(s)] \in [Requests -> Nat]
         /\ [s \in Requests |-> SubscriptionNet(s)] \in [Requests -> Nat]
BY DEF TypeOK, TokenNet, SubscriptionNet, FundingNet

LEMMA NetsStayNat ==
  ASSUME TypeOK'
  PROVE  /\ [s \in Requests |-> TokenNet(s)]' \in [Requests -> Nat]
         /\ [s \in Requests |-> SubscriptionNet(s)]' \in [Requests -> Nat]
BY DEF TypeOK, TokenNet, SubscriptionNet, FundingNet

LEMMA SumIsNat ==
  ASSUME NEW g \in [Requests -> Nat]
  PROVE  SumFunction(g) \in Nat
<1>1. \A a, b \in Nat : a + b \in Nat
  OBVIOUS
<1> QED BY <1>1, SumInside, RequestsAssumption

LEMMA SumOfZeros ==
  ASSUME NEW g, g = [s \in Requests |-> 0]
  PROVE  SumFunction(g) = 0
<1>1. g \in [Requests -> {0}] /\ 0 \in {0} /\ \A a, b \in {0} : a + b \in {0}
  OBVIOUS
<1> QED BY <1>1, SumInside, RequestsAssumption

\* The token row accounts for every session at every moment, however the
\* sessions interleave, whichever of their statements fail and whoever dies.
THEOREM TokenBooksHolds == ASSUME RetryTimes = 0 PROVE Spec => []TokenBooks
<1> DEFINE net == [s \in Requests |-> TokenNet(s)]
<1>1. Init => TokenBooks
  <2> SUFFICES ASSUME Init PROVE TokenBooks
    OBVIOUS
  <2>1. net = [s \in Requests |-> 0]
    BY DEF Init, TokenNet, TokenRefunded, TokenSettled, Flagged
  <2>2. SumFunction(net) = 0
    BY <2>1, SumOfZeros
  <2> QED BY <2>2 DEF Init, TokenBooks
<1>2. TypeOK /\ SessionInv /\ HeldInv /\ RefundInv /\ TypeOK' /\ TokenBooks /\ [Next]_vars => TokenBooks'
  <2> SUFFICES ASSUME TypeOK, SessionInv, HeldInv, RefundInv, TypeOK', TokenBooks, [Next]_vars
               PROVE  TokenBooks'
    OBVIOUS
  <2>1. ASSUME NEW s \in Requests, SessionStep(s) PROVE TokenBooks'
    <3>1. net \in [Requests -> Nat] /\ net' \in [Requests -> Nat]
      BY NetsAreNat, NetsStayNat
    <3>2. \A o \in Requests \ {s} : net'[o] = net[o]
      BY <2>1, NetsAreLocal
    <3>3. net[s] = TokenNet(s) /\ net'[s] = TokenNet(s)'
      OBVIOUS
    <3>4. token' = token + net[s] - net'[s]
      BY <2>1, <3>3, TokenMoves
    <3>5. token = InitToken - SumFunction(net)
      BY DEF TokenBooks
    <3>6. token' = InitToken - SumFunction(net') => TokenBooks'
      BY DEF TokenBooks
    <3> HIDE DEF net
    <3>7. SumFunction(net') = SumFunction(net) + net'[s] - net[s]
      BY <3>1, <3>2, SumChanges, RequestsAssumption
    <3>8. SumFunction(net) \in Nat /\ net[s] \in Nat /\ net'[s] \in Nat
      BY <3>1, SumIsNat
    <3> QED BY <3>4, <3>5, <3>6, <3>7, <3>8
  <2>2. ASSUME UNCHANGED <<token, req, leak, flags, at, errs, arg, tokenConsumed>> PROVE TokenBooks'
    <3>1. net' = net
      BY <2>2 DEF TokenNet, TokenRefunded, TokenSettled, Flagged
    <3>2. SumFunction(net)' = SumFunction(net)
      BY <3>1
    <3> QED BY <2>2, <3>2 DEF TokenBooks
  <2>3. CASE ~\E s \in Requests : SessionStep(s)
    BY <2>2, <2>3 DEF Next, Crash, ResetSubscription, ExpireSubscription, vars, books, session
  <2> QED BY <2>1, <2>3
<1> QED BY <1>1, <1>2, RefundHolds, HeldHolds, InvHolds, TypeCorrect, PTL DEF Spec

\* The subscription never counts more than its sessions have taken, and exactly
\* that before its first reset, however often a refund is repeated.
THEOREM SubscriptionBooksHolds == ASSUME RetryTimes = 0 PROVE Spec => []SubscriptionBooks
<1> DEFINE net == [s \in Requests |-> SubscriptionNet(s)]
<1>1. Init => SubscriptionBooks
  <2> SUFFICES ASSUME Init PROVE SubscriptionBooks
    OBVIOUS
  <2>1. net = [s \in Requests |-> 0]
    BY DEF Init, SubscriptionNet
  <2>2. SumFunction(net) = 0
    BY <2>1, SumOfZeros
  <2> QED BY <2>2 DEF Init, SubscriptionBooks
<1>2. TypeOK /\ SessionInv /\ HeldInv /\ NoOverdraft /\ TypeOK' /\ SubscriptionBooks /\ [Next]_vars
        => SubscriptionBooks'
  <2> SUFFICES ASSUME TypeOK, SessionInv, HeldInv, NoOverdraft, TypeOK', SubscriptionBooks, [Next]_vars
               PROVE  SubscriptionBooks'
    OBVIOUS
  <2>1. used <= SumFunction(net) /\ (resets = 0 => used = SumFunction(net))
    BY DEF SubscriptionBooks
  <2>2. /\ used' <= SumFunction(net') /\ (resets' = 0 => used' = SumFunction(net'))
        => SubscriptionBooks'
    BY DEF SubscriptionBooks
  <2>3. net \in [Requests -> Nat] /\ net' \in [Requests -> Nat]
    BY NetsAreNat, NetsStayNat
  <2>4. used \in Int /\ used >= 0 /\ resets \in Nat /\ used' \in Int
    BY DEF TypeOK, NoOverdraft
  <2>5. ASSUME NEW s \in Requests, SessionStep(s) PROVE SubscriptionBooks'
    <3>1. \A o \in Requests \ {s} : net'[o] = net[o]
      BY <2>5, NetsAreLocal
    <3>2. net[s] = SubscriptionNet(s) /\ net'[s] = SubscriptionNet(s)'
      OBVIOUS
    <3>3. used' = UsedAfter(net'[s] - net[s]) /\ resets' = resets
      BY <2>4, <2>5, <3>2, UsageMoves
    <3> HIDE DEF net
    <3>4. SumFunction(net') = SumFunction(net) + net'[s] - net[s]
      BY <2>3, <3>1, SumChanges, RequestsAssumption
    <3>5. /\ SumFunction(net) \in Nat /\ SumFunction(net') \in Nat
          /\ net[s] \in Nat /\ net'[s] \in Nat
      BY <2>3, SumIsNat
    <3> QED BY <2>1, <2>2, <2>4, <3>3, <3>4, <3>5 DEF UsedAfter
  <2>6. ASSUME UNCHANGED <<source, flags, at, errs, arg, consumed, subRecord>> PROVE net' = net
    BY <2>6 DEF SubscriptionNet, FundingNet, FundingRefunded, Flagged
  <2>7. SumFunction(net) \in Nat
    BY <2>3, SumIsNat
  <2>8. CASE ResetSubscription
    <3>1. net' = net /\ used' = 0 /\ resets' = resets + 1
      BY <2>6, <2>8 DEF ResetSubscription, session
    <3> HIDE DEF net
    <3> QED BY <2>2, <2>4, <2>7, <3>1
  <2>9. CASE ~ResetSubscription /\ ~\E s \in Requests : SessionStep(s)
    <3>1. UNCHANGED <<source, flags, at, errs, arg, consumed, subRecord>> /\ UNCHANGED <<used, resets>>
      BY <2>9 DEF Next, Crash, ExpireSubscription, vars, books, session
    <3>2. net' = net
      BY <2>6, <3>1
    <3> HIDE DEF net
    <3> QED BY <2>1, <2>2, <3>1, <3>2
  <2> QED BY <2>5, <2>8, <2>9
<1> QED BY <1>1, <1>2, NoOverdraftHolds, HeldHolds, InvHolds, TypeCorrect, PTL DEF Spec
=============================================================================
