------------------------- MODULE PricingAuditProofs -------------------------
(***************************************************************************)
(* Theorems about PricingAudit: the audit does not disturb the billing     *)
(* sessions it runs beside, and a settled snapshot tells the truth.        *)
(***************************************************************************)
EXTENDS PricingAudit, BillingSessionProofs

USE QuotasAssumption, AmountsAssumption, ReqAssumption, SourcesAssumption

-----------------------------------------------------------------------------
(* The sessions under the audit are the sessions of BillingSession         *)

LEMMA SessionStepKeepsDead ==
  ASSUME NEW s \in Requests, SessionStep(s) PROVE dead' = dead
BY DEF SessionStep, NewBillingSession, TryWallet, TrySubscription, PreConsumeTokenQuota,
   WalletPreConsume, SubscriptionPreConsume, RollbackToken, SyncRequestPricing,
   DeferredRefund, WalletRefund, SubscriptionRefund, RefundToken, Settle, SettleFunding,
   SettleToken, AcceptedUnrecorded, RetryTask

\* Every step of the composition is a step of one session, or leaves the
\* sessions and their accounts alone.
LEMMA AuditStepSplits ==
  ASSUME [AuditNext]_auditVars
  PROVE  \/ \E s \in Requests : (Session(s) \/ SyncRequestPricingPreConsume(s)) /\ SessionStep(s)
         \/ (ResetSubscription \/ ExpireSubscription) /\ UNCHANGED audit
         \/ UNCHANGED vars
BY DEF AuditNext, auditVars, AuditStep, Sweep, Session, SyncRequestPricingPreConsume,
   SessionStep, CreateRequestPricingSnapshot, MarkRequestPricingRefunded,
   markPricingSnapshotPending, DeferredUncharged, SettleRequestPricingSnapshot, Die,
   ReconcileStale, ClassifyStalePending, AdminConfirmRefunded, PurgeFinalized

\* A restart shows in the audit as a request that does nothing more.
NobodyDead == dead = {}

LEMMA AuditStepRefines ==
  NobodyDead /\ [AuditNext]_auditVars => [Next]_vars /\ NobodyDead'
<1> SUFFICES ASSUME dead = {}, [AuditNext]_auditVars PROVE [Next]_vars /\ dead' = {}
  BY DEF NobodyDead
<1>1. ASSUME NEW s \in Requests, SessionStep(s) PROVE Next /\ dead' = {}
  BY <1>1, SessionStepKeepsDead DEF Next
<1>2. CASE ResetSubscription \/ ExpireSubscription
  BY <1>2 DEF Next, ResetSubscription, ExpireSubscription
<1>3. CASE UNCHANGED vars
  BY <1>3 DEF vars
<1> QED BY <1>1, <1>2, <1>3, AuditStepSplits

\* The composed specification implements BillingSession: whatever the audit
\* statements, the sweeps, the administrator and restarts do, the accounts and
\* the sessions behave as specified there.
THEOREM SessionsImplemented == AuditSpec => Spec
<1>1. AuditInit => Init /\ NobodyDead
  BY DEF AuditInit, Init, NobodyDead
<1> QED BY <1>1, AuditStepRefines, PTL DEF AuditSpec, Spec

\* No account is overdrawn in the composition either.
THEOREM AuditNoOverdraft == AuditSpec => []NoOverdraft
BY SessionsImplemented, NoOverdraftHolds, PTL

-----------------------------------------------------------------------------
(* Types of the audit                                                      *)

\* What the statements write: well-typed rows, with these fields.
LEMMA RowsWritten ==
  ASSUME TypeOK, AuditTypeOK, NEW s \in Requests
  PROVE  /\ Reserved \in Snapshot /\ Reserved.status = "reserved"
         /\ Captured(s) \in Snapshot /\ Captured(s).status = snap[s].status
         /\ Settled(s) \in Snapshot /\ Settled(s).settled = arg[s]
         /\ NotCharged(s) \in Snapshot /\ NotCharged(s).status = "refunded"
         /\ \A how \in Resolution :
              Refunded(s, how) \in Snapshot /\ Refunded(s, how).status = "refunded"
         /\ \A st \in Status : Marked(s, st) \in Snapshot /\ Marked(s, st).status = st
<1>0. /\ snap[s] \in Snapshot /\ pre[s] \in Nat /\ arg[s] \in Nat
      /\ (IF req[s].playground THEN 0 ELSE pre[s]) \in Nat
  BY DEF TypeOK, AuditTypeOK
<1> USE <1>0 DEF Snapshot, Status, Unfinished, Resolution
<1>1. Reserved \in Snapshot /\ Reserved.status = "reserved"
  BY DEF Reserved
<1>2. Captured(s) \in Snapshot /\ Captured(s).status = snap[s].status
  BY DEF Captured
<1>3. Settled(s) \in Snapshot /\ Settled(s).settled = arg[s]
  BY DEF Settled
<1>4. NotCharged(s) \in Snapshot /\ NotCharged(s).status = "refunded"
  BY DEF NotCharged
<1>5. ASSUME NEW how \in Resolution
      PROVE  Refunded(s, how) \in Snapshot /\ Refunded(s, how).status = "refunded"
  BY <1>5 DEF Refunded
<1>6. ASSUME NEW st \in Status
      PROVE  Marked(s, st) \in Snapshot /\ Marked(s, st).status = st
  BY <1>6 DEF Marked
<1> QED BY <1>1, <1>2, <1>3, <1>4, <1>5, <1>6

\* The names the statements write.
LEMMA Names ==
  /\ {"pending", "purged"} \subseteq Status
  /\ {"automatic_refund", "admin_confirmed_refund"} \subseteq Resolution
BY DEF Status, Unfinished, Resolution

\* A statement of s writes at most the row of s.
LEMMA WriteIsLocal ==
  ASSUME AuditTypeOK, NEW s \in Requests, NEW row, Write(s, row)
  PROVE  snap'[s] = row /\ \A o \in Requests \ {s} : snap'[o] = snap[o]
BY DEF AuditTypeOK, Write

LEMMA AuditTypeStep == TypeOK /\ AuditTypeOK /\ [AuditNext]_auditVars => AuditTypeOK'
<1> SUFFICES ASSUME TypeOK, AuditTypeOK, [AuditNext]_auditVars PROVE AuditTypeOK'
  OBVIOUS
<1>1. ASSUME NEW s \in Requests, NEW row \in Snapshot, Write(s, row) \/ UNCHANGED snap
      PROVE  snap' \in [Requests -> Snapshot]
  BY <1>1 DEF AuditTypeOK, Write
<1>2. ASSUME NEW s \in Requests, NEW t \in Todo, Then(s, t) \/ UNCHANGED todo
      PROVE  todo' \in [Requests -> Todo]
  BY <1>2 DEF AuditTypeOK, Then
<1>3. ASSUME NEW s \in Requests, Session(s) PROVE AuditTypeOK'
  BY <1>3, <1>2 DEF Session, Follow, AuditTypeOK
<1>4. ASSUME NEW s \in Requests, SyncRequestPricingPreConsume(s) PROVE AuditTypeOK'
  <2>1. todo' \in [Requests -> Todo]
    BY <1>4, <1>2 DEF SyncRequestPricingPreConsume, Follow
  <2>2. snap' \in [Requests -> Snapshot]
    BY <1>4, <1>1, RowsWritten DEF SyncRequestPricingPreConsume, AuditTypeOK
  <2> QED BY <2>1, <2>2 DEF AuditTypeOK
<1>5. ASSUME NEW s \in Requests, CreateRequestPricingSnapshot(s) PROVE AuditTypeOK'
  <2>1. todo' \in [Requests -> Todo]
    BY <1>5, <1>2 DEF CreateRequestPricingSnapshot, Todo
  <2>2. snap' \in [Requests -> Snapshot]
    BY <1>5, <1>1, RowsWritten, Names DEF CreateRequestPricingSnapshot, AuditTypeOK
  <2> QED BY <2>1, <2>2 DEF AuditTypeOK
<1>6. ASSUME NEW s \in Requests, MarkRequestPricingRefunded(s) PROVE AuditTypeOK'
  <2>1. todo' \in [Requests -> Todo]
    BY <1>6, <1>2 DEF MarkRequestPricingRefunded, Todo
  <2>2. snap' \in [Requests -> Snapshot]
    BY <1>6, <1>1, RowsWritten, Names DEF MarkRequestPricingRefunded, AuditTypeOK
  <2> QED BY <2>1, <2>2 DEF AuditTypeOK
<1>7. ASSUME NEW s \in Requests, markPricingSnapshotPending(s) PROVE AuditTypeOK'
  <2>1. todo' \in [Requests -> Todo]
    BY <1>7, <1>2 DEF markPricingSnapshotPending, Todo
  <2>2. snap' \in [Requests -> Snapshot]
    BY <1>7, <1>1, RowsWritten, Names DEF markPricingSnapshotPending, AuditTypeOK
  <2> QED BY <2>1, <2>2 DEF AuditTypeOK
<1>8. ASSUME NEW s \in Requests, SettleRequestPricingSnapshot(s) PROVE AuditTypeOK'
  <2>1. todo' \in [Requests -> Todo]
    BY <1>8, <1>2 DEF SettleRequestPricingSnapshot, Todo
  <2>2. snap' \in [Requests -> Snapshot]
    BY <1>8, <1>1, RowsWritten, Names DEF SettleRequestPricingSnapshot, AuditTypeOK
  <2> QED BY <2>1, <2>2 DEF AuditTypeOK
<1>9. ASSUME NEW s \in Requests, DeferredUncharged(s) \/ Die(s) PROVE AuditTypeOK'
  BY <1>9, <1>2 DEF DeferredUncharged, Die, Todo, AuditTypeOK
<1>10. ASSUME NEW s \in Requests, Sweep(s) PROVE AuditTypeOK'
  <2>1. todo' = todo
    BY <1>10 DEF Sweep, ReconcileStale, ClassifyStalePending, AdminConfirmRefunded, PurgeFinalized
  <2>2. snap' \in [Requests -> Snapshot]
    BY <1>10, <1>1, RowsWritten, Names
       DEF Sweep, ReconcileStale, ClassifyStalePending, AdminConfirmRefunded, PurgeFinalized
  <2> QED BY <2>1, <2>2 DEF AuditTypeOK
<1>11. CASE UNCHANGED audit
  BY <1>11 DEF audit, AuditTypeOK
<1> QED
  BY <1>3, <1>4, <1>5, <1>6, <1>7, <1>8, <1>9, <1>10, <1>11 DEF AuditNext, AuditStep, auditVars

\* The snapshots and the requests' audit positions always have their types; in
\* particular a settled quota is never negative.
THEOREM AuditTypeCorrect == AuditSpec => []AuditTypeOK
<1>1. AuditInit => AuditTypeOK
  BY DEF AuditInit, AuditTypeOK, Snapshot, NoSnapshot, Status, Unfinished, Resolution, Todo
<1> QED BY <1>1, AuditTypeStep, SessionsImplemented, TypeCorrect, PTL DEF AuditSpec

-----------------------------------------------------------------------------
(* A settled snapshot records the charge, without retries                  *)

\* The inductive invariant behind SettledAgrees, beside that of the sessions:
\* settling is only ever reached from a session that closed as settled.
SettlingOK(s) ==
  todo[s] = "settle" \/ snap[s].status = "settled" =>
    /\ at[s] = "closed" /\ Flagged(s, "settled") /\ "tokenSettle" \notin errs[s]
    /\ snap[s].status = "settled" => snap[s].settled = arg[s]

SettlingInv == \A s \in Requests : SettlingOK(s)

\* A closed session does nothing more.
LEMMA ClosedRests == ASSUME NEW s \in Requests, SessionStep(s) PROVE at[s] # "closed"
BY DEF SessionStep, NewBillingSession, TryWallet, TrySubscription, PreConsumeTokenQuota,
   WalletPreConsume, SubscriptionPreConsume, RollbackToken, SyncRequestPricing,
   DeferredRefund, WalletRefund, SubscriptionRefund, RefundToken, Settle, SettleFunding,
   SettleToken, AcceptedUnrecorded, RetryTask

LEMMA SettlingStep ==
  TypeOK /\ AuditTypeOK /\ SettlingInv /\ [AuditNext]_auditVars => SettlingInv'
<1> SUFFICES ASSUME TypeOK, AuditTypeOK, SettlingInv, [AuditNext]_auditVars PROVE SettlingInv'
  OBVIOUS
<1> USE DEF TypeOK, AuditTypeOK, SettlingInv, SettlingOK, Flagged
<1>1. ASSUME NEW s \in Requests, SessionStep(s), Session(s) \/ SyncRequestPricingPreConsume(s)
      PROVE  SettlingInv'
  <2>1. \A o \in Requests \ {s} : SettlingOK(o)'
    BY <1>1, StepIsLocal
       DEF OthersUnchanged, Session, SyncRequestPricingPreConsume, Follow, Then, Write
  <2>2. snap'[s].status # "settled"
    <3>1. snap[s].status # "settled"
      BY <1>1, ClosedRests
    <3>2. snap'[s] = snap[s] \/ snap'[s].status = snap[s].status
      BY <1>1, WriteIsLocal, RowsWritten, Names DEF Session, SyncRequestPricingPreConsume
    <3> QED BY <3>1, <3>2
  <2>3. todo'[s] = "settle" => at'[s] = "closed" /\ "settled" \in flags'[s] /\ "tokenSettle" \notin errs'[s]
    BY <1>1 DEF Session, SyncRequestPricingPreConsume, Follow, AuditFollows, Then
  <2> QED BY <2>1, <2>2, <2>3
<1>2. CASE UNCHANGED audit /\ (ResetSubscription \/ ExpireSubscription \/ UNCHANGED vars)
  BY <1>2 DEF audit, ResetSubscription, ExpireSubscription, vars, session
<1>3. ASSUME NEW s \in Requests, UNCHANGED vars,
             \/ CreateRequestPricingSnapshot(s) \/ MarkRequestPricingRefunded(s)
             \/ markPricingSnapshotPending(s) \/ DeferredUncharged(s) \/ Die(s) \/ Sweep(s)
      PROVE  SettlingInv'
  <2>1. UNCHANGED <<at, flags, errs, arg>>
    BY <1>3 DEF vars, session
  <2>2. \A o \in Requests : todo'[o] = "settle" => todo[o] = "settle"
    BY <1>3 DEF CreateRequestPricingSnapshot, MarkRequestPricingRefunded,
       markPricingSnapshotPending, DeferredUncharged, Die, Sweep, ReconcileStale,
       ClassifyStalePending, AdminConfirmRefunded, PurgeFinalized, Then
  <2>3. \A o \in Requests : snap'[o].status = "settled" => snap'[o] = snap[o]
    <3> USE WriteIsLocal, RowsWritten, Names
    <3>1. CASE CreateRequestPricingSnapshot(s)
      BY <3>1 DEF CreateRequestPricingSnapshot
    <3>2. CASE MarkRequestPricingRefunded(s)
      BY <3>2 DEF MarkRequestPricingRefunded
    <3>3. CASE markPricingSnapshotPending(s)
      BY <3>3 DEF markPricingSnapshotPending
    <3>4. CASE DeferredUncharged(s) \/ Die(s)
      BY <3>4 DEF DeferredUncharged, Die
    <3>5. CASE ReconcileStale(s) \/ PurgeFinalized(s)
      BY <3>5 DEF ReconcileStale, PurgeFinalized
    <3>6. CASE ClassifyStalePending(s) \/ AdminConfirmRefunded(s)
      BY <3>6 DEF ClassifyStalePending, AdminConfirmRefunded
    <3> QED BY <1>3, <3>1, <3>2, <3>3, <3>4, <3>5, <3>6 DEF Sweep
  <2> QED BY <2>1, <2>2, <2>3
<1>4. ASSUME NEW s \in Requests, SettleRequestPricingSnapshot(s) PROVE SettlingInv'
  <2>1. UNCHANGED <<at, flags, errs, arg>>
    BY <1>4 DEF SettleRequestPricingSnapshot, vars, session
  <2>2. \A o \in Requests : todo'[o] # todo[o] => todo[o] = "settle"
    BY <1>4 DEF SettleRequestPricingSnapshot, Then
  <2>3. \A o \in Requests :
          snap'[o] = snap[o] \/ (todo[o] = "settle" /\ snap'[o].settled = arg[o])
    BY <1>4, WriteIsLocal, RowsWritten, Names DEF SettleRequestPricingSnapshot
  <2> QED BY <1>4, <2>1, <2>2, <2>3 DEF SettleRequestPricingSnapshot, Then
<1> QED
  BY <1>1, <1>2, <1>3, <1>4
     DEF AuditNext, AuditStep, auditVars, Session, SyncRequestPricingPreConsume, SessionStep,
         CreateRequestPricingSnapshot, MarkRequestPricingRefunded, markPricingSnapshotPending,
         DeferredUncharged, Die, Sweep, ReconcileStale, ClassifyStalePending,
         AdminConfirmRefunded, PurgeFinalized

\* A settled snapshot records exactly what the request has cost its wallet or
\* subscription and its token, for any requests and amounts, whatever statement
\* failed and wherever the sweeps came in between.  Retried submissions are
\* excluded: a retried task may settle on a pre-charge that was given back.
THEOREM SettledAgreesHolds == ASSUME RetryTimes = 0 PROVE AuditSpec => []SettledAgrees
<1>1. AuditInit => SettlingInv
  BY DEF AuditInit, SettlingInv, SettlingOK, NoSnapshot
<1>2. TypeOK /\ SessionInv /\ HeldInv /\ SettlingInv => SettledAgrees
  <2> SUFFICES ASSUME TypeOK, SessionInv, HeldInv, SettlingInv, NEW s \in Requests,
                      snap[s].status = "settled"
               PROVE  /\ FundingNet(s) = snap[s].settled
                      /\ req[s].playground \/ TokenNet(s) = leak[s] + snap[s].settled
    BY DEF SettledAgrees
  <2>1. /\ at[s] = "closed" /\ "settled" \in flags[s] /\ "tokenSettle" \notin errs[s]
        /\ snap[s].settled = arg[s]
    BY DEF SettlingInv, SettlingOK, Flagged
  <2>2. /\ tokenConsumed[s] = pre[s] /\ subRecord[s] # "refunded" /\ "refunded" \notin flags[s]
        /\ arg[s] = pre[s] \/ "fundingSettled" \in flags[s]
    BY <2>1 DEF HeldInv, HeldOK, Flagged
  <2>3. consumed[s] = pre[s]
    BY <2>1 DEF SessionInv, PhaseOK, Opening
  <2>4. FundingNet(s) = arg[s]
    BY <2>2, <2>3 DEF FundingNet, FundingRefunded, Flagged
  <2>5. req[s].playground \/ TokenNet(s) = leak[s] + arg[s]
    BY <2>1, <2>2 DEF TokenNet, TokenRefunded, TokenSettled, Flagged
  <2> QED BY <2>1, <2>4, <2>5
<1> QED
  BY <1>1, <1>2, SettlingStep, AuditTypeCorrect, SessionsImplemented, TypeCorrect, InvHolds,
     HeldHolds, PTL DEF AuditSpec

-----------------------------------------------------------------------------
(* Closed snapshots                                                        *)

\* A request has a row to create only while it has none, and it closes its row
\* as refunded only if its session did not close as settled.
TodoOK(s) ==
  /\ todo[s] = "create" => snap[s].status = "none"
  /\ todo[s] \in {"refund", "finalRefund"} => at[s] # "closed" \/ ~Flagged(s, "settled")

\* A row is closed as refunded only for a session that ended, in an error and
\* without one of its own, if its request is no task.
RefundingOK(s) ==
  todo[s] \in {"refund", "finalRefund"} \/ snap[s].resolution = "automatic_refund" =>
    /\ at[s] \in {"failed", "denied", "refused", "closed"}
    /\ at[s] = "closed" \/ errs[s] # {} => req[s].task

TodoInv == \A s \in Requests : TodoOK(s)
RefundingInv == \A s \in Requests : RefundingOK(s)

\* What one statement beside the sessions may do to the row of s.
RowChanges(s) ==
  \/ snap'[s] = snap[s]
  \/ todo[s] = "create" /\ snap'[s] = Reserved
  \/ /\ todo[s] \in {"refund", "finalRefund"} /\ HasStatus(s, Unfinished \cup {"settled"})
     /\ snap'[s] = Refunded(s, "automatic_refund")
  \/ HasStatus(s, {"reserved"}) /\ snap'[s] = Marked(s, "pending")
  \/ todo[s] = "settle" /\ HasStatus(s, Unfinished) /\ snap'[s] = Settled(s)
  \/ /\ HasStatus(s, {"pending"}) /\ snap[s].captured /\ snap[s].pre = 0
     /\ snap'[s] = NotCharged(s)
  \/ HasStatus(s, {"pending"}) /\ snap'[s] = Refunded(s, "admin_confirmed_refund")
  \/ HasStatus(s, {"settled", "refunded"}) /\ snap'[s] = Marked(s, "purged")

\* And to what the request of s does next.
TodoChanges(s) ==
  \/ todo'[s] = todo[s] /\ (snap'[s] = snap[s] \/ snap[s].status # "none")
  \/ todo'[s] \in {"none", "end", "giveUp", "pend"}
  \/ todo'[s] = "finalRefund" /\ at[s] = "denied" /\ req[s].task /\ snap'[s] = snap[s]

OtherRowsUnchanged(s) ==
  \A o \in Requests \ {s} : snap'[o] = snap[o] /\ todo'[o] = todo[o]

RowStatement(s) ==
  UNCHANGED vars /\ RowChanges(s) /\ TodoChanges(s) /\ OtherRowsUnchanged(s)

\* The statements of the request, the sweeps and the administrator are of that
\* form.
LEMMA RowStatements ==
  ASSUME TypeOK, AuditTypeOK, NEW s \in Requests,
         \/ CreateRequestPricingSnapshot(s) \/ MarkRequestPricingRefunded(s)
         \/ markPricingSnapshotPending(s) \/ DeferredUncharged(s)
         \/ SettleRequestPricingSnapshot(s) \/ Die(s) \/ Sweep(s)
  PROVE  RowStatement(s)
<1> USE WriteIsLocal, RowsWritten, Names DEF RowStatement, RowChanges, TodoChanges, OtherRowsUnchanged
<1>1. ASSUME NEW t, Then(s, t)
      PROVE  todo'[s] = t /\ \A o \in Requests \ {s} : todo'[o] = todo[o]
  BY <1>1 DEF Then, AuditTypeOK
<1>2. CASE CreateRequestPricingSnapshot(s)
  BY <1>1, <1>2 DEF CreateRequestPricingSnapshot
<1>3. CASE MarkRequestPricingRefunded(s)
  BY <1>1, <1>3 DEF MarkRequestPricingRefunded
<1>4. CASE markPricingSnapshotPending(s)
  BY <1>1, <1>4 DEF markPricingSnapshotPending
<1>5. CASE DeferredUncharged(s) \/ Die(s)
  BY <1>1, <1>5 DEF DeferredUncharged, Die
<1>6. CASE SettleRequestPricingSnapshot(s)
  BY <1>1, <1>6 DEF SettleRequestPricingSnapshot
<1>7. CASE ReconcileStale(s) \/ PurgeFinalized(s)
  BY <1>7 DEF ReconcileStale, PurgeFinalized, HasStatus
<1>8. CASE ClassifyStalePending(s) \/ AdminConfirmRefunded(s)
  BY <1>8 DEF ClassifyStalePending, AdminConfirmRefunded, HasStatus
<1> QED BY <1>2, <1>3, <1>4, <1>5, <1>6, <1>7, <1>8 DEF Sweep

\* The fields that the proofs below compare.
LEMMA FieldsWritten ==
  ASSUME TypeOK, AuditTypeOK, NEW s \in Requests
  PROVE  /\ ~Reserved.captured /\ Reserved.resolution = "none"
         /\ Captured(s).pre = pre[s] /\ Captured(s).captured
         /\ Captured(s).resolution = snap[s].resolution
         /\ Settled(s).pre = snap[s].pre /\ Settled(s).captured = snap[s].captured
         /\ Settled(s).resolution = snap[s].resolution /\ Settled(s).status = "settled"
         /\ NotCharged(s).pre = snap[s].pre /\ NotCharged(s).captured = snap[s].captured
         /\ NotCharged(s).resolution = "automatic_no_charge"
         /\ \A how \in Resolution :
              /\ Refunded(s, how).pre = snap[s].pre /\ Refunded(s, how).captured = snap[s].captured
              /\ Refunded(s, how).resolution = how
         /\ \A st \in Status :
              /\ Marked(s, st).pre = snap[s].pre /\ Marked(s, st).captured = snap[s].captured
              /\ Marked(s, st).resolution = snap[s].resolution
<1>0. snap[s] \in Snapshot
  BY DEF AuditTypeOK
<1> USE <1>0 DEF Snapshot
<1>1. /\ ~Reserved.captured /\ Reserved.resolution = "none"
      /\ Captured(s).pre = pre[s] /\ Captured(s).captured
      /\ Captured(s).resolution = snap[s].resolution
  BY DEF Reserved, Captured
<1>2. /\ Settled(s).pre = snap[s].pre /\ Settled(s).captured = snap[s].captured
      /\ Settled(s).resolution = snap[s].resolution /\ Settled(s).status = "settled"
  BY DEF Settled
<1>3. /\ NotCharged(s).pre = snap[s].pre /\ NotCharged(s).captured = snap[s].captured
      /\ NotCharged(s).resolution = "automatic_no_charge"
  BY DEF NotCharged
<1>4. ASSUME NEW how \in Resolution
      PROVE  /\ Refunded(s, how).pre = snap[s].pre /\ Refunded(s, how).captured = snap[s].captured
             /\ Refunded(s, how).resolution = how
  BY DEF Refunded
<1>5. ASSUME NEW st \in Status
      PROVE  /\ Marked(s, st).pre = snap[s].pre /\ Marked(s, st).captured = snap[s].captured
             /\ Marked(s, st).resolution = snap[s].resolution
  BY DEF Marked
<1> QED BY <1>1, <1>2, <1>3, <1>4, <1>5

\* The steps of the composition, in these terms.
SessionMoves(s) == SessionStep(s) /\ (Session(s) \/ SyncRequestPricingPreConsume(s))

LEMMA AuditSteps ==
  ASSUME TypeOK, AuditTypeOK, [AuditNext]_auditVars
  PROVE  \/ \E s \in Requests : SessionMoves(s) \/ RowStatement(s)
         \/ UNCHANGED <<audit, at, req, pre, flags, errs>>
BY RowStatements
   DEF AuditNext, auditVars, AuditStep, Session, SyncRequestPricingPreConsume, SessionStep,
       SessionMoves, ResetSubscription, ExpireSubscription, vars, session

\* A session's step leaves the rows of other requests, its own row's status,
\* and, unless it captures the pre-charge, its own row alone.
LEMMA SessionMovesRow ==
  ASSUME TypeOK, AuditTypeOK, NEW s \in Requests, SessionMoves(s)
  PROVE  /\ todo[s] = "none" /\ \E t \in Todo : AuditFollows(s, t) /\ todo'[s] = t
         /\ OtherRowsUnchanged(s) /\ OthersUnchanged(s) /\ req' = req
         /\ \/ snap'[s] = snap[s]
            \/ HasStatus(s, Unfinished) /\ snap'[s] = Captured(s) /\ at[s] = "sync" /\ at'[s] = "open"
<1>1. OthersUnchanged(s)
  BY StepIsLocal DEF SessionMoves
<1>2. req' = req
  BY DEF SessionMoves, SessionStep, NewBillingSession, TryWallet, TrySubscription,
     PreConsumeTokenQuota, WalletPreConsume, SubscriptionPreConsume, RollbackToken,
     SyncRequestPricing, DeferredRefund, WalletRefund, SubscriptionRefund, RefundToken, Settle,
     SettleFunding, SettleToken, AcceptedUnrecorded, RetryTask
<1>3. /\ todo[s] = "none" /\ \E t \in Todo : AuditFollows(s, t) /\ todo'[s] = t
      /\ \A o \in Requests \ {s} : todo'[o] = todo[o]
  BY DEF SessionMoves, Session, SyncRequestPricingPreConsume, Follow, Then, AuditTypeOK
<1>4. /\ \A o \in Requests \ {s} : snap'[o] = snap[o]
      /\ \/ snap'[s] = snap[s]
         \/ HasStatus(s, Unfinished) /\ snap'[s] = Captured(s) /\ at[s] = "sync" /\ at'[s] = "open"
  BY WriteIsLocal DEF SessionMoves, Session, SyncRequestPricingPreConsume, SyncRequestPricing
<1> QED BY <1>1, <1>2, <1>3, <1>4 DEF OtherRowsUnchanged

LEMMA TodoStep ==
  TypeOK /\ AuditTypeOK /\ TodoInv /\ [AuditNext]_auditVars => TodoInv'
<1> SUFFICES ASSUME TypeOK, AuditTypeOK, TodoInv, [AuditNext]_auditVars PROVE TodoInv'
  OBVIOUS
<1> USE DEF TodoInv, TodoOK, Flagged
<1>1. ASSUME NEW s \in Requests, SessionMoves(s) PROVE TodoInv'
  BY <1>1, SessionMovesRow DEF OtherRowsUnchanged, OthersUnchanged, AuditFollows
<1>2. ASSUME NEW s \in Requests, RowStatement(s) PROVE TodoInv'
  <2>1. UNCHANGED <<at, flags>>
    BY <1>2 DEF RowStatement, vars, session
  <2>2. TodoOK(s)'
    BY <1>2, <2>1 DEF RowStatement, TodoChanges
  <2> QED BY <1>2, <2>1, <2>2 DEF RowStatement, OtherRowsUnchanged
<1>3. CASE UNCHANGED <<audit, at, req, pre, flags, errs>>
  BY <1>3 DEF audit
<1> QED BY <1>1, <1>2, <1>3, AuditSteps

\* A closed snapshot stays closed with its amounts, with retried submissions
\* too: no late statement of its request and no sweep opens it again.
THEOREM ClosedStaysHolds == AuditSpec => ClosedStays
<1>1. AuditInit => TodoInv /\ SettlingInv
  BY DEF AuditInit, TodoInv, TodoOK, SettlingInv, SettlingOK, NoSnapshot
<1>2. ASSUME TypeOK, AuditTypeOK, TodoInv, SettlingInv, [AuditNext]_auditVars, NEW s \in Requests,
             HasStatus(s, {"settled", "refunded", "purged"})
      PROVE  snap'[s] = snap[s] \/ snap'[s] = [snap[s] EXCEPT !.status = "purged"]
  <2>0. TodoOK(s) /\ SettlingOK(s) /\ ~HasStatus(s, Unfinished)
    BY <1>2 DEF TodoInv, SettlingInv, HasStatus, Unfinished
  <2>1. ASSUME NEW o \in Requests, SessionMoves(o) PROVE snap'[s] = snap[s]
    BY <1>2, <2>0, <2>1, SessionMovesRow DEF OtherRowsUnchanged
  <2>2. ASSUME NEW o \in Requests, RowStatement(o)
        PROVE  snap'[s] = snap[s] \/ snap'[s] = [snap[s] EXCEPT !.status = "purged"]
    <3>1. CASE o # s
      BY <2>2, <3>1 DEF RowStatement, OtherRowsUnchanged
    <3>2. CASE o = s
      <4>1. todo[s] # "create"
        BY <1>2, <2>0 DEF TodoOK, HasStatus
      <4>2. todo[s] \in {"refund", "finalRefund"} => ~HasStatus(s, {"settled"})
        BY <1>2, <2>0 DEF TodoOK, SettlingOK, HasStatus
      <4>3. ~HasStatus(s, {"reserved"}) /\ ~HasStatus(s, {"pending"})
        BY <1>2 DEF HasStatus
      <4>4. todo[s] \in {"refund", "finalRefund"} => ~HasStatus(s, Unfinished \cup {"settled"})
        BY <2>0, <4>2 DEF HasStatus
      <4> QED BY <2>0, <2>2, <3>2, <4>1, <4>3, <4>4 DEF RowStatement, RowChanges, Marked
    <3> QED BY <3>1, <3>2
  <2>3. CASE UNCHANGED <<audit, at, req, pre, flags, errs>>
    BY <2>3 DEF audit
  <2> QED BY <1>2, <2>1, <2>2, <2>3, AuditSteps
<1>3. TypeOK /\ AuditTypeOK /\ TodoInv /\ SettlingInv /\ [AuditNext]_auditVars =>
        [\A s \in Requests :
           HasStatus(s, {"settled", "refunded", "purged"}) =>
             snap'[s] = snap[s] \/ snap'[s] = [snap[s] EXCEPT !.status = "purged"]]_auditVars
  BY <1>2
<1> QED
  BY <1>1, <1>3, TodoStep, SettlingStep, AuditTypeCorrect, SessionsImplemented, TypeCorrect, PTL
     DEF AuditSpec, ClosedStays

-----------------------------------------------------------------------------
(* A refunded snapshot belongs to an unpaid request, without retries       *)

\* A session that ended in an error at most turns from refused to failed, with
\* the errors it had.
LEMMA FailedRests ==
  ASSUME RetryTimes = 0, TypeOK, SessionInv, HeldInv, RefundInv, NEW s \in Requests, SessionStep(s),
         at[s] \in {"failed", "denied", "refused", "closed"}
  PROVE  at[s] = "refused" /\ at'[s] = "failed" /\ errs' = errs
<1>1. PhaseOK(s) /\ RefundOK(s)
  BY DEF SessionInv, RefundInv
<1>2. DeferredRefund(s) /\ at[s] = "refused"
  BY DEF SessionStep, NewBillingSession, TryWallet, TrySubscription, PreConsumeTokenQuota,
     WalletPreConsume, SubscriptionPreConsume, RollbackToken, SyncRequestPricing,
     DeferredRefund, WalletRefund, SubscriptionRefund, RefundToken, Settle, SettleFunding,
     SettleToken, AcceptedUnrecorded, RetryTask, TypeOK
<1>3. ~needsRefundLocked(s)
  BY <1>1, <1>2 DEF PhaseOK, RefundOK, needsRefundLocked, Opening, Flagged, TypeOK
<1> QED BY <1>2, <1>3 DEF DeferredRefund, RefundWithResult, RefundEnds, Goto, TypeOK

\* What a session's last step was when the audit closes its row as refunded.
LEMMA RefundFollows ==
  ASSUME RetryTimes = 0, TypeOK, SessionInv, HeldInv, RefundInv, NEW s \in Requests, SessionStep(s),
         NEW t \in {"refund", "finalRefund"}, AuditFollows(s, t)
  PROVE  /\ at'[s] \in {"failed", "denied", "refused", "closed"}
         /\ at'[s] = "closed" \/ errs'[s] # {} => req[s].task
<1>1. /\ PhaseOK(s) /\ RefundOK(s)
  BY DEF SessionInv, RefundInv
<1>2. \/ at'[s] = "refused" /\ errs'[s] = {}
      \/ at'[s] = "failed" /\ (at[s] # "refundToken" \/ errs'[s] = {})
      \/ at'[s] = "closed" /\ at[s] = "open" /\ "settled" \notin flags'[s]
  BY DEF AuditFollows
<1>3. ASSUME at'[s] = "failed", at[s] # "refundToken" PROVE errs'[s] # {} => req[s].task
  <2>1. DeferredRefund(s) \/ SyncRequestPricing(s)
    BY <1>3 DEF SessionStep, NewBillingSession, TryWallet, TryWalletOpens, TryWalletRefuses,
       TrySubscription, PreConsumeTokenQuota,
       WalletPreConsume, SubscriptionPreConsume, RollbackToken, WalletRefund, SubscriptionRefund,
       RefundToken, Settle, SettleFunding, SettleToken, AcceptedUnrecorded, RetryTask, Goto, TypeOK
  <2> QED BY <1>1, <2>1 DEF DeferredRefund, SyncRequestPricing, RefundOK, Opening
<1>4. ASSUME at'[s] = "closed", at[s] = "open", "settled" \notin flags'[s] PROVE req[s].task
  BY <1>4 DEF SessionStep, NewBillingSession, TryWallet, TrySubscription, PreConsumeTokenQuota,
     WalletPreConsume, SubscriptionPreConsume, RollbackToken, SyncRequestPricing,
     DeferredRefund, RefundWithResult, RefundEnds, WalletRefund, SubscriptionRefund, RefundToken,
     Settle, SettleFunding, SettleToken, AcceptedUnrecorded, RetryTask, Goto, Raise, TypeOK
<1> QED BY <1>2, <1>3, <1>4

LEMMA RefundingStep ==
  ASSUME RetryTimes = 0
  PROVE  TypeOK /\ AuditTypeOK /\ SessionInv /\ HeldInv /\ RefundInv /\ RefundingInv
         /\ [AuditNext]_auditVars => RefundingInv'
<1> SUFFICES ASSUME TypeOK, AuditTypeOK, SessionInv, HeldInv, RefundInv, RefundingInv,
                    [AuditNext]_auditVars
             PROVE  RefundingInv'
  OBVIOUS
<1>1. ASSUME NEW s \in Requests, SessionMoves(s) PROVE RefundingInv'
  <2>1. \A o \in Requests \ {s} : RefundingOK(o)'
    BY <1>1, SessionMovesRow DEF RefundingInv, RefundingOK, OtherRowsUnchanged, OthersUnchanged
  <2>2. req' = req /\ snap'[s].resolution = snap[s].resolution
    BY <1>1, SessionMovesRow, FieldsWritten
  <2>3. CASE snap[s].resolution = "automatic_refund"
    <3>1. /\ at[s] \in {"failed", "denied", "refused", "closed"}
          /\ at[s] = "closed" \/ errs[s] # {} => req[s].task
      BY <2>3 DEF RefundingInv, RefundingOK
    <3>2. at'[s] = "failed" /\ errs' = errs
      BY <1>1, <3>1, FailedRests DEF SessionMoves
    <3> QED BY <2>1, <2>2, <3>1, <3>2 DEF RefundingInv, RefundingOK
  <2>4. CASE snap[s].resolution # "automatic_refund"
    <3>1. PICK t \in Todo : AuditFollows(s, t) /\ todo'[s] = t
      BY <1>1, SessionMovesRow
    <3>2. t \in {"refund", "finalRefund"} =>
            /\ at'[s] \in {"failed", "denied", "refused", "closed"}
            /\ at'[s] = "closed" \/ errs'[s] # {} => req[s].task
      BY <1>1, <3>1, RefundFollows DEF SessionMoves
    <3> QED BY <2>1, <2>2, <2>4, <3>1, <3>2 DEF RefundingInv, RefundingOK
  <2> QED BY <2>3, <2>4
<1>2. ASSUME NEW s \in Requests, RowStatement(s) PROVE RefundingInv'
  <2>1. UNCHANGED <<at, errs, req>>
    BY <1>2 DEF RowStatement, vars, session
  <2>2. snap'[s].resolution = "automatic_refund" =>
          snap[s].resolution = "automatic_refund" \/ todo[s] \in {"refund", "finalRefund"}
    BY <1>2, FieldsWritten, Names DEF RowStatement, RowChanges
  <2>3. todo'[s] \in {"refund", "finalRefund"} =>
          todo[s] \in {"refund", "finalRefund"} \/ (at[s] = "denied" /\ req[s].task)
    BY <1>2 DEF RowStatement, TodoChanges
  <2>4. RefundingOK(s)'
    BY <2>1, <2>2, <2>3 DEF RefundingInv, RefundingOK
  <2> QED BY <1>2, <2>1, <2>4 DEF RowStatement, OtherRowsUnchanged, RefundingInv, RefundingOK
<1>3. CASE UNCHANGED <<audit, at, req, pre, flags, errs>>
  BY <1>3 DEF audit, RefundingInv, RefundingOK
<1> QED BY <1>1, <1>2, <1>3, AuditSteps

\* A snapshot closed as an automatic refund belongs to a request that has paid
\* nothing, but for the two ways of a task to be closed unpaid that
\* ClosedUnpaid names.
THEOREM RefundedAgreesHolds == ASSUME RetryTimes = 0 PROVE AuditSpec => []RefundedAgrees
<1>1. AuditInit => RefundingInv
  BY DEF AuditInit, RefundingInv, RefundingOK, NoSnapshot
<1>2. TypeOK /\ SessionInv /\ HeldInv /\ RefundInv /\ RefundingInv => RefundedAgrees
  <2> SUFFICES ASSUME TypeOK, SessionInv, HeldInv, RefundInv, RefundingInv, NEW s \in Requests,
                      ~ClosedUnpaid(s), snap[s].resolution = "automatic_refund"
               PROVE  FundingNet(s) = 0 /\ TokenNet(s) = leak[s]
    BY DEF RefundedAgrees, RefundedPaysNothing
  <2>1. /\ at[s] \in {"failed", "denied", "refused", "closed"}
        /\ at[s] = "closed" \/ errs[s] # {} => req[s].task
    BY DEF RefundingInv, RefundingOK
  <2>2. at[s] # "closed"
    BY <2>1 DEF ClosedUnpaid
  <2>3. errs[s] \subseteq {"fundRefund", "tokenRefund"}
    BY <2>1, <2>2 DEF RefundInv, RefundOK, Opening, TypeOK, Failure
  <2>4. errs[s] = {}
    BY <2>1, <2>3 DEF ClosedUnpaid
  <2> QED BY <2>1, <2>2, <2>4, FailedNet
<1> QED
  BY <1>1, <1>2, RefundingStep, AuditTypeCorrect, SessionsImplemented, TypeCorrect, InvHolds,
     HeldHolds, RefundHolds, PTL DEF AuditSpec
=============================================================================
