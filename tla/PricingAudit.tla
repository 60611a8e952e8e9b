---------------------------- MODULE PricingAudit ----------------------------
(***************************************************************************)
(* The pricing snapshot of every request (service/pricingruntime/audit.go) *)
(* beside its billing session: the row is written by statements of its own *)
(* before, between and after the session's, while the reconciliation task, *)
(* the purge and the administrator work on the same rows.                  *)
(*                                                                         *)
(* A request executes the audit statement todo names before its session    *)
(* goes on.  A snapshot may become stale while its request still runs, so  *)
(* the sweeps' age conditions are left open; the sweeps' UPDATEs treat     *)
(* each row by itself and appear as one step per row.                      *)
(***************************************************************************)
EXTENDS BillingSession

VARIABLES
  snap,  \* request -> its row of request_pricing_snapshots
  todo   \* request -> the audit statement it executes next; none: the session's turn

audit == <<snap, todo>>
auditVars == <<vars, audit>>

\* refund: inside PreConsumeBilling; finalRefund: at the end of the handler.
\* giveUp and pend mark the row pending, before and at the end of the handler.
Todo == {"create", "none", "refund", "giveUp", "finalRefund", "settle", "pend", "end"}

Unfinished == {"reserved", "pending"}
Status == Unfinished \cup {"none", "settled", "refunded", "purged"}
Resolution == {"none", "automatic_refund", "automatic_no_charge", "admin_confirmed_refund"}

Snapshot ==
  [status : Status, captured : BOOLEAN, pre : Nat, tokenPre : Nat, settled : Nat,
   resolution : Resolution]

NoSnapshot ==
  [status |-> "none", captured |-> FALSE, pre |-> 0, tokenPre |-> 0, settled |-> 0,
   resolution |-> "none"]

AuditInit ==
  /\ Init
  /\ snap = [s \in Requests |-> NoSnapshot]
  /\ todo = [s \in Requests |-> "create"]

\* The row after a statement on it.
Reserved ==
  [status |-> "reserved", captured |-> FALSE, pre |-> 0, tokenPre |-> 0, settled |-> 0,
   resolution |-> "none"]
Captured(s) ==
  [snap[s] EXCEPT !.captured = TRUE, !.pre = pre[s],
                  !.tokenPre = IF req[s].playground THEN 0 ELSE pre[s]]
Settled(s) == [snap[s] EXCEPT !.status = "settled", !.settled = arg[s]]
Refunded(s, how) == [snap[s] EXCEPT !.status = "refunded", !.settled = 0, !.resolution = how]
NotCharged(s) == [snap[s] EXCEPT !.status = "refunded", !.resolution = "automatic_no_charge"]
Marked(s, status) == [snap[s] EXCEPT !.status = status]

Then(s, t) == todo' = [todo EXCEPT ![s] = t]
Write(s, row) == snap' = [snap EXCEPT ![s] = row]
HasStatus(s, statuses) == snap[s].status \in statuses

-----------------------------------------------------------------------------
(* The request's own statements                                            *)

\* Without the row the request ends; a task that tries again is where it was.
CreateRequestPricingSnapshot(s) ==
  /\ todo[s] = "create"
  /\ \/ Write(s, Reserved) /\ Then(s, "none")
     \/ Then(s, "end") /\ UNCHANGED snap
  /\ UNCHANGED vars

\* What the handlers write after a step of the session.  A task that the
\* provider accepted but that first failed locally settles without a word to
\* the audit, or leaves the handler with the error it had.
AuditFollows(s, t) ==
  \/ at'[s] = "denied" /\ t = "giveUp"
  \/ at'[s] = "refused" /\ errs'[s] = {} /\ t = "refund"
  \/ at'[s] = "refused" /\ errs'[s] # {} /\ t = "giveUp"
  \/ at'[s] = "failed" /\ at[s] = "refundToken" /\ errs'[s] # {} /\ t = "pend"
  \/ at'[s] = "failed" /\ (at[s] # "refundToken" \/ errs'[s] = {}) /\ t = "finalRefund"
  \/ at'[s] = "closed" /\ "settled" \in flags'[s] /\ "tokenSettle" \notin errs'[s] /\ t = "settle"
  \/ at'[s] = "closed" /\ at[s] = "open" /\ "settled" \notin flags'[s] /\ t = "finalRefund"
  \/ at'[s] = "closed" /\ at[s] = "settleFund" /\ t = "pend"
  \/ at'[s] = "closed" /\ "tokenSettle" \in errs'[s] /\ t = "pend"
  \/ at'[s] = "closed" /\ (at[s] # "open" \/ "settled" \in flags'[s]) /\ req[s].task /\ t = "end"
  \/ at'[s] \notin {"denied", "refused", "failed", "closed"} /\ t = "none"

Follow(s) == \E t \in Todo : AuditFollows(s, t) /\ Then(s, t)

Session(s) ==
  /\ todo[s] = "none" /\ at[s] # "sync"
  /\ SessionStep(s)
  /\ Follow(s)
  /\ UNCHANGED snap

\* The sync step of PreConsumeBilling: it succeeds only on an unfinished row.
SyncRequestPricingPreConsume(s) ==
  /\ todo[s] = "none"
  /\ SyncRequestPricing(s)
  /\ IF at'[s] = "open"
       THEN /\ HasStatus(s, Unfinished)
            /\ Write(s, Captured(s))
       ELSE UNCHANGED snap
  /\ Follow(s)

\* Mutant: the callback does not look at the refund's error.
MarkRefundedAnyway(s) ==
  /\ todo[s] \in {"refund", "finalRefund", "pend"}
  /\ \/ HasStatus(s, Unfinished \cup {"settled"}) /\ Write(s, Refunded(s, "automatic_refund"))
     \/ UNCHANGED snap
  /\ Then(s, IF todo[s] = "refund" THEN "giveUp" ELSE "end")
  /\ UNCHANGED vars

\* An error, or a row that is gone or refunded already, changes nothing; inside
\* PreConsumeBilling the row is then marked pending.
MarkRequestPricingRefunded(s) ==
  /\ todo[s] \in {"refund", "finalRefund"}
  /\ \/ HasStatus(s, Unfinished \cup {"settled"}) /\ Write(s, Refunded(s, "automatic_refund"))
     \/ UNCHANGED snap
  /\ Then(s, IF todo[s] = "refund" THEN "giveUp" ELSE "end")
  /\ UNCHANGED vars

\* Mutant: every status is overwritten.
MarkAnyPending(s) ==
  /\ todo[s] \in {"giveUp", "pend"}
  /\ \/ Write(s, Marked(s, "pending"))
     \/ UNCHANGED snap
  /\ Then(s, IF todo[s] = "giveUp" /\ req[s].task THEN "none" ELSE "end")
  /\ UNCHANGED vars

\* Its error is dropped.  After giveUp, RelayTask still retries or runs its
\* deferred refund; Relay has not deferred anything yet.
markPricingSnapshotPending(s) ==
  /\ todo[s] \in {"giveUp", "pend"}
  /\ \/ HasStatus(s, {"reserved"}) /\ Write(s, Marked(s, "pending"))
     \/ UNCHANGED snap
  /\ Then(s, IF todo[s] = "giveUp" /\ req[s].task THEN "none" ELSE "end")
  /\ UNCHANGED vars

\* RelayTask without a session: the row of an uncharged task is refunded.
DeferredUncharged(s) ==
  /\ todo[s] = "none" /\ at[s] = "denied" /\ req[s].task
  /\ Then(s, "finalRefund")
  /\ UNCHANGED <<vars, snap>>

\* Mutant: the row is settled at the pre-charge.
SettleAtReservation(s) ==
  /\ todo[s] = "settle"
  /\ HasStatus(s, Unfinished)
  /\ Write(s, [snap[s] EXCEPT !.status = "settled", !.settled = pre[s]])
  /\ Then(s, "end")
  /\ UNCHANGED vars

\* A price that cannot be evaluated, a failing statement or a finished row is
\* an error, after which the row is marked pending.
SettleRequestPricingSnapshot(s) ==
  /\ todo[s] = "settle"
  /\ \/ /\ HasStatus(s, Unfinished)
        /\ Write(s, Settled(s))
        /\ Then(s, "end")
     \/ Then(s, "pend") /\ UNCHANGED snap
  /\ UNCHANGED vars

\* The process dies: nothing more of the request is executed.
Die(s) ==
  /\ todo[s] # "end"
  /\ Then(s, "end")
  /\ UNCHANGED <<vars, snap>>

-----------------------------------------------------------------------------
(* Sweeps and the administrator                                            *)

\* Mutant: only captured reservations are reconciled.
ReconcileCapturedOnly(s) ==
  /\ HasStatus(s, {"reserved"}) /\ snap[s].captured
  /\ Write(s, Marked(s, "pending"))
  /\ UNCHANGED <<vars, todo>>

\* ReconcileStaleRequestPricingSnapshots: its two UPDATEs, for captured and for
\* uncaptured rows, differ in the reason they record.
ReconcileStale(s) ==
  /\ HasStatus(s, {"reserved"})
  /\ Write(s, Marked(s, "pending"))
  /\ UNCHANGED <<vars, todo>>

\* ClassifyStalePendingPricingSnapshots
ClassifyStalePending(s) ==
  /\ HasStatus(s, {"pending"})
  /\ snap[s].captured /\ snap[s].pre = 0 /\ snap[s].tokenPre = 0
  /\ Write(s, NotCharged(s))
  /\ UNCHANGED <<vars, todo>>

AdminConfirmRefunded(s) ==
  /\ HasStatus(s, {"pending"}) /\ snap[s].captured
  /\ Write(s, Refunded(s, "admin_confirmed_refund"))
  /\ UNCHANGED <<vars, todo>>

\* PurgeFinalizedRequestPricingSnapshots: by then the request has long ended.
PurgeFinalized(s) ==
  /\ todo[s] = "end"
  /\ HasStatus(s, {"settled", "refunded"})
  /\ Write(s, Marked(s, "purged"))
  /\ UNCHANGED <<vars, todo>>

AuditStep(s) ==
  \/ CreateRequestPricingSnapshot(s) \/ SyncRequestPricingPreConsume(s)
  \/ MarkRequestPricingRefunded(s) \/ markPricingSnapshotPending(s)
  \/ DeferredUncharged(s) \/ SettleRequestPricingSnapshot(s)

Sweep(s) ==
  \/ ReconcileStale(s) \/ ClassifyStalePending(s) \/ AdminConfirmRefunded(s) \/ PurgeFinalized(s)

AuditNext ==
  \/ \E s \in Requests : Session(s) \/ AuditStep(s) \/ Die(s) \/ Sweep(s)
  \/ ResetSubscription /\ UNCHANGED audit
  \/ ExpireSubscription /\ UNCHANGED audit

AuditSpec == AuditInit /\ [][AuditNext]_auditVars

\* The reconciliation task is scheduled again and again (pricing_reconciliation
\* of the system task runner).
FairAuditSpec == AuditSpec /\ \A s \in Requests : WF_auditVars(ReconcileStale(s))

-----------------------------------------------------------------------------
(* Properties                                                              *)

AuditTypeOK ==
  /\ snap \in [Requests -> Snapshot]
  /\ todo \in [Requests -> Todo]

\* A settled snapshot records exactly what the request has cost the wallet or
\* the subscription, whatever failed and was swept on the way, and what it has
\* cost the token if no rollback failed (SettleBilling, then
\* SettleRequestPricingSnapshot).  Left out is a retried task that settles on a
\* session whose pre-charge PreConsumeBilling had refunded (RetryTask).
SettledAgrees ==
  \A s \in Requests :
    snap[s].status = "settled" /\ "refunded" \notin flags[s] =>
      /\ FundingNet(s) = snap[s].settled
      /\ req[s].playground \/ TokenNet(s) = leak[s] + snap[s].settled

RefundedPaysNothing(s) ==
  snap[s].resolution = "automatic_refund" => FundingNet(s) = 0 /\ TokenNet(s) = leak[s]

\* Two ways of a task to be closed as refunded although it is charged: the
\* provider accepted it but it could not be recorded, or a refund step failed
\* and a second RefundWithResult reported success.
ClosedUnpaid(s) ==
  req[s].task /\ (at[s] = "closed" \/ errs[s] \cap {"fundRefund", "tokenRefund"} # {})

\* A snapshot closed as an automatic refund belongs to a request that has paid
\* nothing: its refund succeeded, inside PreConsumeBilling or deferred, or it
\* never was charged (MarkRequestPricingRefunded).
RefundedAgrees == \A s \in Requests : ~ClosedUnpaid(s) => RefundedPaysNothing(s)

\* "Captured zero reservations are known to have charged nothing"
\* (ClassifyStalePendingPricingSnapshots): a request that the classification
\* closes as not charged has not been charged, and is not charged afterwards.
NoChargeAgrees ==
  \A s \in Requests : snap[s].resolution = "automatic_no_charge" => FundingNet(s) = 0

\* A closed snapshot is never opened again and keeps its amounts: late
\* statements of the request, the sweeps and the administrator do not undo it.
ClosedStays ==
  [][\A s \in Requests :
       HasStatus(s, {"settled", "refunded", "purged"}) =>
         snap'[s] = snap[s] \/ snap'[s] = [snap[s] EXCEPT !.status = "purged"]]_auditVars

\* A synchronous request that reserved something and ended with money taken, by
\* success, failure or the death of its process, does not stay hidden: its
\* snapshot ends up settled, waiting for review, or closed by an administrator
\* (ReconcileStaleRequestPricingSnapshots).
ChargeSurfaces ==
  \A s \in Requests :
    (todo[s] = "end" /\ ~req[s].task /\ pre[s] > 0 /\ FundingNet(s) > 0) ~>
      (\/ HasStatus(s, {"pending", "settled"})
       \/ HasStatus(s, {"purged"}) /\ snap[s].settled > 0
       \/ snap[s].resolution = "admin_confirmed_refund")
=============================================================================
