----------------------------- MODULE TaskBilling -----------------------------
(***************************************************************************)
(* The money of one asynchronous task after the provider accepted it: the  *)
(* row of `tasks' (model/task.go), the end of its submission               *)
(* (controller/relay.go), the polling passes and their sweeps              *)
(* (service/task_polling.go), the administrator's refund                   *)
(* (service/task_billing.go) and the user's own query of a Gemini or       *)
(* Vertex task (relay/relay_task.go).                                      *)
(*                                                                         *)
(* Each of them works on a copy of the row it read earlier.  A copy is     *)
(* written back whole, guarded by the status alone; money moves in         *)
(* transactions guarded by the copy's quota.                               *)
(*                                                                         *)
(* The code is exposed to seven races between them.  `race' names the first  *)
(* one a behaviour meets, and the behaviour is followed no further: the    *)
(* properties say that nothing else can go wrong.                          *)
(***************************************************************************)
EXTENDS Integers

CONSTANTS
  Worker,  \* passes, administrators and queries under way at once
  Pre,     \* FinalPreConsumedQuota, what the submission reserved
  Target   \* the frozen price of the channel that took the task

ASSUME TaskAssumption == Pre \in Nat \ {0} /\ Target \in Nat

VARIABLES
  row,      \* the row of the task
  sub,      \* how far RelayTask has come with the accepted task
  charged,  \* what the user has paid for the task by now, refunds deducted
  work,     \* per worker: what it does next, for whom, and its copy of the row
  race      \* history: the race the behaviour has met

vars == <<row, sub, charged, work, race>>

Final == {"success", "failure", "cancelled"}
Status == {"new", "running"} \cup Final
Task == [status : Status, quota : {0, Pre, Target}, settle : {"pending", "completed"},
         refunded : BOOLEAN]
Job == {"poll", "timeout", "unrefunded", "pending", "admin", "query"}
Race == {"stale", "early", "half", "lost", "recharged", "bulk", "query"}

NoTask == [status |-> "new", quota |-> 0, settle |-> "pending", refunded |-> FALSE]
Idle == [pc |-> "idle", job |-> "poll", copy |-> NoTask]

TypeOK ==
  /\ row \in Task
  /\ sub \in {"none", "inserted", "settled", "unsettled", "recorded"}
  /\ charged \in Int
  /\ work \in [Worker -> [pc : {"idle", "write", "refund", "settle", "mark"}, job : Job, copy : Task]]
  /\ race \in Race \cup {"none"}

Init ==
  /\ row = NoTask
  /\ sub = "none"
  /\ charged = 0
  /\ work = [w \in Worker |-> Idle]
  /\ race = "none"

Met(kind, happens) == race' = IF happens THEN kind ELSE race

-----------------------------------------------------------------------------
(* RelayTask, once the provider has accepted the task                      *)

\* The row is inserted, with the pre-charge as its quota and the settlement
\* pending.
Insert ==
  /\ sub = "none" /\ sub' = "inserted"
  /\ row' = [NoTask EXCEPT !.quota = Pre]
  /\ charged' = Pre
  /\ UNCHANGED <<work, race>>

\* SettleBilling: it succeeds, fails, or fails at the token after the funding
\* was adjusted.
SettleBilling ==
  /\ sub = "inserted"
  /\ \/ sub' = "settled" /\ charged' = charged + (Target - Pre) /\ UNCHANGED race
     \/ Target # Pre /\ sub' = "unsettled" /\ UNCHANGED <<charged, race>>
     \/ /\ Target # Pre /\ sub' = "unsettled" /\ charged' = charged + (Target - Pre)
        /\ Met("half", TRUE)
  /\ UNCHANGED <<row, work>>

\* What was settled is recorded in the row, without a guard.  The statement
\* may fail, or the process die before it.
UpdateTaskInitialSettlement ==
  /\ sub \in {"settled", "unsettled"} /\ sub' = "recorded"
  /\ \/ /\ row' = IF sub = "settled" THEN [row EXCEPT !.quota = Target, !.settle = "completed"]
                                     ELSE [row EXCEPT !.quota = Pre, !.settle = "pending"]
        /\ UNCHANGED race
     \/ Met("lost", sub = "settled" /\ Target # Pre) /\ UNCHANGED row
  /\ UNCHANGED <<charged, work>>

\* The process dies before the settlement.
SubmissionDies ==
  /\ sub = "inserted" /\ sub' = "recorded"
  /\ UNCHANGED <<row, charged, work, race>>

-----------------------------------------------------------------------------
(* Reading the row                                                         *)

Goes(w, pc) == work' = [work EXCEPT ![w].pc = pc]
Reads(w, job, pc) == work' = [work EXCEPT ![w] = [pc |-> pc, job |-> job, copy |-> row]]
Returns(w) == work' = [work EXCEPT ![w] = Idle]
May(w) == work[w].pc = "idle" /\ sub # "none"

\* GetAllUnFinishSyncTasks and GetTimedOutUnfinishedTasks; the age is left open.
ReadUnfinished(w, job) ==
  /\ May(w) /\ job \in {"poll", "timeout"}
  /\ row.status \notin Final
  /\ Reads(w, job, "write")
  /\ UNCHANGED <<row, sub, charged, race>>

\* Mutant: a task whose settlement is open is left to the other sweep.
GetSettledFailedTasks(w) ==
  /\ May(w)
  /\ row.status = "failure" /\ row.quota > 0 /\ ~row.refunded /\ row.settle = "completed"
  /\ Reads(w, "unrefunded", "refund")
  /\ UNCHANGED <<row, sub, charged, race>>

GetUnrefundedFailedTasks(w) ==
  /\ May(w)
  /\ row.status = "failure" /\ row.quota > 0 /\ ~row.refunded
  /\ Reads(w, "unrefunded", "refund")
  /\ UNCHANGED <<row, sub, charged, race>>

GetPendingTaskSettlements(w) ==
  /\ May(w)
  /\ row.settle = "pending"
  /\ Reads(w, "pending", "settle")
  /\ UNCHANGED <<row, sub, charged, race>>

\* tryRealtimeFetch has the row whatever its status is.
Query(w) ==
  /\ May(w)
  /\ Reads(w, "query", "write")
  /\ UNCHANGED <<row, sub, charged, race>>

\* manuallyFailAndRefundTask: a task refunded already is reported so, one that
\* ended otherwise is refused, a failed one only refunded.
ManuallyFailAndRefundTask(w) ==
  /\ May(w)
  /\ ~(row.refunded /\ row.quota = 0) /\ row.status \notin {"success", "cancelled"}
  /\ Reads(w, "admin", IF row.status = "failure" THEN "refund" ELSE "write")
  /\ UNCHANGED <<row, sub, charged, race>>

-----------------------------------------------------------------------------
(* Writing the row                                                         *)

\* What the worker makes of the task: the provider's answer, or a failure.
Outcome(job) ==
  CASE job = "poll" -> {"running"} \cup Final
    [] job = "query" -> {"running", "success", "failure"}
    [] OTHER -> {"failure"}

\* The worker goes on to refund what its copy holds.
Refunds(w, to) == work[w].job # "query" /\ to \in {"failure", "cancelled"}

\* The copy is written over a row whose money has moved since it was read.
Stale(w) == row.quota # work[w].copy.quota \/ row.refunded # work[w].copy.refunded

\* Mutant: the copy is saved without looking at the status.
SaveCopy(w, to) ==
  /\ work[w].pc = "write" /\ to \in Outcome(work[w].job)
  /\ row' = [work[w].copy EXCEPT !.status = to]
  /\ IF Refunds(w, to) THEN Goes(w, "refund") ELSE Returns(w)
  /\ Met("stale", Stale(w))
  /\ UNCHANGED <<sub, charged>>

\* The whole copy is written if the status is still the one that was read;
\* a query may also lead out of a final status.
UpdateWithStatus(w, to) ==
  LET copy == work[w].copy
  IN  /\ work[w].pc = "write" /\ to \in Outcome(work[w].job)
      /\ IF row.status = copy.status
           THEN /\ row' = [copy EXCEPT !.status = to]
                /\ IF Refunds(w, to) THEN Goes(w, "refund") ELSE Returns(w)
                /\ IF Stale(w) THEN Met("stale", TRUE)
                   ELSE Met("query", copy.status \in Final /\ to # copy.status)
           ELSE Returns(w) /\ UNCHANGED <<row, race>>
      /\ UNCHANGED <<sub, charged>>

\* TaskBulkUpdateByID: the channel of the task, or its upstream id, is
\* missing; the status is not compared.
TaskBulkUpdateByID(w) ==
  /\ work[w].pc = "write" /\ work[w].job = "poll"
  /\ row' = [row EXCEPT !.status = "failure"]
  /\ Returns(w)
  /\ Met("bulk", row.status = "success")
  /\ UNCHANGED <<sub, charged>>

-----------------------------------------------------------------------------
(* Moving the money                                                        *)

\* Mutant: the copy's quota is refunded whatever the row says.
RefundCopy(w) ==
  /\ work[w].pc = "refund"
  /\ row' = [row EXCEPT !.quota = 0, !.refunded = TRUE]
  /\ charged' = charged - work[w].copy.quota
  /\ Met("early", sub # "recorded")
  /\ Returns(w)
  /\ UNCHANGED sub

\* RefundTaskQuota and ApplyTaskRefund, one transaction: a task refunded
\* already is left alone, a quota other than the copy's is refused.
ApplyTaskRefund(w) ==
  LET quota == work[w].copy.quota
  IN  /\ work[w].pc = "refund"
      /\ \/ /\ quota # 0 /\ row.quota = quota
            /\ row' = [row EXCEPT !.quota = 0, !.refunded = TRUE]
            /\ charged' = charged - quota
            /\ Met("early", sub # "recorded")
         \/ (quota = 0 \/ row.quota # quota) /\ UNCHANGED <<row, charged, race>>
      /\ Returns(w)
      /\ UNCHANGED sub

\* RecalculateTaskQuota and ApplyTaskSettlement, one transaction, from the
\* copy's quota to the target; an error, also one after the commit, leads to
\* MarkTaskSettlementPending.
ApplyTaskSettlement(w) ==
  LET quota == work[w].copy.quota
      settled == row.quota = Target /\ row.settle = "completed"
  IN  /\ work[w].pc = "settle"
      /\ \/ settled /\ Returns(w) /\ UNCHANGED <<row, charged, race>>
         \/ /\ ~settled /\ row.quota = quota
            /\ row' = [row EXCEPT !.quota = Target, !.settle = "completed"]
            /\ charged' = charged + (Target - quota)
            /\ IF sub # "recorded" THEN Met("early", Target # quota)
               ELSE Met("recharged", row.refunded /\ Target # quota)
            /\ Returns(w) \/ Goes(w, "mark")
         \/ ~settled /\ Goes(w, "mark") /\ UNCHANGED <<row, charged, race>>
      /\ UNCHANGED sub

MarkTaskSettlementPending(w) ==
  /\ work[w].pc = "mark"
  /\ row' = [row EXCEPT !.settle = "pending"]
  /\ Returns(w)
  /\ UNCHANGED <<sub, charged, race>>

\* A statement fails, the provider does not answer, the lease is lost or the
\* process dies.
Stop(w) ==
  /\ work[w].pc # "idle"
  /\ Returns(w)
  /\ UNCHANGED <<row, sub, charged, race>>

-----------------------------------------------------------------------------
Step(w) ==
  \/ \E job \in {"poll", "timeout"} : ReadUnfinished(w, job)
  \/ GetUnrefundedFailedTasks(w) \/ GetPendingTaskSettlements(w)
  \/ Query(w) \/ ManuallyFailAndRefundTask(w)
  \/ \E to \in Status : UpdateWithStatus(w, to)
  \/ TaskBulkUpdateByID(w)
  \/ ApplyTaskRefund(w) \/ ApplyTaskSettlement(w) \/ MarkTaskSettlementPending(w)
  \/ Stop(w)

Next ==
  /\ race = "none"
  /\ \/ Insert \/ SettleBilling \/ UpdateTaskInitialSettlement \/ SubmissionDies
     \/ \E w \in Worker : Step(w)

Spec == Init /\ [][Next]_vars

\* Workers end.  Polling passes are scheduled while a failed task holds a
\* quota (HasTaskPollingWork) and begin with the sweep, and a refund that is
\* tried again and again does not fail forever.
FairSpec ==
  /\ Spec
  /\ \A w \in Worker : WF_vars(race = "none" /\ Stop(w))
  /\ \A w \in Worker : SF_vars(race = "none" /\ ApplyTaskRefund(w))
  /\ SF_vars(race = "none" /\ \E w \in Worker : GetUnrefundedFailedTasks(w))

-----------------------------------------------------------------------------
(* Properties                                                              *)

\* Without one of the races, the quota of the row is what the user has paid,
\* whichever copies the passes, the administrator and the queries work on.
Books ==
  race = "none" => charged = IF sub = "settled" THEN Target ELSE row.quota

\* A task that was delivered is paid for: no timeout, sweep or administrator
\* that saw it unfinished refunds it.
DeliveredIsPaid == race = "none" /\ row.status = "success" => charged \in {Pre, Target}

\* A failed task that holds a quota is refunded in the end.
EventuallyRefunded ==
  row.status = "failure" /\ row.quota > 0 /\ ~row.refunded ~> row.quota = 0 \/ race # "none"
=============================================================================
