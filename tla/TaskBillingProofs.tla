-------------------------- MODULE TaskBillingProofs --------------------------
(***************************************************************************)
(* Proofs about TaskBilling, for any number of workers and any amounts.    *)
(*                                                                         *)
(* The books need to know what a copy may still say: a copy read before    *)
(* the submission was recorded holds the pre-charge, a copy that holds     *)
(* nothing was read from a row that holds nothing and never will, and a    *)
(* worker about to refund works on a task that failed for good.            *)
(***************************************************************************)
EXTENDS TaskBilling, TLAPS

Failed == {"failure", "cancelled"}

\* What holds of the row and its history until a race is met.
RowInv ==
  /\ charged = IF sub = "settled" THEN Target ELSE row.quota
  /\ sub = "none" => row = NoTask
  /\ sub \in {"inserted", "settled", "unsettled"} => row.quota = Pre /\ ~row.refunded
  /\ sub = "recorded" /\ row.quota = 0 => row.refunded \/ Target = 0
  /\ row.refunded => row.quota = 0 /\ row.status \in Failed

\* What holds of a worker.
WorkInv(w) ==
  /\ sub = "none" => work[w].pc = "idle"
  /\ work[w].pc # "idle" /\ work[w].copy.quota = 0 => sub = "recorded" /\ row.quota = 0
  /\ work[w].pc = "write" /\ work[w].job # "query" => work[w].copy.status \notin Final
  /\ work[w].pc = "refund" => row.status \in Failed

IInv ==
  /\ TypeOK
  /\ race = "none" => RowInv /\ \A w \in Worker : WorkInv(w)

\* A worker's record and the types of what it may become.
WorkRecord == [pc : {"idle", "write", "refund", "settle", "mark"}, job : Job, copy : Task]

\* The initial records are of their types.
LEMMA IdleType == NoTask \in Task /\ Idle \in WorkRecord
BY TaskAssumption DEF NoTask, Idle, Task, Status, Final, WorkRecord, Job

\* What a worker becomes when it reads, goes on or returns; the others stay.
LEMMA WorkSteps ==
  ASSUME TypeOK, NEW w \in Worker
  PROVE  /\ Returns(w) => /\ work' \in [Worker -> WorkRecord] /\ work'[w] = Idle
                          /\ \A v \in Worker \ {w} : work'[v] = work[v]
         /\ \A pc \in {"idle", "write", "refund", "settle", "mark"} :
              Goes(w, pc) => /\ work' \in [Worker -> WorkRecord]
                             /\ work'[w].pc = pc /\ work'[w].job = work[w].job
                             /\ work'[w].copy = work[w].copy
                             /\ \A v \in Worker \ {w} : work'[v] = work[v]
         /\ \A pc \in {"idle", "write", "refund", "settle", "mark"}, job \in Job :
              Reads(w, job, pc) => /\ work' \in [Worker -> WorkRecord]
                                   /\ work'[w].pc = pc /\ work'[w].job = job
                                   /\ work'[w].copy = row
                                   /\ \A v \in Worker \ {w} : work'[v] = work[v]
<1>1. work \in [Worker -> WorkRecord] /\ work[w] \in WorkRecord /\ row \in Task
  BY DEF TypeOK, WorkRecord
<1>2. Returns(w) => /\ work' \in [Worker -> WorkRecord] /\ work'[w] = Idle
                    /\ \A v \in Worker \ {w} : work'[v] = work[v]
  BY <1>1, IdleType DEF Returns
<1>3. ASSUME NEW pc \in {"idle", "write", "refund", "settle", "mark"}, Goes(w, pc)
      PROVE  /\ work' \in [Worker -> WorkRecord]
             /\ work'[w].pc = pc /\ work'[w].job = work[w].job /\ work'[w].copy = work[w].copy
             /\ \A v \in Worker \ {w} : work'[v] = work[v]
  <2>1. [work[w] EXCEPT !.pc = pc] \in WorkRecord
    BY <1>1 DEF WorkRecord
  <2>2. work' = [work EXCEPT ![w] = [work[w] EXCEPT !.pc = pc]]
    BY <1>1, <1>3 DEF Goes
  <2> QED
    BY <1>1, <2>1, <2>2 DEF WorkRecord
<1>4. ASSUME NEW pc \in {"idle", "write", "refund", "settle", "mark"}, NEW job \in Job,
             Reads(w, job, pc)
      PROVE  /\ work' \in [Worker -> WorkRecord]
             /\ work'[w].pc = pc /\ work'[w].job = job /\ work'[w].copy = row
             /\ \A v \in Worker \ {w} : work'[v] = work[v]
  <2>1. [pc |-> pc, job |-> job, copy |-> row] \in WorkRecord
    BY <1>1 DEF WorkRecord
  <2> QED
    BY <1>1, <1>4, <2>1 DEF Reads
<1> QED
  BY <1>2, <1>3, <1>4

\* The initial state satisfies the invariant.
LEMMA Initially == Init => IInv
<1> SUFFICES ASSUME Init PROVE IInv
  OBVIOUS
<1>1. /\ row \in Task /\ row = NoTask /\ row.quota = 0 /\ row.refunded = FALSE
      /\ \A w \in Worker : work[w] = Idle
      /\ work \in [Worker -> WorkRecord]
  BY IdleType DEF Init, NoTask
<1>2. sub = "none" /\ charged = 0 /\ race = "none"
  BY DEF Init
<1>3. TypeOK
  <2>1. charged \in Int
    BY <1>2
  <2> QED
    BY <1>1, <1>2, <2>1 DEF TypeOK, WorkRecord
<1>4. RowInv
  BY <1>1 DEF Init, RowInv
<1>5. ASSUME NEW w \in Worker PROVE WorkInv(w)
  BY <1>1 DEF WorkInv, Idle
<1> QED
  BY <1>4, <1>5, <1>3 DEF IInv

\* What the invariant says before a step.
LEMMA Before ==
  ASSUME IInv, race = "none"
  PROVE  /\ TypeOK /\ RowInv /\ row \in Task /\ charged \in Int
         /\ row.quota \in {0, Pre, Target} /\ row.status \in Status /\ row.refunded \in BOOLEAN
         /\ work \in [Worker -> WorkRecord]
         /\ \A v \in Worker : /\ WorkInv(v) /\ work[v] \in WorkRecord /\ work[v].copy \in Task
                              /\ work[v].job \in Job
                              /\ work[v].copy.quota \in {0, Pre, Target}
                              /\ work[v].copy.status \in Status
                              /\ work[v].copy.refunded \in BOOLEAN
                              /\ sub # "none" \/ work[v].pc = "idle"
BY DEF IInv, TypeOK, WorkRecord, Task, WorkInv

\* A worker that reads the row, and leaves it as it is.
LEMMA ReadKeeps ==
  ASSUME IInv, race = "none", NEW w \in Worker, NEW job \in Job,
         NEW pc \in {"write", "refund", "settle"}, Reads(w, job, pc), sub # "none",
         pc = "write" /\ job # "query" => row.status \notin Final,
         pc = "refund" => row.status = "failure",
         UNCHANGED <<row, sub, charged, race>>
  PROVE  IInv'
<1> USE Before
<1>1. /\ work' \in [Worker -> WorkRecord]
      /\ work'[w].pc = pc /\ work'[w].job = job /\ work'[w].copy = row
      /\ \A v \in Worker \ {w} : work'[v] = work[v]
  BY WorkSteps
<1>2. TypeOK'
  BY <1>1 DEF TypeOK, WorkRecord
<1>3. RowInv'
  BY DEF RowInv
<1>4. ASSUME NEW v \in Worker \ {w} PROVE WorkInv(v)'
  BY <1>1 DEF WorkInv
<1>5. WorkInv(w)'
  BY <1>1, TaskAssumption DEF WorkInv, RowInv, Failed, TypeOK
<1> QED
  BY <1>2, <1>3, <1>4, <1>5 DEF IInv

\* A worker that leaves the row as it is and returns.
LEMMA ReturnKeeps ==
  ASSUME IInv, race = "none", NEW w \in Worker, Returns(w), UNCHANGED <<row, sub, charged, race>>
  PROVE  IInv'
<1> USE Before
<1>1. /\ work' \in [Worker -> WorkRecord] /\ work'[w] = Idle
      /\ \A v \in Worker \ {w} : work'[v] = work[v]
  BY WorkSteps
<1>2. TypeOK'
  BY <1>1 DEF TypeOK, WorkRecord
<1>3. RowInv'
  BY DEF RowInv
<1>4. ASSUME NEW v \in Worker \ {w} PROVE WorkInv(v)'
  BY <1>1 DEF WorkInv
<1>5. WorkInv(w)'
  BY <1>1 DEF WorkInv, Idle
<1> QED
  BY <1>2, <1>3, <1>4, <1>5 DEF IInv

\* A worker that changes the row, then returns or goes on.
LEMMA WriteKeeps ==
  ASSUME IInv, race = "none", NEW w \in Worker, sub # "none", UNCHANGED sub,
         \/ Returns(w)
         \/ Goes(w, "refund") /\ row'.status \in Failed
         \/ Goes(w, "mark"),
         work[w].pc # "idle",
         row' \in Task, charged' \in Int, race' \in Race \cup {"none"},
         race' = "none" => /\ RowInv'
                           /\ sub = "recorded" /\ row.quota = 0 => row'.quota = 0
                           /\ row.status \in Failed => row'.status \in Failed
  PROVE  IInv'
<1> USE Before
<1>1. /\ work' \in [Worker -> WorkRecord]
      /\ \/ work'[w] = Idle
         \/ /\ work'[w].pc \in {"refund", "mark"} /\ work'[w].copy = work[w].copy
            /\ work'[w].pc = "refund" => row'.status \in Failed
      /\ \A v \in Worker \ {w} : work'[v] = work[v]
  BY WorkSteps
<1>2. TypeOK'
  BY <1>1 DEF TypeOK, WorkRecord
<1>3. ASSUME NEW v \in Worker \ {w}, race' = "none" PROVE WorkInv(v)'
  BY <1>1, <1>3 DEF WorkInv
<1>4. ASSUME race' = "none" PROVE WorkInv(w)'
  BY <1>1, <1>4 DEF WorkInv, Idle
<1> QED
  BY <1>2, <1>3, <1>4 DEF IInv

\* No step of the submission disturbs the invariant.
LEMMA SubmissionInductive ==
  ASSUME IInv, race = "none",
         Insert \/ SettleBilling \/ UpdateTaskInitialSettlement \/ SubmissionDies
  PROVE  IInv'
<1> USE Before, TaskAssumption
<1>1. UNCHANGED work
  BY DEF Insert, SettleBilling, UpdateTaskInitialSettlement, SubmissionDies
<1>2. CASE Insert
  <2>1. /\ row' \in Task /\ row'.quota = Pre /\ row'.refunded = FALSE /\ row'.status = "new"
        /\ charged' = Pre /\ sub = "none" /\ sub' = "inserted" /\ race' = race
    BY <1>2, IdleType DEF Insert, NoTask, Task
  <2>2. TypeOK' /\ RowInv'
    BY <1>1, <2>1 DEF TypeOK, RowInv
  <2>3. ASSUME NEW v \in Worker PROVE WorkInv(v)'
    BY <1>1, <2>1 DEF WorkInv
  <2> QED
    BY <2>2, <2>3 DEF IInv
<1>3. CASE SettleBilling
  <2>1. /\ row' = row /\ sub = "inserted" /\ sub' \in {"settled", "unsettled"}
        /\ charged' \in Int /\ race' \in {"none", "half"}
        /\ race' = "none" => charged' = IF sub' = "settled" THEN Target ELSE row.quota
    BY <1>3 DEF SettleBilling, Met, RowInv
  <2>2. TypeOK'
    BY <1>1, <2>1 DEF TypeOK, Race
  <2>3. race' = "none" => RowInv'
    BY <1>1, <2>1 DEF RowInv
  <2>4. ASSUME NEW v \in Worker PROVE WorkInv(v)'
    BY <1>1, <2>1 DEF WorkInv
  <2> QED
    BY <2>2, <2>3, <2>4 DEF IInv
<1>4. CASE UpdateTaskInitialSettlement
  <2>1. /\ sub \in {"settled", "unsettled"} /\ sub' = "recorded" /\ charged' = charged
        /\ race' \in {"none", "lost"} /\ row' \in Task
        /\ row'.refunded = row.refunded /\ row'.status = row.status
    BY <1>4 DEF UpdateTaskInitialSettlement, Met, Task
  <2>2. race' = "none" => row'.quota = IF sub = "settled" THEN Target ELSE Pre
    BY <1>4 DEF UpdateTaskInitialSettlement, Met, RowInv, Task
  <2>3. TypeOK'
    BY <1>1, <2>1 DEF TypeOK, Race
  <2>4. race' = "none" => RowInv'
    BY <1>1, <2>1, <2>2 DEF RowInv
  <2>5. ASSUME NEW v \in Worker PROVE WorkInv(v)'
    BY <1>1, <2>1 DEF WorkInv
  <2> QED
    BY <2>3, <2>4, <2>5 DEF IInv
<1>5. CASE SubmissionDies
  <2>1. row' = row /\ sub = "inserted" /\ sub' = "recorded" /\ charged' = charged /\ race' = race
    BY <1>5 DEF SubmissionDies
  <2>2. TypeOK' /\ RowInv'
    BY <1>1, <2>1 DEF TypeOK, RowInv
  <2>3. ASSUME NEW v \in Worker PROVE WorkInv(v)'
    BY <1>1, <2>1 DEF WorkInv
  <2> QED
    BY <2>2, <2>3 DEF IInv
<1> QED
  BY <1>2, <1>3, <1>4, <1>5

\* No step of a worker disturbs the invariant.
LEMMA WorkerInductive ==
  ASSUME IInv, race = "none", NEW w \in Worker, Step(w)
  PROVE  IInv'
<1> USE Before, TaskAssumption
<1> DEFINE copy == work[w].copy
<1>1. ASSUME NEW job \in {"poll", "timeout"}, ReadUnfinished(w, job) PROVE IInv'
  BY <1>1, ReadKeeps DEF ReadUnfinished, May, Job
<1>2. CASE GetUnrefundedFailedTasks(w)
  BY <1>2, ReadKeeps DEF GetUnrefundedFailedTasks, May, Job
<1>3. CASE GetPendingTaskSettlements(w)
  BY <1>3, ReadKeeps DEF GetPendingTaskSettlements, May, Job
<1>4. CASE Query(w)
  BY <1>4, ReadKeeps DEF Query, May, Job
<1>5. CASE ManuallyFailAndRefundTask(w)
  <2>1. /\ Reads(w, "admin", IF row.status = "failure" THEN "refund" ELSE "write")
        /\ row.status \notin {"success", "cancelled"} /\ sub # "none"
        /\ UNCHANGED <<row, sub, charged, race>>
    BY <1>5 DEF ManuallyFailAndRefundTask, May
  <2> QED
    BY <2>1, ReadKeeps DEF Job, Final
<1>6. ASSUME NEW to \in Status, UpdateWithStatus(w, to) PROVE IInv'
  <2>1. CASE row.status # copy.status
    BY <1>6, <2>1, ReturnKeeps DEF UpdateWithStatus
  <2>2. CASE row.status = copy.status
    <3>1. /\ row' = [copy EXCEPT !.status = to] /\ UNCHANGED <<sub, charged>>
          /\ IF Refunds(w, to) THEN Goes(w, "refund") ELSE Returns(w)
          /\ work[w].pc = "write" /\ sub # "none"
          /\ IF Stale(w) THEN race' = "stale"
             ELSE race' = IF copy.status \in Final /\ to # copy.status THEN "query" ELSE race
      BY <1>6, <2>2 DEF UpdateWithStatus, Met
    <3>2. row' \in Task /\ row'.status = to /\ row'.quota = copy.quota /\ row'.refunded = copy.refunded
      BY <3>1 DEF Task
    <3>3. race' \in {"none", "stale", "query"}
      BY <3>1
    <3>4. ASSUME race' = "none"
          PROVE  /\ row'.quota = row.quota /\ row'.refunded = row.refunded
                 /\ row.status \in Final => row'.status = row.status
      BY <2>2, <3>1, <3>2, <3>4 DEF Stale
    <3>5. ASSUME race' = "none" PROVE RowInv'
      BY <3>1, <3>2, <3>4, <3>5 DEF RowInv, Failed, Final
    <3>6. Refunds(w, to) => row'.status \in Failed
      BY <3>2 DEF Refunds, Failed
    <3> QED
      BY <3>1, <3>2, <3>3, <3>4, <3>5, <3>6, WriteKeeps DEF Race, Failed, Final
  <2> QED
    BY <2>1, <2>2
<1>7. CASE TaskBulkUpdateByID(w)
  <2>1. /\ row' = [row EXCEPT !.status = "failure"] /\ UNCHANGED <<sub, charged>>
        /\ Returns(w) /\ work[w].pc = "write" /\ sub # "none"
        /\ race' = IF row.status = "success" THEN "bulk" ELSE race
    BY <1>7 DEF TaskBulkUpdateByID, Met
  <2>2. /\ row' \in Task /\ row'.status = "failure" /\ row'.quota = row.quota
        /\ row'.refunded = row.refunded
    BY <2>1 DEF Task, Status, Final
  <2>3. RowInv'
    BY <2>1, <2>2 DEF RowInv, Failed
  <2> QED
    BY <2>1, <2>2, <2>3, WriteKeeps DEF Race, Failed
<1>8. CASE ApplyTaskRefund(w)
  <2>1. work[w].pc = "refund" /\ sub # "none" /\ UNCHANGED sub /\ Returns(w)
    BY <1>8 DEF ApplyTaskRefund
  <2>2. CASE copy.quota = 0 \/ row.quota # copy.quota
    <3>1. UNCHANGED <<row, charged, race>>
      BY <1>8, <2>2 DEF ApplyTaskRefund
    <3> QED
      BY <2>1, <3>1, ReturnKeeps
  <2>3. CASE copy.quota # 0 /\ row.quota = copy.quota
    <3>1. /\ row' = [row EXCEPT !.quota = 0, !.refunded = TRUE] /\ charged' = charged - copy.quota
          /\ race' = IF sub # "recorded" THEN "early" ELSE race
      BY <1>8, <2>3 DEF ApplyTaskRefund, Met
    <3>2. row' \in Task /\ row'.status = row.status /\ row'.quota = 0 /\ row'.refunded = TRUE
      BY <3>1 DEF Task
    <3>3. row.status \in Failed
      BY <2>1 DEF WorkInv
    <3>4. ASSUME race' = "none" PROVE RowInv'
      BY <2>1, <2>3, <3>1, <3>2, <3>3, <3>4 DEF RowInv
    <3> QED
      BY <2>1, <3>1, <3>2, <3>3, <3>4, WriteKeeps DEF Race
  <2> QED
    BY <2>2, <2>3
<1>9. CASE ApplyTaskSettlement(w)
  <2> DEFINE settled == row.quota = Target /\ row.settle = "completed"
  <2>1. work[w].pc = "settle" /\ sub # "none" /\ UNCHANGED sub /\ (Returns(w) \/ Goes(w, "mark"))
    BY <1>9 DEF ApplyTaskSettlement
  <2>2. CASE UNCHANGED <<row, charged, race>>
    <3>1. RowInv'
      BY <2>1, <2>2 DEF RowInv
    <3> QED
      BY <2>1, <2>2, <3>1, WriteKeeps DEF Race
  <2>3. CASE ~UNCHANGED <<row, charged, race>>
    <3>1. /\ row.quota = copy.quota
          /\ row' = [row EXCEPT !.quota = Target, !.settle = "completed"]
          /\ charged' = charged + (Target - copy.quota)
          /\ IF sub # "recorded" THEN race' = IF Target # copy.quota THEN "early" ELSE race
             ELSE race' = IF row.refunded /\ Target # copy.quota THEN "recharged" ELSE race
      BY <1>9, <2>3 DEF ApplyTaskSettlement, Met
    <3>2. row' \in Task /\ row'.status = row.status /\ row'.quota = Target /\ row'.refunded = row.refunded
      BY <3>1 DEF Task
    <3>3. race' \in {"none", "early", "recharged"} /\ charged' \in Int
      BY <3>1
    <3>4. ASSUME race' = "none" PROVE RowInv' /\ (sub = "recorded" /\ row.quota = 0 => row'.quota = 0)
      BY <2>1, <3>1, <3>2, <3>4 DEF RowInv
    <3> QED
      BY <2>1, <3>2, <3>3, <3>4, WriteKeeps DEF Race
  <2> QED
    BY <2>2, <2>3
<1>10. CASE MarkTaskSettlementPending(w)
  <2>1. /\ row' = [row EXCEPT !.settle = "pending"] /\ Returns(w) /\ work[w].pc = "mark"
        /\ UNCHANGED <<sub, charged, race>> /\ sub # "none"
    BY <1>10 DEF MarkTaskSettlementPending
  <2>2. /\ row' \in Task /\ row'.status = row.status /\ row'.quota = row.quota
        /\ row'.refunded = row.refunded
    BY <2>1 DEF Task
  <2>3. RowInv'
    BY <2>1, <2>2 DEF RowInv
  <2> QED
    BY <2>1, <2>2, <2>3, WriteKeeps DEF Race
<1>11. CASE Stop(w)
  BY <1>11, ReturnKeeps DEF Stop
<1> QED
  BY <1>1, <1>2, <1>3, <1>4, <1>5, <1>6, <1>7, <1>8, <1>9, <1>10, <1>11 DEF Step

\* The invariant is inductive.
LEMMA Inductive == IInv /\ [Next]_vars => IInv'
<1>1. ASSUME IInv, Next PROVE IInv'
  BY <1>1, SubmissionInductive, WorkerInductive DEF Next
<1>2. ASSUME IInv, UNCHANGED vars PROVE IInv'
  BY <1>2 DEF IInv, TypeOK, RowInv, WorkInv, vars
<1> QED
  BY <1>1, <1>2

\* The invariant holds of every reachable state.
LEMMA IInvHolds == Spec => []IInv
BY Initially, Inductive, PTL DEF Spec

-----------------------------------------------------------------------------
\* The row, the copies and the amounts keep their types.
THEOREM TypeCorrect == Spec => []TypeOK
<1>1. IInv => TypeOK
  BY DEF IInv
<1> QED
  BY <1>1, IInvHolds, PTL

\* Until one of the seven races is met, the row's quota is what was paid.
THEOREM BooksHold == Spec => []Books
<1>1. IInv => Books
  BY DEF IInv, RowInv, Books
<1> QED
  BY <1>1, IInvHolds, PTL

\* Until then, a delivered task is paid for.
THEOREM DeliveredIsPaidHolds == Spec => []DeliveredIsPaid
<1>1. IInv => DeliveredIsPaid
  <2> SUFFICES ASSUME IInv, race = "none", row.status = "success" PROVE charged \in {Pre, Target}
    BY DEF DeliveredIsPaid
  <2>1. sub # "none"
    BY DEF IInv, RowInv, NoTask
  <2> QED
    BY <2>1, Before, TaskAssumption DEF RowInv, Failed, TypeOK
<1> QED
  BY <1>1, IInvHolds, PTL
=============================================================================
