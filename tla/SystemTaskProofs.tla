-------------------------- MODULE SystemTaskProofs --------------------------
(***************************************************************************)
(* Theorems about SystemTask, for any set of runners, any number of tasks, *)
(* any lease length and with pass faults allowed.                          *)
(***************************************************************************)
EXTENDS SystemTask, TLAPS

USE RunnersAssumption, BoundsAssumption, FaultsAssumption, NoneAssumption

-----------------------------------------------------------------------------
(* Types                                                                   *)

\* The locals of a pass that has not begun are well typed.
LEMMA NoJobTyped == NoJob \in JobState
BY DEF NoJob, Job, JobState

\* A row is marked failed without leaving the row type.
LEMMA MarkTyped ==
  ASSUME tasks \in [Tasks -> TaskRow], NEW t, MarkSystemTaskLeaseExpired(t)
  PROVE  tasks' \in [Tasks -> TaskRow]
BY DEF MarkSystemTaskLeaseExpired, TaskRow, Status, ActiveStatus, TerminalStatus

\* Marking touches a row only to turn it from running into failed.
LEMMA MarkEffect ==
  ASSUME tasks \in [Tasks -> TaskRow], NEW t, MarkSystemTaskLeaseExpired(t), NEW u \in Tasks
  PROVE  \/ tasks'[u] = tasks[u]
         \/ /\ tasks[u].status = "running"
            /\ tasks'[u].status = "failed"
            /\ tasks'[u].activeKey = FALSE
            /\ tasks'[u].lockedBy = tasks[u].lockedBy
<1>1. CASE tasks[t].status = "running" /\ u = t
  BY <1>1 DEF MarkSystemTaskLeaseExpired, TaskRow
<1>2. CASE ~(tasks[t].status = "running" /\ u = t)
  BY <1>2 DEF MarkSystemTaskLeaseExpired
<1> QED BY <1>1, <1>2

\* What TypeOK says of the passes.
PassOK ==
  /\ at \in [Runners -> PassAt]
  /\ job \in [Runners -> JobState]
  /\ \A r \in Runners : at[r] \notin {"idle", "dead"} => job[r].task \in Tasks

\* A pass that returns, or that moves on with its locals, stays well typed.
LEMMA PassTyped ==
  ASSUME PassOK, NEW r \in Runners
  PROVE  /\ PassEnds(r) => PassOK'
         /\ \A to \in PassAt :
              at[r] \notin {"idle", "dead"} /\ PassGoes(r, to) => PassOK'
BY NoJobTyped DEF PassOK, PassEnds, PassGoes, PassAt

\* The lock row a claim writes is well typed.
LEMMA NewLockTyped ==
  ASSUME PassOK, NEW r \in Runners, at[r] \notin {"idle", "dead"}
  PROVE  NewLock(r) \in LockRow
BY DEF PassOK, NewLock, LockRow, JobState

\* Every step keeps TypeOK, whatever statement of whatever runner it is.
LEMMA TypeStep == TypeOK /\ [Next]_vars => TypeOK'
<1> SUFFICES ASSUME TypeOK, [Next]_vars PROVE TypeOK'
  OBVIOUS
<1> USE DEF TypeOK
<1>1. CASE UNCHANGED vars
  BY <1>1 DEF vars
<1>2. CASE CreateSystemTask /\ UNCHANGED <<lock, at, job, exec, clock>>
  BY <1>2 DEF CreateSystemTask, TaskRow, Status, ActiveStatus, TerminalStatus
<1>3. ASSUME NEW r \in Runners, ClaimStep(r) PROVE TypeOK'
  <2> USE DEF PassAt, PassGoes, PassEnds
  <2>1. CASE runSystemTaskClaimPass(r)
    <3>1. PICK t \in Tasks : /\ at' = [at EXCEPT ![r] = "insert"]
                            /\ job' = [job EXCEPT ![r] = Job(t, None, clock, clock + TTL)]
      BY <2>1 DEF runSystemTaskClaimPass, FindEarliestPendingSystemTasks
    <3>2. Job(t, None, clock, clock + TTL) \in JobState /\ Job(t, None, clock, clock + TTL).task = t
      BY DEF Job, JobState
    <3> QED BY <2>1, <3>1, <3>2 DEF runSystemTaskClaimPass
  <2>2. CASE AcquireInsert(r)
    BY <2>2, PassTyped, NewLockTyped DEF AcquireInsert, PassOK
  <2>3. CASE AcquireExisting(r)
    <3>1. CASE PassEnds(r)
      BY <2>3, <3>1, PassTyped DEF AcquireExisting, PassOK
    <3>2. ASSUME NEW l \in lock, at' = [at EXCEPT ![r] = "takeover"],
                 job' = [job EXCEPT ![r].old = l.task]
          PROVE  TypeOK'
      <4>1. l.task \in Tasks
        BY DEF LockRow
      <4>2. job' \in [Runners -> JobState] /\ \A s \in Runners : job'[s].task = job[s].task
        <5>1. job' = [job EXCEPT ![r] = [job[r] EXCEPT !.old = l.task]] /\ job[r] \in JobState
          BY <3>2
        <5>2. /\ [job[r] EXCEPT !.old = l.task] \in JobState
              /\ [job[r] EXCEPT !.old = l.task].task = job[r].task
          BY <4>1, <5>1 DEF JobState
        <5> QED BY <5>1, <5>2
      <4> QED BY <2>3, <3>2, <4>2 DEF AcquireExisting
    <3> QED BY <2>3, <3>1, <3>2 DEF AcquireExisting
  <2>4. CASE AcquireTakeover(r)
    <3>1. CASE PassEnds(r) /\ UNCHANGED lock
      BY <2>4, <3>1, PassTyped DEF AcquireTakeover, PassOK
    <3>2. CASE /\ lock' = {NewLock(r)}
               /\ PassGoes(r, IF job[r].old # job[r].task THEN "markOld" ELSE "setRunning")
      <4>1. PassOK'
        BY <2>4, <3>2, PassTyped DEF AcquireTakeover, PassOK
      <4> QED BY <2>4, <3>2, <4>1, NewLockTyped DEF AcquireTakeover, PassOK
    <3> QED BY <2>4, <3>1, <3>2 DEF AcquireTakeover
  <2>5. CASE ClaimMarkOld(r)
    BY <2>5, MarkTyped DEF ClaimMarkOld
  <2>6. CASE ClaimSetRunning(r)
    <3>1. PassOK'
      BY <2>6, PassTyped DEF ClaimSetRunning, PassOK
    <3>2. tasks' \in [Tasks -> TaskRow]
      BY <2>6 DEF ClaimSetRunning, TaskRow, Status, ActiveStatus
    <3>3. exec' \in [Runners \X Tasks -> ExecAt]
      BY <2>6 DEF ClaimSetRunning, ExecAt
    <3> QED BY <2>6, <3>1, <3>2, <3>3 DEF ClaimSetRunning, PassOK
  <2>7. CASE ClaimRelease(r)
    BY <2>7, NoJobTyped DEF ClaimRelease, ReleaseSystemTaskLock
  <2> QED BY <1>3, <2>1, <2>2, <2>3, <2>4, <2>5, <2>6, <2>7 DEF ClaimStep
<1>4. ASSUME NEW r \in Runners, SweepFind(r) PROVE TypeOK'
  <2>1. CASE UNCHANGED <<at, job>>
    BY <1>4, <2>1 DEF SweepFind
  <2>2. ASSUME NEW l \in lock, at' = [at EXCEPT ![r] = "sweepMark"],
               job' = [job EXCEPT ![r] = Job(l.task, l.by, clock, 0)]
        PROVE  TypeOK'
    <3>1. /\ Job(l.task, l.by, clock, 0) \in JobState
          /\ Job(l.task, l.by, clock, 0).task \in Tasks
      BY DEF Job, JobState, LockRow
    <3> QED BY <1>4, <2>2, <3>1 DEF SweepFind, PassAt
  <2> QED BY <1>4, <2>1, <2>2 DEF SweepFind
<1>5. ASSUME NEW r \in Runners, SweepMark(r) PROVE TypeOK'
  BY <1>5, MarkTyped, NoJobTyped DEF SweepMark, PassAt, PassGoes, PassEnds
<1>6. ASSUME NEW r \in Runners, SweepDelete(r) PROVE TypeOK'
  BY <1>6, NoJobTyped DEF SweepDelete, PassAt, PassEnds
<1>7. ASSUME NEW r \in Runners, Crash(r) PROVE TypeOK'
  BY <1>7, NoJobTyped DEF Crash, ExecAt, PassAt
<1>8. ASSUME NEW r \in Runners, NEW t \in Tasks, ExecStep(r, t) PROVE TypeOK'
  <2>1. CASE RenewSystemTaskLock(r, t)
    BY <2>1 DEF RenewSystemTaskLock, LockRow, ExecAt
  <2>2. CASE UpdateSystemTaskState(r, t)
    BY <2>2 DEF UpdateSystemTaskState, ExecAt
  <2>3. CASE FinishSystemTask(r, t)
    <3>1. tasks' \in [Tasks -> TaskRow]
      <4>1. ASSUME NEW s \in TerminalStatus,
                   tasks' = [tasks EXCEPT ![t].status = s, ![t].activeKey = FALSE]
            PROVE  tasks' \in [Tasks -> TaskRow]
        <5>1. [tasks[t] EXCEPT !.status = s, !.activeKey = FALSE] \in TaskRow
          <6>1. tasks[t] \in TaskRow /\ s \in Status
            BY DEF Status
          <6> QED BY <6>1 DEF TaskRow
        <5>2. tasks' = [tasks EXCEPT ![t] = [tasks[t] EXCEPT !.status = s, !.activeKey = FALSE]]
          BY <4>1
        <5> QED BY <5>1, <5>2
      <4> QED BY <2>3, <4>1 DEF FinishSystemTask
    <3>2. exec' \in [Runners \X Tasks -> ExecAt]
      BY <2>3 DEF FinishSystemTask, ExecAt
    <3> QED BY <2>3, <3>1, <3>2 DEF FinishSystemTask
  <2>4. CASE FinishRelease(r, t)
    BY <2>4 DEF FinishRelease, ReleaseSystemTaskLock, ExecAt
  <2> QED BY <1>8, <2>1, <2>2, <2>3, <2>4 DEF ExecStep
<1>9. CASE Tick
  BY <1>9 DEF Tick
<1> QED
  BY <1>1, <1>2, <1>3, <1>4, <1>5, <1>6, <1>7, <1>8, <1>9
     DEF Next, EnqueueSystemTask, runSystemTaskScheduler

\* The tables, the passes and the executions always have their types, and the
\* lock table never holds two rows for the type.
THEOREM TypeCorrect == Spec => []TypeOK
<1>1. Init => TypeOK
  BY NoJobTyped DEF Init, TypeOK, TaskRow, Status, ExecAt, PassAt
<1> QED BY <1>1, TypeStep, PTL DEF Spec

-----------------------------------------------------------------------------
(* One executor per task                                                   *)

\* The strengthening: a runner that ever executed t is the one recorded in its
\* row, because the row leaves "pending" once and records the claimant then.
ExecutorRecorded ==
  \A r \in Runners, t \in Tasks :
    exec[<<r, t>>] # "none" =>
      tasks[t].status \notin {"absent", "pending"} /\ tasks[t].lockedBy = r

LEMMA ExecutorStep ==
  TypeOK /\ ExecutorRecorded /\ [Next]_vars => ExecutorRecorded'
<1> SUFFICES ASSUME TypeOK, ExecutorRecorded, [Next]_vars,
                    NEW q \in Runners, NEW u \in Tasks, exec'[<<q, u>>] # "none"
             PROVE  tasks'[u].status \notin {"absent", "pending"} /\ tasks'[u].lockedBy = q
  BY DEF ExecutorRecorded
<1> USE DEF TypeOK, ExecutorRecorded
\* Most steps start no execution and at worst mark a running row failed.
<1>0. ASSUME exec[<<q, u>>] # "none",
             \/ UNCHANGED tasks
             \/ \E t : MarkSystemTaskLeaseExpired(t)
      PROVE  tasks'[u].status \notin {"absent", "pending"} /\ tasks'[u].lockedBy = q
  <2>1. tasks[u].status \notin {"absent", "pending"} /\ tasks[u].lockedBy = q
    BY <1>0
  <2>2. ASSUME NEW t, MarkSystemTaskLeaseExpired(t)
        PROVE  tasks'[u].status \notin {"absent", "pending"} /\ tasks'[u].lockedBy = q
    BY <2>1, <2>2, MarkEffect
  <2> QED BY <1>0, <2>1, <2>2
<1>1. CASE UNCHANGED vars
  BY <1>0, <1>1 DEF vars
<1>2. CASE CreateSystemTask /\ UNCHANGED <<lock, at, job, exec, clock>>
  BY <1>2 DEF CreateSystemTask
<1>3. ASSUME NEW r \in Runners, ClaimStep(r), ~ClaimSetRunning(r)
      PROVE  tasks'[u].status \notin {"absent", "pending"} /\ tasks'[u].lockedBy = q
  BY <1>0, <1>3 DEF ClaimStep, runSystemTaskClaimPass, AcquireInsert, AcquireExisting,
     AcquireTakeover, ClaimMarkOld, ClaimRelease
<1>4. ASSUME NEW r \in Runners, ClaimSetRunning(r)
      PROVE  tasks'[u].status \notin {"absent", "pending"} /\ tasks'[u].lockedBy = q
  <2>1. job[r].task \in Tasks
    BY <1>4 DEF ClaimSetRunning
  <2>2. CASE UNCHANGED tasks /\ UNCHANGED exec
    BY <1>0, <2>2
  <2>3. CASE /\ tasks[job[r].task].status = "pending"
             /\ tasks' = [tasks EXCEPT ![job[r].task].status = "running",
                                       ![job[r].task].lockedBy = r]
             /\ \/ exec' = [exec EXCEPT ![<<r, job[r].task>>] = "run"]
                \/ UNCHANGED exec
    <3>1. CASE u = job[r].task
      <4>1. q = r
        BY <2>3, <3>1
      <4>2. tasks'[u].status = "running" /\ tasks'[u].lockedBy = r
        BY <2>1, <2>3, <3>1 DEF TaskRow
      <4> QED BY <4>1, <4>2
    <3>2. CASE u # job[r].task
      <4>1. tasks'[u] = tasks[u] /\ exec'[<<q, u>>] = exec[<<q, u>>]
        BY <2>1, <2>3, <3>2
      <4> QED BY <4>1
    <3> QED BY <3>1, <3>2
  <2> QED BY <1>4, <2>2, <2>3 DEF ClaimSetRunning
<1>5. ASSUME NEW r \in Runners, SweepFind(r) \/ SweepMark(r) \/ SweepDelete(r) \/ Crash(r)
      PROVE  tasks'[u].status \notin {"absent", "pending"} /\ tasks'[u].lockedBy = q
  BY <1>0, <1>5 DEF SweepFind, SweepMark, SweepDelete, Crash
<1>6. ASSUME NEW r \in Runners, NEW t \in Tasks, ExecStep(r, t)
      PROVE  tasks'[u].status \notin {"absent", "pending"} /\ tasks'[u].lockedBy = q
  <2>1. exec[<<q, u>>] # "none"
    BY <1>6 DEF ExecStep, RenewSystemTaskLock, UpdateSystemTaskState, FinishSystemTask,
       FinishRelease
  <2>2. CASE UNCHANGED tasks
    BY <1>0, <2>1, <2>2
  <2>3. ASSUME NEW s \in TerminalStatus,
               tasks' = [tasks EXCEPT ![t].status = s, ![t].activeKey = FALSE]
        PROVE  tasks'[u].status \notin {"absent", "pending"} /\ tasks'[u].lockedBy = q
    <3>1. tasks[u].status \notin {"absent", "pending"} /\ tasks[u].lockedBy = q
      BY <2>1
    <3> QED BY <2>3, <3>1 DEF TaskRow, TerminalStatus
  <2> QED BY <1>6, <2>2, <2>3 DEF ExecStep, RenewSystemTaskLock, UpdateSystemTaskState,
             FinishSystemTask, FinishRelease
<1>7. CASE Tick
  BY <1>0, <1>7 DEF Tick
<1> QED
  BY <1>1, <1>2, <1>3, <1>4, <1>5, <1>6, <1>7
     DEF Next, EnqueueSystemTask, runSystemTaskScheduler

\* No task is ever dispatched to two runners, whatever claims, stalls, crashes
\* and sweeps do: the claim's UPDATE ... WHERE status = pending decides, not
\* the lock.
THEOREM OneExecutorHolds == Spec => []OneExecutor
<1>1. Init => ExecutorRecorded
  BY DEF Init, ExecutorRecorded
<1>2. ExecutorRecorded => OneExecutor
  BY DEF ExecutorRecorded, OneExecutor
<1> QED BY <1>1, <1>2, ExecutorStep, TypeCorrect, PTL DEF Spec

-----------------------------------------------------------------------------
(* The lock is a lease                                                     *)

\* The strengthening: the timestamp a pass compares with is never ahead of the
\* clock, so whatever a pass finds expired has really expired.
PassClockBehind == \A r \in Runners : job[r].now <= clock

LEMMA PassClockStep ==
  TypeOK /\ PassClockBehind /\ [Next]_vars => PassClockBehind'
<1> SUFFICES ASSUME TypeOK, PassClockBehind, [Next]_vars, NEW q \in Runners
             PROVE  job'[q].now <= clock'
  BY DEF PassClockBehind
<1> USE DEF TypeOK, PassClockBehind
<1>1. ASSUME UNCHANGED job, UNCHANGED clock PROVE job'[q].now <= clock'
  BY <1>1
<1>2. ASSUME NEW r \in Runners, UNCHANGED clock, job' = [job EXCEPT ![r] = NoJob]
      PROVE  job'[q].now <= clock'
  BY <1>2 DEF NoJob, Job
<1>3. ASSUME NEW r \in Runners, UNCHANGED clock, NEW t, NEW b, NEW v,
             job' = [job EXCEPT ![r] = Job(t, b, clock, v)]
      PROVE  job'[q].now <= clock'
  BY <1>3 DEF Job
<1>4. ASSUME NEW r \in Runners, UNCHANGED clock, NEW t, job' = [job EXCEPT ![r].old = t]
      PROVE  job'[q].now <= clock'
  BY <1>4 DEF JobState
<1>5. ASSUME NEW r \in Runners, ClaimStep(r) PROVE job'[q].now <= clock'
  <2>1. CASE AcquireExisting(r)
    BY <1>2, <1>4, <2>1 DEF AcquireExisting, PassEnds
  <2>2. CASE runSystemTaskClaimPass(r)
    BY <1>3, <2>2 DEF runSystemTaskClaimPass
  <2> QED BY <1>1, <1>2, <1>5, <2>1, <2>2 DEF ClaimStep, AcquireInsert, AcquireTakeover,
             ClaimMarkOld, ClaimSetRunning, ClaimRelease, PassEnds, PassGoes
<1>6. ASSUME NEW r \in Runners, SweepFind(r) \/ SweepMark(r) \/ SweepDelete(r) \/ Crash(r)
      PROVE  job'[q].now <= clock'
  BY <1>1, <1>2, <1>3, <1>6 DEF SweepFind, SweepMark, SweepDelete, Crash, PassEnds, PassGoes
<1>7. ASSUME NEW r \in Runners, NEW t \in Tasks, ExecStep(r, t) PROVE job'[q].now <= clock'
  BY <1>1, <1>7 DEF ExecStep, RenewSystemTaskLock, UpdateSystemTaskState, FinishSystemTask,
     FinishRelease
<1>8. CASE Tick
  BY <1>8 DEF Tick, JobState
<1> QED
  BY <1>1, <1>5, <1>6, <1>7, <1>8
     DEF Next, EnqueueSystemTask, runSystemTaskScheduler, vars

\* A live lock row leaves the table only by its own runner's release: the
\* takeover and the sweep act on rows that have really expired, and a late
\* release names the task and runner it took.
THEOREM LiveLockKeptHolds == Spec => LiveLockKept
<1> DEFINE Kept(l) == \/ ~Live(l)
                      \/ \E m \in lock' : m.task = l.task /\ m.by = l.by
                      \/ exec[<<l.by, l.task>>] = "release"
                      \/ at[l.by] = "release" /\ job[l.by].task = l.task
<1>1. TypeOK /\ PassClockBehind /\ [Next]_vars => [\A l \in lock : Kept(l)]_vars
  <2> SUFFICES ASSUME TypeOK, PassClockBehind, Next, NEW l \in lock PROVE Kept(l)
    OBVIOUS
  <2> USE DEF TypeOK
  <2>0. l.until \in Nat /\ clock \in Nat /\ \A r \in Runners : job[r].now \in Nat
    BY DEF LockRow, JobState
  <2>1. CASE UNCHANGED lock
    BY <2>1
  <2>2. ASSUME NEW r \in Runners, AcquireInsert(r) PROVE Kept(l)
    BY <2>2 DEF AcquireInsert
  <2>3. ASSUME NEW r \in Runners, AcquireTakeover(r) PROVE Kept(l)
    BY <2>0, <2>3 DEF AcquireTakeover, PassClockBehind, Live
  <2>4. ASSUME NEW r \in Runners, ClaimRelease(r) PROVE Kept(l)
    BY <2>4 DEF ClaimRelease, ReleaseSystemTaskLock
  <2>5. ASSUME NEW r \in Runners, SweepDelete(r) PROVE Kept(l)
    BY <2>0, <2>5 DEF SweepDelete, PassClockBehind, Live
  <2>6. ASSUME NEW r \in Runners, NEW t \in Tasks, RenewSystemTaskLock(r, t) PROVE Kept(l)
    <3>1. ASSUME NEW k \in lock, lock' = {[k EXCEPT !.until = clock + TTL]} PROVE Kept(l)
      <4>1. k = l
        OBVIOUS
      <4>2. [k EXCEPT !.until = clock + TTL] \in lock'
        BY <3>1
      <4>3. /\ [k EXCEPT !.until = clock + TTL].task = l.task
            /\ [k EXCEPT !.until = clock + TTL].by = l.by
        BY <4>1 DEF LockRow
      <4> QED BY <4>2, <4>3
    <3> QED BY <2>1, <2>6, <3>1 DEF RenewSystemTaskLock
  <2>7. ASSUME NEW r \in Runners, NEW t \in Tasks, FinishRelease(r, t) PROVE Kept(l)
    BY <2>7 DEF FinishRelease, ReleaseSystemTaskLock
  <2> QED
    BY <2>1, <2>2, <2>3, <2>4, <2>5, <2>6, <2>7
       DEF Next, EnqueueSystemTask, runSystemTaskScheduler, ClaimStep, ExecStep,
           runSystemTaskClaimPass, AcquireExisting, ClaimMarkOld, ClaimSetRunning,
           SweepFind, SweepMark, Crash, UpdateSystemTaskState, FinishSystemTask, Tick
<1>2. Init => PassClockBehind
  BY DEF Init, PassClockBehind, NoJob, Job
<1> QED BY <1>1, <1>2, PassClockStep, TypeCorrect, PTL DEF Spec, LiveLockKept

-----------------------------------------------------------------------------
(* Statuses only move forward, and the unique key follows them             *)

\* What one step may do to a row: create it, claim it, or end it.
RowMoves(t) ==
  \/ tasks'[t] = tasks[t]
  \/ /\ tasks[t].status = "absent" /\ tasks'[t].status = "pending"
     /\ tasks'[t].activeKey = TRUE /\ tasks'[t].lockedBy = None
     /\ \A u \in Tasks : ~tasks[u].activeKey
     /\ \A u \in Tasks \ {t} : tasks'[u] = tasks[u]
  \/ /\ tasks[t].status = "pending" /\ tasks'[t].status = "running"
     /\ tasks'[t].activeKey = tasks[t].activeKey
     /\ \E r \in Runners : ClaimSetRunning(r) /\ job[r].task = t /\ tasks'[t].lockedBy = r
  \/ /\ tasks[t].status = "running" /\ tasks'[t].status \in TerminalStatus
     /\ tasks'[t].activeKey = FALSE /\ tasks'[t].lockedBy = tasks[t].lockedBy

LEMMA RowStep ==
  ASSUME TypeOK, [Next]_vars PROVE \A t \in Tasks : RowMoves(t)
<1> SUFFICES ASSUME NEW u \in Tasks PROVE RowMoves(u)
  OBVIOUS
<1> USE DEF TypeOK
<1>1. CASE UNCHANGED tasks
  BY <1>1 DEF RowMoves
<1>2. ASSUME NEW t, MarkSystemTaskLeaseExpired(t) PROVE RowMoves(u)
  BY <1>2, MarkEffect DEF RowMoves, TerminalStatus
<1>3. CASE CreateSystemTask
  <2>1. PICK t \in Tasks :
          /\ tasks[t].status = "absent"
          /\ tasks' = [tasks EXCEPT ![t] = [status |-> "pending", lockedBy |-> None, activeKey |-> TRUE]]
    BY <1>3 DEF CreateSystemTask
  <2>2. \A v \in Tasks : ~tasks[v].activeKey
    BY <1>3 DEF CreateSystemTask
  <2>3. \A v \in Tasks \ {t} : tasks'[v] = tasks[v]
    BY <2>1
  <2>4. /\ tasks'[t].status = "pending" /\ tasks'[t].activeKey = TRUE
        /\ tasks'[t].lockedBy = None
    BY <2>1
  <2> QED BY <2>1, <2>2, <2>3, <2>4 DEF RowMoves
<1>4. ASSUME NEW r \in Runners, ClaimSetRunning(r) PROVE RowMoves(u)
  <2>1. job[r].task \in Tasks
    BY <1>4 DEF ClaimSetRunning
  <2>2. CASE UNCHANGED tasks
    BY <1>1, <2>2
  <2>3. CASE /\ tasks[job[r].task].status = "pending"
             /\ tasks' = [tasks EXCEPT ![job[r].task].status = "running",
                                       ![job[r].task].lockedBy = r]
    <3>1. CASE u = job[r].task
      <4>1. /\ tasks'[u].status = "running" /\ tasks'[u].lockedBy = r
            /\ tasks'[u].activeKey = tasks[u].activeKey
        BY <2>1, <2>3, <3>1 DEF TaskRow
      <4> QED BY <1>4, <2>3, <3>1, <4>1 DEF RowMoves
    <3>2. CASE u # job[r].task
      BY <2>1, <2>3, <3>2 DEF RowMoves
    <3> QED BY <3>1, <3>2
  <2> QED BY <1>4, <2>2, <2>3 DEF ClaimSetRunning
<1>5. ASSUME NEW r \in Runners, NEW t \in Tasks, FinishSystemTask(r, t) PROVE RowMoves(u)
  <2>1. CASE UNCHANGED tasks
    BY <1>1, <2>1
  <2>2. ASSUME NEW s \in TerminalStatus, tasks[t].status = "running",
               tasks' = [tasks EXCEPT ![t].status = s, ![t].activeKey = FALSE]
        PROVE  RowMoves(u)
    <3>1. CASE u = t
      <4>1. /\ tasks'[u].status = s /\ tasks'[u].activeKey = FALSE
            /\ tasks'[u].lockedBy = tasks[u].lockedBy
        BY <2>2, <3>1 DEF TaskRow
      <4> QED BY <2>2, <3>1, <4>1 DEF RowMoves
    <3>2. CASE u # t
      BY <2>2, <3>2 DEF RowMoves
    <3> QED BY <3>1, <3>2
  <2> QED BY <1>5, <2>1, <2>2 DEF FinishSystemTask, HoldsLease
<1> QED
  BY <1>1, <1>2, <1>3, <1>4, <1>5
     DEF Next, vars, EnqueueSystemTask, runSystemTaskScheduler, ClaimStep, ExecStep,
         runSystemTaskClaimPass, AcquireInsert, AcquireExisting, AcquireTakeover, ClaimMarkOld,
         ClaimRelease, SweepFind, SweepMark, SweepDelete, Crash, RenewSystemTaskLock,
         UpdateSystemTaskState, FinishRelease, Tick

\* A late sweep, takeover or finish never rewrites a finished task.
THEOREM TerminalIsFinalHolds == Spec => TerminalIsFinal
<1>1. TypeOK /\ [Next]_vars =>
        [\A t \in Tasks : tasks[t].status \in TerminalStatus => tasks'[t] = tasks[t]]_vars
  BY RowStep DEF RowMoves, TerminalStatus
<1> QED BY <1>1, TypeCorrect, PTL DEF Spec, TerminalIsFinal

\* Every way a row ends frees its active_key, and the key is never held twice:
\* the unique index refuses a second active row, and nothing else sets it.
LEMMA ActiveKeyStep ==
  TypeOK /\ ActiveKeyTracksStatus /\ [Next]_vars => ActiveKeyTracksStatus'
<1> SUFFICES ASSUME TypeOK, ActiveKeyTracksStatus, [Next]_vars PROVE ActiveKeyTracksStatus'
  OBVIOUS
<1>1. \A t \in Tasks : RowMoves(t)
  BY RowStep
<1>2. ASSUME NEW t \in Tasks PROVE tasks'[t].activeKey <=> tasks'[t].status \in ActiveStatus
  BY <1>1 DEF RowMoves, ActiveKeyTracksStatus, ActiveStatus, TerminalStatus
<1>3. ASSUME NEW t \in Tasks, NEW u \in Tasks, tasks'[t].activeKey, tasks'[u].activeKey
      PROVE  t = u
  <2>1. ASSUME NEW v \in Tasks, tasks'[v].activeKey, ~tasks[v].activeKey,
               NEW w \in Tasks, tasks'[w].activeKey
        PROVE  v = w
    <3>1. /\ \A x \in Tasks : ~tasks[x].activeKey
          /\ \A x \in Tasks \ {v} : tasks'[x] = tasks[x]
      BY <1>1, <2>1 DEF RowMoves
    <3> QED BY <2>1, <3>1
  <2> QED BY <1>3, <2>1 DEF ActiveKeyTracksStatus
<1> QED BY <1>2, <1>3 DEF ActiveKeyTracksStatus

\* A type is never blocked by a finished task and never has two active ones.
THEOREM ActiveKeyHolds == Spec => []ActiveKeyTracksStatus
<1>1. Init => ActiveKeyTracksStatus
  BY DEF Init, ActiveKeyTracksStatus, ActiveStatus
<1> QED BY <1>1, ActiveKeyStep, TypeCorrect, PTL DEF Spec

-----------------------------------------------------------------------------
(* A running row can be found by its lease                                 *)

\* The claims that have written the lock row.
Holding(r) == at[r] \in {"markOld", "setRunning", "release"}
Waiting(r) == at[r] \in {"insert", "existing", "takeover"}
Begun(t) == tasks[t].status \notin {"absent", "pending"}

\* A claim works on a row that its own runner has never taken, and its lease
\* has not run out.
ClaimInv ==
  \A r \in Runners : InClaim(r) =>
    /\ tasks[job[r].task].status # "absent" /\ tasks[job[r].task].lockedBy # r
    /\ clock <= job[r].until

\* A row that nobody has taken names nobody.
FreshInv == \A t \in Tasks : ~Begun(t) => tasks[t].lockedBy = None

\* A claim that wrote the lock row still has it.
HolderInv == \A r \in Runners : Holding(r) => NewLock(r) \in lock

\* A lock row belongs to such a claim, or its task has been taken.
LockInv ==
  \A l \in lock : Begun(l.task) \/ (Holding(l.by) /\ NewLock(l.by) = l)

\* What a waiting claim may replace does not protect a running row.
TakeoverInv ==
  \A r \in Runners : Waiting(r) =>
    \A l \in lock : l.until < job[r].now => tasks[l.task].status # "running"

\* A sweep deletes the lock of a task that has ended, and so does a finish.
SweepInv ==
  \A r \in Runners :
    /\ at[r] \in {"sweepMark", "sweepDelete"} => Begun(job[r].task)
    /\ at[r] = "sweepDelete" => tasks[job[r].task].status # "running"
ReleaseInv ==
  \A r \in Runners, t \in Tasks :
    exec[<<r, t>>] = "release" => tasks[t].status \in TerminalStatus

LeaseInv ==
  /\ RunningIsLeased /\ ClaimInv /\ FreshInv /\ HolderInv /\ LockInv
  /\ TakeoverInv /\ SweepInv /\ ReleaseInv

\* Rows that were taken stay taken, and by the same runner.
LEMMA RowsForward ==
  ASSUME TypeOK, [Next]_vars, NEW t \in Tasks
  PROVE  /\ tasks[t].status # "absent" => tasks'[t].status # "absent"
         /\ Begun(t) => Begun(t)' /\ tasks'[t].lockedBy = tasks[t].lockedBy
         /\ tasks[t].status \in TerminalStatus => tasks'[t] = tasks[t]
         /\ Begun(t) /\ tasks[t].status # "running" => tasks'[t] = tasks[t]
         /\ tasks'[t].status = "running" /\ tasks[t].status # "running" =>
              \E r \in Runners : ClaimSetRunning(r) /\ job[r].task = t
BY RowStep DEF RowMoves, Begun, TerminalStatus

\* A step of a pass changes the place and the locals of one runner only.
LEMMA PassIsLocal ==
  ASSUME TypeOK, NEW r \in Runners,
         ClaimStep(r) \/ SweepFind(r) \/ SweepMark(r) \/ SweepDelete(r) \/ Crash(r)
  PROVE  \A q \in Runners \ {r} : at'[q] = at[q] /\ job'[q] = job[q]
BY DEF TypeOK, ClaimStep, runSystemTaskClaimPass, AcquireInsert, AcquireExisting,
   AcquireTakeover, ClaimMarkOld, ClaimSetRunning, ClaimRelease, SweepFind, SweepMark,
   SweepDelete, Crash, PassGoes, PassEnds

\* Every step keeps LeaseInv while no claim pass fails between two of its
\* statements or outlives the lease it took.
LEMMA LeaseStep ==
  ASSUME PassFaults = FALSE
  PROVE  TypeOK /\ ActiveKeyTracksStatus /\ ExecutorRecorded /\ PassClockBehind
         /\ LeaseInv /\ [Next]_vars => LeaseInv'
<1> SUFFICES ASSUME TypeOK, ActiveKeyTracksStatus, ExecutorRecorded, PassClockBehind,
                    LeaseInv, [Next]_vars
             PROVE  LeaseInv'
  OBVIOUS
<1>0. /\ RunningIsLeased /\ ClaimInv /\ FreshInv /\ HolderInv /\ LockInv
      /\ TakeoverInv /\ SweepInv /\ ReleaseInv
  BY DEF LeaseInv
<1> USE <1>0 DEF TypeOK
<1>1. \A t \in Tasks :
        /\ tasks[t].status # "absent" => tasks'[t].status # "absent"
        /\ Begun(t) => Begun(t)' /\ tasks'[t].lockedBy = tasks[t].lockedBy
        /\ tasks[t].status \in TerminalStatus => tasks'[t] = tasks[t]
        /\ Begun(t) /\ tasks[t].status # "running" => tasks'[t] = tasks[t]
        /\ tasks'[t].status = "running" /\ tasks[t].status # "running" =>
             \E r \in Runners : ClaimSetRunning(r) /\ job[r].task = t
  BY RowsForward
<1>2. CASE UNCHANGED vars
  BY <1>2 DEF vars, LeaseInv, RunningIsLeased, ClaimInv, FreshInv, HolderInv, LockInv, TakeoverInv,
     SweepInv, ReleaseInv, InClaim, Holding, Waiting, Begun, NewLock
<1>3. ASSUME CreateSystemTask, UNCHANGED <<lock, at, job, exec, clock>> PROVE LeaseInv'
  <2>1. PICK t \in Tasks :
          /\ tasks[t].status = "absent"
          /\ tasks' = [tasks EXCEPT ![t] = [status |-> "pending", lockedBy |-> None, activeKey |-> TRUE]]
    BY <1>3 DEF CreateSystemTask
  <2>2. \A u \in Tasks : tasks[u].status # "absent" => tasks'[u] = tasks[u]
    BY <2>1
  <2>3. tasks'[t].status = "pending"
    BY <2>1
  <2>4. \A u \in Tasks : tasks'[u].status = "running" => tasks'[u] = tasks[u]
    BY <2>1, <2>3
  <2>5. RunningIsLeased'
    BY <1>3, <2>4 DEF RunningIsLeased
  <2>6. ClaimInv' /\ FreshInv'
    BY <1>3, <2>1, <2>2 DEF ClaimInv, FreshInv, Begun, InClaim
  <2>7. HolderInv' /\ LockInv'
    BY <1>1, <1>3 DEF HolderInv, LockInv, Holding, NewLock, LockRow
  <2>8. TakeoverInv'
    BY <1>3, <2>4 DEF TakeoverInv, Waiting, LockRow
  <2>9. SweepInv' /\ ReleaseInv'
    BY <1>1, <1>3, <2>4 DEF SweepInv, ReleaseInv
  <2> QED BY <2>5, <2>6, <2>7, <2>8, <2>9 DEF LeaseInv
\* Only the place and the locals of one pass change.
<1>4. ASSUME NEW r \in Runners, UNCHANGED <<tasks, lock, exec, clock>>,
             ClaimStep(r) \/ SweepFind(r), ~Holding(r), ~Holding(r)',
             InClaim(r)' => /\ tasks[job'[r].task].status # "absent"
                            /\ tasks[job'[r].task].lockedBy # r
                            /\ clock <= job'[r].until,
             Waiting(r)' => \A l \in lock : l.until < job'[r].now => tasks[l.task].status # "running",
             at'[r] = "sweepMark" => Begun(job'[r].task), at'[r] # "sweepDelete"
      PROVE  LeaseInv'
  <2>1. \A q \in Runners \ {r} : at'[q] = at[q] /\ job'[q] = job[q]
    BY <1>4, PassIsLocal
  <2>2. RunningIsLeased' /\ FreshInv' /\ ReleaseInv'
    BY <1>4 DEF RunningIsLeased, FreshInv, ReleaseInv, Begun
  <2>3. ClaimInv'
    BY <1>4, <2>1 DEF ClaimInv, InClaim
  <2>4. HolderInv' /\ LockInv'
    BY <1>4, <2>1 DEF HolderInv, LockInv, Holding, NewLock, Begun, LockRow
  <2>5. TakeoverInv'
    BY <1>4, <2>1 DEF TakeoverInv, Waiting
  <2>6. SweepInv'
    BY <1>4, <2>1 DEF SweepInv, Begun
  <2> QED BY <2>2, <2>3, <2>4, <2>5, <2>6 DEF LeaseInv
<1>5. ASSUME NEW r \in Runners, runSystemTaskClaimPass(r) PROVE LeaseInv'
  <2>1. PICK t \in Tasks : /\ tasks[t].status = "pending"
                           /\ at' = [at EXCEPT ![r] = "insert"]
                           /\ job' = [job EXCEPT ![r] = Job(t, None, clock, clock + TTL)]
    BY <1>5 DEF runSystemTaskClaimPass, FindEarliestPendingSystemTasks
  <2>2. job'[r].task = t /\ job'[r].until = clock + TTL /\ at'[r] = "insert"
    BY <2>1 DEF Job
  <2>3. \A u \in Tasks : tasks[u].status # "running"
    BY <2>1 DEF ActiveKeyTracksStatus, ActiveStatus
  <2>4. tasks[t].lockedBy # r
    BY <2>1 DEF FreshInv, Begun
  <2>5. ~Holding(r) /\ ~Holding(r)' /\ UNCHANGED <<tasks, lock, exec, clock>> /\ ClaimStep(r)
    BY <1>5, <2>2 DEF runSystemTaskClaimPass, Holding, ClaimStep
  <2> QED BY <1>4, <2>1, <2>2, <2>3, <2>4, <2>5 DEF LockRow
<1>6. ASSUME NEW r \in Runners, AcquireExisting(r) PROVE LeaseInv'
  <2>1. ClaimStep(r) /\ UNCHANGED <<tasks, lock, exec, clock>> /\ InClaim(r) /\ Waiting(r)
    BY <1>6 DEF AcquireExisting, ClaimStep, InClaim, Waiting
  <2>2. \/ /\ at'[r] = "takeover" /\ job'[r].task = job[r].task
           /\ job'[r].until = job[r].until /\ job'[r].now = job[r].now
        \/ at'[r] = "idle"
    BY <1>6 DEF AcquireExisting, PassEnds, JobState
  <2>3. ~Holding(r) /\ ~Holding(r)'
    BY <1>6, <2>2 DEF AcquireExisting, Holding
  <2>4. CASE at'[r] = "idle"
    BY <1>4, <2>1, <2>3, <2>4 DEF InClaim, Waiting
  <2>5. CASE /\ at'[r] = "takeover" /\ job'[r].task = job[r].task
             /\ job'[r].until = job[r].until /\ job'[r].now = job[r].now
    BY <1>4, <2>1, <2>3, <2>5 DEF ClaimInv, TakeoverInv
  <2> QED BY <2>2, <2>4, <2>5
<1>7. ASSUME NEW r \in Runners, SweepFind(r) PROVE LeaseInv'
  <2>1. CASE UNCHANGED <<at, job>>
    BY <1>2, <1>7, <2>1 DEF SweepFind, vars
  <2>2. ASSUME NEW l \in lock, l.until < clock, at'[r] = "sweepMark",
               job' = [job EXCEPT ![r] = Job(l.task, l.by, clock, 0)]
        PROVE  LeaseInv'
    <3>1. ~(Holding(l.by) /\ NewLock(l.by) = l)
      <4> SUFFICES ASSUME Holding(l.by), NewLock(l.by) = l PROVE FALSE
        OBVIOUS
      <4>1. l.by \in Runners /\ InClaim(l.by)
        BY DEF LockRow, Holding, InClaim
      <4>2. l.until = job[l.by].until
        BY DEF NewLock
      <4> QED BY <2>2, <4>1, <4>2 DEF ClaimInv, LockRow
    <3>2. Begun(l.task) /\ job'[r].task = l.task
      BY <2>2, <3>1 DEF LockInv, Job
    <3>3. ~Holding(r) /\ ~Holding(r)' /\ UNCHANGED <<tasks, lock, exec, clock>>
      BY <1>7, <2>2 DEF SweepFind, Holding
    <3> QED BY <1>4, <1>7, <2>2, <3>2, <3>3 DEF InClaim, Waiting
  <2> QED BY <1>7, <2>1, <2>2 DEF SweepFind
\* A claim writes the lock row when no running row needs the one it replaces.
<1>8. ASSUME NEW r \in Runners, Waiting(r), ClaimStep(r), UNCHANGED <<tasks, exec, clock>>,
             lock' = {NewLock(r)}, Holding(r)', UNCHANGED job,
             \A u \in Tasks : tasks[u].status # "running",
             \A q \in Runners : ~Holding(q)
      PROVE  LeaseInv'
  <2>1. \A q \in Runners \ {r} : at'[q] = at[q]
    BY <1>8, PassIsLocal
  <2>2. RunningIsLeased' /\ FreshInv' /\ ReleaseInv'
    BY <1>8 DEF RunningIsLeased, FreshInv, ReleaseInv, Begun
  <2>3. ClaimInv'
    BY <1>8, <2>1 DEF ClaimInv, InClaim, Waiting
  <2>4. HolderInv' /\ LockInv'
    <3>1. NewLock(r)' = NewLock(r) /\ NewLock(r).by = r
      BY <1>8 DEF NewLock
    <3> QED BY <1>8, <2>1, <3>1 DEF HolderInv, LockInv, Holding
  <2>5. TakeoverInv'
    BY <1>8, PassTyped, NewLockTyped DEF TakeoverInv, PassOK, Waiting, LockRow
  <2>6. SweepInv'
    BY <1>8, <2>1 DEF SweepInv, Begun, Holding
  <2> QED BY <2>2, <2>3, <2>4, <2>5, <2>6 DEF LeaseInv
<1>9. ASSUME NEW r \in Runners, AcquireInsert(r) PROVE LeaseInv'
  <2>0. ClaimStep(r) /\ UNCHANGED <<tasks, exec, clock, job>> /\ Waiting(r) /\ InClaim(r)
    BY <1>9 DEF AcquireInsert, ClaimStep, PassGoes, Waiting, InClaim
  <2>1. CASE lock = {} /\ lock' = {NewLock(r)} /\ PassGoes(r, "setRunning")
    <3>1. \A u \in Tasks : tasks[u].status # "running"
      BY <2>1 DEF RunningIsLeased
    <3>2. \A q \in Runners : ~Holding(q)
      BY <2>1 DEF HolderInv
    <3>3. Holding(r)'
      BY <2>1 DEF PassGoes, Holding
    <3> QED BY <1>8, <2>0, <2>1, <3>1, <3>2, <3>3
  <2>2. CASE PassGoes(r, "existing") /\ UNCHANGED lock
    <3>1. at'[r] = "existing"
      BY <2>2 DEF PassGoes
    <3>2. ~Holding(r) /\ ~Holding(r)'
      BY <1>9, <3>1 DEF AcquireInsert, Holding
    <3> QED BY <1>4, <2>0, <2>2, <3>1, <3>2 DEF ClaimInv, TakeoverInv
  <2> QED BY <1>9, <2>1, <2>2 DEF AcquireInsert
<1>10. ASSUME NEW r \in Runners, AcquireTakeover(r) PROVE LeaseInv'
  <2>0. ClaimStep(r) /\ UNCHANGED <<tasks, exec, clock>> /\ Waiting(r) /\ InClaim(r)
    BY <1>10 DEF AcquireTakeover, ClaimStep, Waiting, InClaim
  <2>1. ASSUME NEW l \in lock, l.until < job[r].now, lock' = {NewLock(r)},
               PassGoes(r, IF job[r].old # job[r].task THEN "markOld" ELSE "setRunning")
        PROVE  LeaseInv'
    <3>1. \A u \in Tasks : tasks[u].status # "running"
      BY <2>0, <2>1 DEF RunningIsLeased, TakeoverInv
    <3>2. ASSUME NEW q \in Runners, Holding(q) PROVE FALSE
      <4>1. l = NewLock(q)
        BY <3>2 DEF HolderInv
      <4>2. l.until = job[q].until
        BY <4>1 DEF NewLock
      <4>3. clock <= job[q].until
        BY <3>2 DEF ClaimInv, Holding, InClaim
      <4>4. job[q].until \in Nat /\ job[r].now \in Nat /\ job[r].now <= clock
        BY DEF JobState, PassClockBehind
      <4> QED BY <2>1, <4>2, <4>3, <4>4
    <3>3. Holding(r)' /\ UNCHANGED job
      BY <2>1 DEF PassGoes, Holding
    <3> QED BY <1>8, <2>0, <2>1, <3>1, <3>2, <3>3
  <2>2. CASE PassEnds(r) /\ UNCHANGED lock
    <3>1. at'[r] = "idle"
      BY <2>2 DEF PassEnds
    <3>2. ~Holding(r) /\ ~Holding(r)'
      BY <1>10, <3>1 DEF AcquireTakeover, Holding
    <3> QED BY <1>4, <2>0, <2>2, <3>1, <3>2 DEF InClaim, Waiting
  <2> QED BY <1>10, <2>1, <2>2 DEF AcquireTakeover
\* A row is marked failed by a pass that stays outside or keeps its lock.
<1>11. ASSUME NEW r \in Runners, NEW t, MarkSystemTaskLeaseExpired(t),
              ClaimMarkOld(r) \/ SweepMark(r), UNCHANGED <<lock, exec, clock, job>>,
              Holding(r)' = Holding(r), InClaim(r)' => InClaim(r), ~Waiting(r)',
              at'[r] = "sweepDelete" => Begun(job[r].task)' /\ tasks'[job[r].task].status # "running",
              at'[r] # "sweepMark"
       PROVE  LeaseInv'
  <2>1. \A q \in Runners \ {r} : at'[q] = at[q]
    BY <1>11, PassIsLocal DEF ClaimStep
  <2>2. \A u \in Tasks : tasks'[u].status = "running" => tasks'[u] = tasks[u]
    BY <1>11, MarkEffect
  <2>3. \A u \in Tasks : tasks'[u].lockedBy = tasks[u].lockedBy
    BY <1>11, MarkEffect
  <2>4. \A u \in Tasks : Begun(u)' = Begun(u)
    BY <1>11, MarkEffect DEF Begun
  <2>5. RunningIsLeased' /\ FreshInv' /\ ReleaseInv'
    BY <1>1, <1>11, <2>2, <2>3, <2>4 DEF RunningIsLeased, FreshInv, ReleaseInv
  <2>6. ClaimInv'
    BY <1>1, <1>11, <2>1, <2>3 DEF ClaimInv, InClaim
  <2>7. HolderInv' /\ LockInv'
    BY <1>11, <2>1, <2>4 DEF HolderInv, LockInv, Holding, NewLock, LockRow
  <2>8. TakeoverInv'
    BY <1>11, <2>1, <2>2 DEF TakeoverInv, Waiting, LockRow
  <2>9. SweepInv'
    BY <1>11, <2>1, <2>2, <2>4 DEF SweepInv
  <2> QED BY <2>5, <2>6, <2>7, <2>8, <2>9 DEF LeaseInv
<1>12. ASSUME NEW r \in Runners, ClaimMarkOld(r) PROVE LeaseInv'
  <2>1. /\ MarkSystemTaskLeaseExpired(job[r].old) /\ UNCHANGED <<lock, exec, clock, job>>
        /\ at[r] = "markOld" /\ at'[r] = "setRunning"
    BY <1>12 DEF ClaimMarkOld, PassGoes
  <2> QED BY <1>11, <1>12, <2>1 DEF Holding, InClaim, Waiting
<1>13. ASSUME NEW r \in Runners, SweepMark(r) PROVE LeaseInv'
  <2>1. /\ MarkSystemTaskLeaseExpired(job[r].task) /\ UNCHANGED <<lock, exec, clock, job>>
        /\ at[r] = "sweepMark" /\ at'[r] = "sweepDelete"
    BY <1>13 DEF SweepMark, PassGoes
  <2>2. Begun(job[r].task) /\ job[r].task \in Tasks
    BY <2>1 DEF SweepInv
  <2>3. tasks'[job[r].task].status # "running"
    BY <2>1, <2>2 DEF MarkSystemTaskLeaseExpired, TaskRow
  <2> QED BY <1>1, <1>11, <1>13, <2>1, <2>2, <2>3 DEF Holding, InClaim, Waiting
<1>14. ASSUME NEW r \in Runners, ClaimSetRunning(r) PROVE LeaseInv'
  <2> DEFINE t == job[r].task
  <2>0. /\ t \in Tasks /\ Holding(r) /\ InClaim(r) /\ UNCHANGED <<lock, clock>>
        /\ NewLock(r) \in lock /\ NewLock(r).task = t /\ NewLock(r).by = r
        /\ NewLock(r).until = job[r].until
    BY <1>14 DEF ClaimSetRunning, Holding, InClaim, HolderInv, NewLock
  <2>1. \A q \in Runners \ {r} : at'[q] = at[q] /\ job'[q] = job[q]
    BY <1>14, PassIsLocal DEF ClaimStep
  <2>2. CASE PassGoes(r, "release") /\ UNCHANGED <<tasks, exec>>
    <3>1. at'[r] = "release" /\ UNCHANGED job
      BY <2>2 DEF PassGoes
    <3>2. RunningIsLeased' /\ FreshInv' /\ ReleaseInv' /\ SweepInv'
      BY <2>0, <2>1, <2>2, <3>1 DEF RunningIsLeased, FreshInv, ReleaseInv, SweepInv, Begun
    <3>3. ClaimInv' /\ HolderInv' /\ LockInv'
      BY <2>0, <2>1, <2>2, <3>1 DEF ClaimInv, HolderInv, LockInv, InClaim, Holding, NewLock, Begun
    <3>4. TakeoverInv'
      BY <2>0, <2>1, <2>2, <3>1 DEF TakeoverInv, Waiting
    <3> QED BY <3>2, <3>3, <3>4 DEF LeaseInv
  <2>3. CASE /\ tasks[t].status = "pending" /\ PassEnds(r)
             /\ tasks' = [tasks EXCEPT ![t].status = "running", ![t].lockedBy = r]
             /\ exec' = [exec EXCEPT ![<<r, t>>] = "run"]
    <3>1. /\ tasks'[t].status = "running" /\ tasks'[t].lockedBy = r
          /\ \A u \in Tasks \ {t} : tasks'[u] = tasks[u]
      BY <2>0, <2>3 DEF TaskRow
    <3>2. at'[r] = "idle"
      BY <2>3 DEF PassEnds
    <3>3. RunningIsLeased'
      BY <2>0, <3>1 DEF RunningIsLeased
    <3>10. FreshInv'
      <4> SUFFICES ASSUME NEW u \in Tasks, ~Begun(u)' PROVE tasks'[u].lockedBy = None
        BY DEF FreshInv
      <4>1. u # t
        BY <3>1 DEF Begun
      <4> QED BY <3>1, <4>1 DEF FreshInv, Begun
    <3>11. ClaimInv'
      <4> SUFFICES ASSUME NEW q \in Runners, InClaim(q)'
                   PROVE  /\ tasks'[job'[q].task].status # "absent"
                          /\ tasks'[job'[q].task].lockedBy # q
                          /\ clock' <= job'[q].until
        BY DEF ClaimInv
      <4>1. q # r /\ job'[q] = job[q] /\ at'[q] = at[q] /\ InClaim(q)
        BY <2>1, <3>2 DEF InClaim
      <4>2. /\ tasks[job[q].task].status # "absent" /\ tasks[job[q].task].lockedBy # q
            /\ clock <= job[q].until
        BY <4>1 DEF ClaimInv
      <4>3. job[q].task \in Tasks
        BY <4>1 DEF InClaim, JobState
      <4>4. CASE job[q].task = t
        BY <2>0, <3>1, <4>1, <4>2, <4>4
      <4>5. CASE job[q].task # t
        BY <2>0, <3>1, <4>1, <4>2, <4>3, <4>5
      <4> QED BY <4>4, <4>5
    <3>4. FreshInv' /\ ClaimInv'
      BY <3>10, <3>11
    <3>5. HolderInv'
      BY <2>0, <2>1, <3>2 DEF HolderInv, Holding, NewLock
    <3>6. LockInv'
      <4> SUFFICES ASSUME NEW l \in lock PROVE Begun(l.task)' \/ (Holding(l.by) /\ NewLock(l.by) = l)'
        BY <2>0 DEF LockInv
      <4>1. l = NewLock(r)
        BY <2>0
      <4> QED BY <2>0, <3>1, <4>1 DEF Begun
    <3>7. TakeoverInv'
      <4> SUFFICES ASSUME NEW q \in Runners, Waiting(q)', NEW l \in lock, l.until < job'[q].now
                   PROVE  FALSE
        BY <2>0 DEF TakeoverInv
      <4>1. q # r /\ job'[q] = job[q]
        BY <2>1, <3>2 DEF Waiting
      <4>2. l.until = job[r].until /\ clock <= job[r].until
        BY <2>0 DEF ClaimInv
      <4>3. job[r].until \in Nat /\ job[q].now \in Nat /\ job[q].now <= clock
        BY DEF JobState, PassClockBehind
      <4> QED BY <4>1, <4>2, <4>3
    <3>8. SweepInv'
      BY <1>1, <2>1, <3>2 DEF SweepInv
    <3>9. ReleaseInv'
      <4> SUFFICES ASSUME NEW q \in Runners, NEW u \in Tasks, exec'[<<q, u>>] = "release"
                   PROVE  tasks'[u].status \in TerminalStatus
        BY DEF ReleaseInv
      <4>1. exec[<<q, u>>] = "release"
        BY <2>0, <2>3
      <4>2. tasks[u].status \in TerminalStatus
        BY <4>1 DEF ReleaseInv
      <4>3. u # t
        BY <2>3, <4>2 DEF TerminalStatus
      <4> QED BY <3>1, <4>2, <4>3
    <3> QED BY <3>3, <3>4, <3>5, <3>6, <3>7, <3>8, <3>9 DEF LeaseInv
  <2> QED BY <1>14, <2>2, <2>3 DEF ClaimSetRunning
\* A step that takes lock rows away, from no running row and from no claim.
<1>15. ASSUME NEW r \in Runners, UNCHANGED <<tasks, clock>>, lock' \subseteq lock,
              \A u \in Tasks, l \in lock :
                tasks[u].status = "running" /\ l.task = u /\ l.by = tasks[u].lockedBy => l \in lock',
              \A q \in Runners \ {r} : at'[q] = at[q] /\ job'[q] = job[q],
              UNCHANGED <<at, job>> \/ at'[r] = "idle",
              \A q \in Runners : Holding(q)' => NewLock(q) \in lock',
              \A l \in lock' : Holding(l.by) /\ NewLock(l.by) = l => Holding(l.by)',
              \A q \in Runners, u \in Tasks : exec'[<<q, u>>] = "release" => exec[<<q, u>>] = "release"
       PROVE  LeaseInv'
  <2>1. RunningIsLeased' /\ FreshInv' /\ ReleaseInv'
    BY <1>15 DEF RunningIsLeased, FreshInv, ReleaseInv, Begun
  <2>2. ClaimInv'
    BY <1>15 DEF ClaimInv, InClaim
  <2>3. \A q \in Runners : Holding(q)' => Holding(q) /\ NewLock(q)' = NewLock(q)
    BY <1>15 DEF Holding, NewLock
  <2>4. HolderInv'
    BY <1>15, <2>3 DEF HolderInv
  <2>5. LockInv'
    BY <1>15, <2>3 DEF LockInv, Begun, LockRow
  <2>6. TakeoverInv'
    BY <1>15 DEF TakeoverInv, Waiting
  <2>7. SweepInv'
    BY <1>15 DEF SweepInv, Begun
  <2> QED BY <2>1, <2>2, <2>4, <2>5, <2>6, <2>7 DEF LeaseInv
<1>16. ASSUME NEW r \in Runners, ClaimRelease(r) PROVE LeaseInv'
  <2>1. /\ UNCHANGED <<tasks, exec, clock>> /\ at'[r] = "idle" /\ InClaim(r)
        /\ lock' = {l \in lock : ~(l.task = job[r].task /\ l.by = r)}
    BY <1>16 DEF ClaimRelease, ReleaseSystemTaskLock, PassEnds, InClaim
  <2>2. \A q \in Runners \ {r} : at'[q] = at[q] /\ job'[q] = job[q]
    BY <1>16, PassIsLocal DEF ClaimStep
  <2>3. \A u \in Tasks, l \in lock :
          tasks[u].status = "running" /\ l.task = u /\ l.by = tasks[u].lockedBy => l \in lock'
    BY <2>1 DEF ClaimInv
  <2>4. \A q \in Runners : Holding(q)' => NewLock(q) \in lock'
    BY <2>1, <2>2 DEF HolderInv, Holding, NewLock
  <2>5. \A l \in lock' : Holding(l.by) /\ NewLock(l.by) = l => Holding(l.by)'
    BY <2>1, <2>2 DEF Holding, NewLock, LockRow
  <2> QED BY <1>15, <2>1, <2>2, <2>3, <2>4, <2>5
<1>17. ASSUME NEW r \in Runners, SweepDelete(r) PROVE LeaseInv'
  <2>1. /\ UNCHANGED <<tasks, exec, clock>> /\ at[r] = "sweepDelete" /\ at'[r] = "idle"
        /\ lock' = {l \in lock : ~(/\ l.task = job[r].task /\ l.by = job[r].by
                                   /\ l.until < job[r].now)}
    BY <1>17 DEF SweepDelete, PassEnds
  <2>2. \A q \in Runners \ {r} : at'[q] = at[q] /\ job'[q] = job[q]
    BY <1>17, PassIsLocal
  <2>3. \A u \in Tasks, l \in lock :
          tasks[u].status = "running" /\ l.task = u /\ l.by = tasks[u].lockedBy => l \in lock'
    BY <2>1 DEF SweepInv
  <2>4. ASSUME NEW q \in Runners, Holding(q)' PROVE NewLock(q) \in lock'
    <3>1. Holding(q) /\ InClaim(q)
      BY <2>1, <2>2, <2>4 DEF Holding, InClaim
    <3>2. NewLock(q) \in lock /\ NewLock(q).until = job[q].until /\ clock <= job[q].until
      BY <3>1 DEF HolderInv, NewLock, ClaimInv
    <3>3. job[q].until \in Nat /\ job[r].now \in Nat /\ job[r].now <= clock
      BY DEF JobState, PassClockBehind
    <3> QED BY <2>1, <3>2, <3>3
  <2>5. \A l \in lock' : Holding(l.by) => Holding(l.by)'
    BY <2>1, <2>2 DEF Holding, LockRow
  <2> QED BY <1>15, <2>1, <2>2, <2>3, <2>4, <2>5
<1>18. ASSUME NEW r \in Runners, Crash(r) PROVE LeaseInv'
  <2>1. /\ UNCHANGED <<tasks, lock, clock>> /\ ~InClaim(r) /\ at'[r] = "dead"
        /\ \A q \in Runners, u \in Tasks : exec'[<<q, u>>] = "release" => exec[<<q, u>>] = "release"
    BY <1>18 DEF Crash
  <2>2. \A q \in Runners \ {r} : at'[q] = at[q] /\ job'[q] = job[q]
    BY <1>18, PassIsLocal
  <2>3. RunningIsLeased' /\ FreshInv' /\ ReleaseInv'
    BY <2>1 DEF RunningIsLeased, FreshInv, ReleaseInv, Begun
  <2>4. ClaimInv' /\ HolderInv' /\ LockInv'
    BY <2>1, <2>2 DEF ClaimInv, HolderInv, LockInv, InClaim, Holding, NewLock, Begun, LockRow
  <2>5. TakeoverInv' /\ SweepInv'
    BY <2>1, <2>2 DEF TakeoverInv, SweepInv, Waiting, Begun
  <2> QED BY <2>3, <2>4, <2>5 DEF LeaseInv
\* The runner that executes t does not claim it again.
<1>19. ASSUME NEW r \in Runners, NEW t \in Tasks, exec[<<r, t>>] # "none"
       PROVE  /\ Begun(t)
              /\ \A q \in Runners : Holding(q) => ~(NewLock(q).task = t /\ NewLock(q).by = r)
  BY <1>19 DEF ExecutorRecorded, Begun, ClaimInv, NewLock, Holding, InClaim
<1>20. ASSUME NEW r \in Runners, NEW t \in Tasks, RenewSystemTaskLock(r, t) PROVE LeaseInv'
  <2>1. UNCHANGED <<tasks, at, job, clock>> /\ exec[<<r, t>>] # "none"
    BY <1>20 DEF RenewSystemTaskLock
  <2>2. CASE exec' = [exec EXCEPT ![<<r, t>>] = "cancelled"] /\ UNCHANGED lock
    BY <1>15, <2>1, <2>2 DEF HolderInv, Holding
  <2>3. ASSUME NEW l \in lock, l.task = t, l.by = r,
               lock' = {[l EXCEPT !.until = clock + TTL]}, UNCHANGED exec
        PROVE  LeaseInv'
    <3> DEFINE m == [l EXCEPT !.until = clock + TTL]
    <3>1. lock' = {m} /\ m.task = t /\ m.by = r /\ m.until = clock + TTL
      BY <2>3 DEF LockRow
    <3>2. \A q \in Runners : ~Holding(q)
      BY <1>19, <2>1, <2>3 DEF HolderInv
    <3> HIDE DEF m
    <3>3. RunningIsLeased'
      BY <2>1, <2>3, <3>1 DEF RunningIsLeased
    <3>4. FreshInv' /\ ClaimInv' /\ SweepInv' /\ ReleaseInv'
      BY <2>1, <2>3 DEF FreshInv, ClaimInv, SweepInv, ReleaseInv, Begun, InClaim
    <3>5. HolderInv' /\ LockInv'
      BY <1>19, <2>1, <3>1, <3>2 DEF HolderInv, LockInv, Holding, Begun
    <3>6. TakeoverInv'
      <4>1. \A q \in Runners : job[q].now \in Nat /\ job[q].now <= clock
        BY DEF JobState, PassClockBehind
      <4> QED BY <2>1, <3>1, <4>1 DEF TakeoverInv
    <3> QED BY <3>3, <3>4, <3>5, <3>6 DEF LeaseInv
  <2> QED BY <1>20, <2>2, <2>3 DEF RenewSystemTaskLock
<1>21. ASSUME NEW r \in Runners, NEW t \in Tasks, UpdateSystemTaskState(r, t) PROVE LeaseInv'
  <2>1. /\ UNCHANGED <<tasks, lock, at, job, clock>>
        /\ \A q \in Runners, u \in Tasks : exec'[<<q, u>>] = "release" => exec[<<q, u>>] = "release"
    BY <1>21 DEF UpdateSystemTaskState
  <2> QED BY <1>15, <2>1 DEF HolderInv, Holding
<1>22. ASSUME NEW r \in Runners, NEW t \in Tasks, FinishSystemTask(r, t) PROVE LeaseInv'
  <2>1. UNCHANGED <<lock, at, job, clock>>
    BY <1>22 DEF FinishSystemTask
  <2>2. CASE UNCHANGED tasks /\ exec' = [exec EXCEPT ![<<r, t>>] = "ended"]
    BY <1>15, <2>1, <2>2 DEF HolderInv, Holding
  <2>3. ASSUME NEW s \in TerminalStatus, tasks[t].status = "running",
               tasks' = [tasks EXCEPT ![t].status = s, ![t].activeKey = FALSE],
               exec' = [exec EXCEPT ![<<r, t>>] = "release"]
        PROVE  LeaseInv'
    <3>1. /\ tasks'[t].status = s /\ tasks'[t].lockedBy = tasks[t].lockedBy
          /\ \A u \in Tasks \ {t} : tasks'[u] = tasks[u]
      BY <2>3 DEF TaskRow
    <3>2. s # "running" /\ s # "pending" /\ s # "absent"
      BY DEF TerminalStatus
    <3>3. \A u \in Tasks : tasks'[u].status = "running" => tasks'[u] = tasks[u]
      BY <3>1, <3>2
    <3>4. RunningIsLeased' /\ TakeoverInv'
      BY <2>1, <3>3 DEF RunningIsLeased, TakeoverInv, Waiting, LockRow
    <3>5. FreshInv' /\ ClaimInv'
      BY <2>1, <3>1, <3>2 DEF FreshInv, ClaimInv, InClaim, Begun
    <3>6. HolderInv' /\ LockInv'
      BY <1>1, <2>1 DEF HolderInv, LockInv, Holding, NewLock, LockRow
    <3>7. SweepInv'
      BY <1>1, <2>1, <3>3 DEF SweepInv
    <3>8. ReleaseInv'
      BY <1>1, <2>3, <3>1 DEF ReleaseInv
    <3> QED BY <3>4, <3>5, <3>6, <3>7, <3>8 DEF LeaseInv
  <2> QED BY <1>22, <2>2, <2>3 DEF FinishSystemTask, HoldsLease
<1>23. ASSUME NEW r \in Runners, NEW t \in Tasks, FinishRelease(r, t) PROVE LeaseInv'
  <2>1. /\ UNCHANGED <<tasks, at, job, clock>> /\ exec[<<r, t>>] = "release"
        /\ lock' = lock \/ lock' = {l \in lock : ~(l.task = t /\ l.by = r)}
        /\ \A q \in Runners, u \in Tasks : exec'[<<q, u>>] = "release" => exec[<<q, u>>] = "release"
    BY <1>23 DEF FinishRelease, ReleaseSystemTaskLock
  <2>2. tasks[t].status # "running"
    BY <2>1 DEF ReleaseInv, TerminalStatus
  <2>3. \A q \in Runners : Holding(q)' => NewLock(q) \in lock'
    BY <1>19, <2>1 DEF HolderInv, Holding
  <2>4. \A l \in lock' : Holding(l.by) => Holding(l.by)'
    BY <2>1 DEF Holding
  <2> QED BY <1>15, <2>1, <2>2, <2>3, <2>4
<1>24. CASE Tick
  <2>1. /\ UNCHANGED <<tasks, lock, at, job, exec>> /\ clock' = clock + 1
        /\ \A r \in Runners : InClaim(r) => clock < job[r].until
    BY <1>24 DEF Tick
  <2>2. ClaimInv'
    <3>1. \A r \in Runners : job[r].until \in Nat
      BY DEF JobState
    <3> QED BY <2>1, <3>1 DEF ClaimInv, InClaim
  <2>3. RunningIsLeased' /\ FreshInv' /\ HolderInv' /\ LockInv'
    BY <2>1 DEF RunningIsLeased, FreshInv, HolderInv, LockInv, Holding, NewLock, Begun
  <2>4. TakeoverInv' /\ SweepInv' /\ ReleaseInv'
    BY <2>1 DEF TakeoverInv, SweepInv, ReleaseInv, Waiting, Begun
  <2> QED BY <2>2, <2>3, <2>4 DEF LeaseInv
<1> QED
  BY <1>2, <1>3, <1>5, <1>6, <1>7, <1>9, <1>10, <1>12, <1>13, <1>14, <1>16, <1>17, <1>18,
     <1>20, <1>21, <1>22, <1>23, <1>24
     DEF Next, EnqueueSystemTask, runSystemTaskScheduler, ClaimStep, ExecStep

\* When claims complete within their lease, every running row is named, with its
\* runner, by the lock row, so that the sweep finds it once its runner is gone,
\* whatever runners, tasks and crashes there are.  With claims that stall past
\* their lease this is false: such a claim sets a row running after its lock
\* was swept.
THEOREM RunningIsLeasedHolds == ASSUME PassFaults = FALSE PROVE Spec => []RunningIsLeased
<1>1. Init => ActiveKeyTracksStatus /\ ExecutorRecorded /\ PassClockBehind
  BY DEF Init, ActiveKeyTracksStatus, ActiveStatus, ExecutorRecorded, PassClockBehind, NoJob, Job
<1>2. Init => LeaseInv
  BY DEF Init, LeaseInv, RunningIsLeased, ClaimInv, FreshInv, HolderInv, LockInv, TakeoverInv,
     SweepInv, ReleaseInv, InClaim, Holding, Waiting, Begun
<1>3. LeaseInv => RunningIsLeased
  BY DEF LeaseInv
<1> QED
  BY <1>1, <1>2, <1>3, LeaseStep, ActiveKeyStep, ExecutorStep, PassClockStep, TypeCorrect, PTL
     DEF Spec
=============================================================================
