----------------------------- MODULE SystemTask -----------------------------
(***************************************************************************)
(* The distributed system-task runner (service/system_task.go over the     *)
(* tables of model/system_task.go), for ONE task type: rows and lock of    *)
(* different types never touch each other.                                 *)
(*                                                                         *)
(* Every master node runs one runner.  Its goroutine repeats a pass that   *)
(* expires stale locks, schedules, and claims the earliest pending task;   *)
(* a claimed task is executed in a goroutine of its own, beside a          *)
(* heartbeat that renews the lease.  Each SQL statement is one atomic      *)
(* step, and anything may happen between two statements of one function,   *)
(* a crash of the process included.  Wall clocks agree (GetTimestamp).     *)
(***************************************************************************)
EXTENDS Naturals, FiniteSets

CONSTANTS
  Runners,      \* runner ids; a restarted process draws a fresh id
  MaxTasks,     \* bound: rows created in system_tasks for this type
  TTL,          \* systemTaskLockTTL in clock ticks
  MaxClock,     \* bound: the last clock value
  PassFaults,   \* may a claim die or outlive its own lease half-way, and may the
                \* database refuse a statement of a pass?
  None          \* no runner, no row

ASSUME RunnersAssumption == Runners # {} /\ IsFiniteSet(Runners) /\ None \notin Runners
ASSUME BoundsAssumption == MaxTasks \in Nat \ {0} /\ TTL \in Nat \ {0} /\ MaxClock \in Nat
ASSUME FaultsAssumption == PassFaults \in BOOLEAN
ASSUME NoneAssumption == None \notin Nat

VARIABLES
  tasks,   \* system_tasks: id -> row
  lock,    \* the row of system_task_locks for this type, as a set of at most one row
  at,      \* runner -> where its pass stands
  job,     \* runner -> the local variables of its pass
  exec,    \* <<runner, task>> -> where the goroutine executing the task stands
  clock    \* common.GetTimestamp()

vars == <<tasks, lock, at, job, exec, clock>>

Tasks == 1..MaxTasks

ActiveStatus == {"pending", "running"}
TerminalStatus == {"succeeded", "failed"}
Status == ActiveStatus \cup TerminalStatus \cup {"absent"}

\* activeKey: the nullable column under the unique index is set.
TaskRow == [status : Status, lockedBy : Runners \cup {None}, activeKey : BOOLEAN]
LockRow == [task : Tasks, by : Runners, until : Nat]

PassAt == {"idle", "insert", "existing", "takeover", "markOld", "setRunning",
           "release", "sweepMark", "sweepDelete", "dead"}

\* task, by: the row the pass works on; now, until: timestamps read when it
\* began; old: the task of the expired lock it replaces.
JobState == [task : Tasks \cup {None}, by : Runners \cup {None},
             now : Nat, until : Nat, old : Tasks \cup {None}]

Job(t, r, now, until) == [task |-> t, by |-> r, now |-> now, until |-> until, old |-> None]
NoJob == Job(None, None, 0, 0)

ExecAt == {"none", "run", "cancelled", "release", "ended"}

Init ==
  /\ tasks = [t \in Tasks |-> [status |-> "absent", lockedBy |-> None, activeKey |-> FALSE]]
  /\ lock = {}
  /\ at = [r \in Runners |-> "idle"]
  /\ job = [r \in Runners |-> NoJob]
  /\ exec = [e \in Runners \X Tasks |-> "none"]
  /\ clock = 0

-----------------------------------------------------------------------------
(* Creating tasks                                                          *)

GetActiveSystemTask == {t \in Tasks : tasks[t].status \in ActiveStatus}

\* The row with the largest id, as a set of at most one.
GetLatestSystemTasks ==
  {t \in Tasks : /\ tasks[t].status # "absent"
                 /\ \A u \in Tasks : tasks[u].status # "absent" => u <= t}

\* INSERT; the unique index on active_key refuses a second active row.
CreateSystemTask ==
  /\ \A t \in Tasks : ~tasks[t].activeKey
  /\ \E t \in Tasks :
       /\ tasks[t].status = "absent"
       /\ \A u \in Tasks : u < t => tasks[u].status # "absent"
       /\ tasks' = [tasks EXCEPT ![t] = [status |-> "pending", lockedBy |-> None,
                                         activeKey |-> TRUE]]

\* An API handler of any node; an existing active task is returned instead.
EnqueueSystemTask ==
  /\ GetActiveSystemTask = {}
  /\ CreateSystemTask
  /\ UNCHANGED <<lock, at, job, exec, clock>>

\* The scheduler part of a pass.  Whether the handler's interval has elapsed
\* is left open: it only makes this step rarer.
runSystemTaskScheduler(r) ==
  /\ at[r] = "idle"
  /\ GetLatestSystemTasks \cap GetActiveSystemTask = {}
  /\ CreateSystemTask
  /\ UNCHANGED <<lock, at, job, exec, clock>>

-----------------------------------------------------------------------------
(* Helpers shared by the statements                                        *)

Live(l) == l.until >= clock

PassGoes(r, to) ==
  /\ at' = [at EXCEPT ![r] = to]
  /\ UNCHANGED job

\* The pass returns; its locals are gone.
PassEnds(r) ==
  /\ at' = [at EXCEPT ![r] = "idle"]
  /\ job' = [job EXCEPT ![r] = NoJob]

\* Mutant: the DELETE forgets locked_by.
ReleaseAnyonesLock(t, r) == lock' = {l \in lock : l.task # t}

\* DELETE ... WHERE task_id AND locked_by
ReleaseSystemTaskLock(t, r) ==
  lock' = {l \in lock : ~(l.task = t /\ l.by = r)}

\* Mutants: active_key is not cleared; the WHERE forgets the status; the WHERE
\* names the wrong status.
MarkKeepsActiveKey(t) ==
  tasks' = IF tasks[t].status = "running"
             THEN [tasks EXCEPT ![t].status = "failed"]
             ELSE tasks

MarkAnyStatus(t) ==
  tasks' = [tasks EXCEPT ![t].status = "failed", ![t].activeKey = FALSE]

MarkPendingOnly(t) ==
  tasks' = IF tasks[t].status = "pending"
             THEN [tasks EXCEPT ![t].status = "failed", ![t].activeKey = FALSE]
             ELSE tasks

\* UPDATE ... SET failed WHERE task_id AND status = running
MarkSystemTaskLeaseExpired(t) ==
  tasks' = IF tasks[t].status = "running"
             THEN [tasks EXCEPT ![t].status = "failed", ![t].activeKey = FALSE]
             ELSE tasks

\* The WHERE clause of UpdateSystemTaskState and FinishSystemTask.
HoldsLease(r, t) ==
  /\ tasks[t].status = "running"
  /\ tasks[t].lockedBy = r
  /\ \E l \in lock : l.task = t /\ l.by = r /\ Live(l)

-----------------------------------------------------------------------------
(* Claiming: runSystemTaskClaimPass, ClaimSystemTask, acquireSystemTaskLock *)

\* The pending row with the smallest id, as a set of at most one.
FindEarliestPendingSystemTasks ==
  {t \in Tasks : /\ tasks[t].status = "pending"
                 /\ \A u \in Tasks : tasks[u].status = "pending" => t <= u}

\* The pass reads the pending row and its timestamps.
runSystemTaskClaimPass(r) ==
  /\ at[r] = "idle"
  /\ \E t \in FindEarliestPendingSystemTasks :
       /\ at' = [at EXCEPT ![r] = "insert"]
       /\ job' = [job EXCEPT ![r] = Job(t, None, clock, clock + TTL)]
  /\ UNCHANGED <<tasks, lock, exec, clock>>

NewLock(r) == [task |-> job[r].task, by |-> r, until |-> job[r].until]

\* INSERT of the lock row; any error sends the claim on to read the row.
AcquireInsert(r) ==
  /\ at[r] = "insert"
  /\ \/ /\ lock = {}
        /\ lock' = {NewLock(r)}
        /\ PassGoes(r, "setRunning")
     \/ /\ lock # {} \/ PassFaults
        /\ PassGoes(r, "existing")
        /\ UNCHANGED lock
  /\ UNCHANGED <<tasks, exec, clock>>

\* SELECT of the existing lock row: give up if it is gone or not expired.
AcquireExisting(r) ==
  /\ at[r] = "existing"
  /\ \/ \E l \in lock :
          /\ l.until < job[r].now
          /\ at' = [at EXCEPT ![r] = "takeover"]
          /\ job' = [job EXCEPT ![r].old = l.task]
     \/ /\ (\A l \in lock : l.until >= job[r].now) \/ PassFaults
        /\ PassEnds(r)
  /\ UNCHANGED <<tasks, lock, exec, clock>>

\* UPDATE of the lock row WHERE it is still expired.
AcquireTakeover(r) ==
  /\ at[r] = "takeover"
  /\ \/ /\ \E l \in lock : l.until < job[r].now
        /\ lock' = {NewLock(r)}
        /\ PassGoes(r, IF job[r].old # job[r].task THEN "markOld" ELSE "setRunning")
     \/ /\ (\A l \in lock : l.until >= job[r].now) \/ PassFaults
        /\ PassEnds(r)
        /\ UNCHANGED lock
  /\ UNCHANGED <<tasks, exec, clock>>

\* The task of the replaced lock is failed before the new one starts.
ClaimMarkOld(r) ==
  /\ at[r] = "markOld"
  /\ \/ /\ MarkSystemTaskLeaseExpired(job[r].old)
        /\ PassGoes(r, "setRunning")
     \/ /\ PassFaults
        /\ PassGoes(r, "release")
        /\ UNCHANGED tasks
  /\ UNCHANGED <<lock, exec, clock>>

\* Mutant: the UPDATE does not ask for a pending row.
ClaimSetAnyRunning(r) ==
  LET t == job[r].task IN
  /\ at[r] = "setRunning"
  /\ tasks' = [tasks EXCEPT ![t].status = "running", ![t].lockedBy = r]
  /\ exec' = [exec EXCEPT ![<<r, t>>] = "run"]
  /\ PassEnds(r)
  /\ UNCHANGED <<lock, clock>>

\* UPDATE ... SET running WHERE status = pending, then the row is read back
\* and the handler dispatched; 0 rows or an error release the lock.
ClaimSetRunning(r) ==
  LET t == job[r].task IN
  /\ at[r] = "setRunning"
  /\ \/ /\ tasks[t].status = "pending"
        /\ tasks' = [tasks EXCEPT ![t].status = "running", ![t].lockedBy = r]
        /\ PassEnds(r)
        /\ \/ exec' = [exec EXCEPT ![<<r, t>>] = "run"]
           \/ PassFaults /\ UNCHANGED exec
     \/ /\ tasks[t].status # "pending" \/ PassFaults
        /\ PassGoes(r, "release")
        /\ UNCHANGED <<tasks, exec>>
  /\ UNCHANGED <<lock, clock>>

\* The error of this release is dropped.
ClaimRelease(r) ==
  /\ at[r] = "release"
  /\ \/ ReleaseSystemTaskLock(job[r].task, r)
     \/ PassFaults /\ UNCHANGED lock
  /\ PassEnds(r)
  /\ UNCHANGED <<tasks, exec, clock>>

-----------------------------------------------------------------------------
(* Expiring stale locks: ExpireStaleSystemTaskLocks                        *)

\* Mutant: the lock is deleted without failing its task.
SweepFindSkipsMark(r) ==
  /\ at[r] = "idle"
  /\ \/ \E l \in lock :
          /\ l.until < clock
          /\ at' = [at EXCEPT ![r] = "sweepDelete"]
          /\ job' = [job EXCEPT ![r] = Job(l.task, l.by, clock, 0)]
     \/ UNCHANGED <<at, job>>
  /\ UNCHANGED <<tasks, lock, exec, clock>>

\* SELECT of the expired lock row.
SweepFind(r) ==
  /\ at[r] = "idle"
  /\ IF \E l \in lock : l.until < clock
       THEN \E l \in lock :
              /\ at' = [at EXCEPT ![r] = "sweepMark"]
              /\ job' = [job EXCEPT ![r] = Job(l.task, l.by, clock, 0)]
       ELSE UNCHANGED <<at, job>>
  /\ UNCHANGED <<tasks, lock, exec, clock>>

\* Its task is failed; an error ends the sweep.
SweepMark(r) ==
  /\ at[r] = "sweepMark"
  /\ \/ /\ MarkSystemTaskLeaseExpired(job[r].task)
        /\ PassGoes(r, "sweepDelete")
     \/ /\ PassFaults
        /\ PassEnds(r)
        /\ UNCHANGED tasks
  /\ UNCHANGED <<lock, exec, clock>>

\* The lock row is deleted if it is still the expired one that was read.
SweepDelete(r) ==
  /\ at[r] = "sweepDelete"
  /\ \/ lock' = {l \in lock : ~(/\ l.task = job[r].task
                                /\ l.by = job[r].by
                                /\ l.until < job[r].now)}
     \/ PassFaults /\ UNCHANGED lock
  /\ PassEnds(r)
  /\ UNCHANGED <<tasks, exec, clock>>

-----------------------------------------------------------------------------
(* Executing: runWithLeaseHeartbeat and the handler's database calls       *)

\* One tick of the heartbeat: renew the lease, or cancel the handler.
RenewSystemTaskLock(r, t) ==
  /\ exec[<<r, t>>] = "run"
  /\ \/ \E l \in lock :
          /\ l.task = t /\ l.by = r /\ Live(l)
          /\ lock' = {[l EXCEPT !.until = clock + TTL]}
          /\ UNCHANGED exec
     \/ /\ exec' = [exec EXCEPT ![<<r, t>>] = "cancelled"]
        /\ UNCHANGED lock
  /\ UNCHANGED <<tasks, at, job, clock>>

\* A progress write that loses the lease (or fails) ends the handler.  The
\* progress itself is not kept in this model.
UpdateSystemTaskState(r, t) ==
  /\ exec[<<r, t>>] \in {"run", "cancelled"}
  /\ \/ HoldsLease(r, t) /\ UNCHANGED exec
     \/ exec' = [exec EXCEPT ![<<r, t>>] = "ended"]
  /\ UNCHANGED <<tasks, lock, at, job, clock>>

\* The UPDATE of FinishSystemTask: the handler has done its work.
FinishSystemTask(r, t) ==
  /\ exec[<<r, t>>] \in {"run", "cancelled"}
  /\ IF HoldsLease(r, t)
       THEN /\ \E s \in TerminalStatus :
                 tasks' = [tasks EXCEPT ![t].status = s, ![t].activeKey = FALSE]
            /\ exec' = [exec EXCEPT ![<<r, t>>] = "release"]
       ELSE /\ exec' = [exec EXCEPT ![<<r, t>>] = "ended"]
            /\ UNCHANGED tasks
  /\ UNCHANGED <<lock, at, job, clock>>

\* Its release of the lock, which may fail.
FinishRelease(r, t) ==
  /\ exec[<<r, t>>] = "release"
  /\ \/ ReleaseSystemTaskLock(t, r)
     \/ UNCHANGED lock
  /\ exec' = [exec EXCEPT ![<<r, t>>] = "ended"]
  /\ UNCHANGED <<tasks, at, job, clock>>

-----------------------------------------------------------------------------
(* The environment                                                         *)

InClaim(r) == at[r] \in {"insert", "existing", "takeover", "markOld", "setRunning", "release"}

\* Time passes.  Without pass faults a claim never outlives its own lease.
Tick ==
  /\ clock < MaxClock
  /\ PassFaults \/ \A r \in Runners : InClaim(r) => clock < job[r].until
  /\ clock' = clock + 1
  /\ UNCHANGED <<tasks, lock, at, job, exec>>

\* The process dies with all its goroutines; some other runner survives.
Crash(r) ==
  /\ at[r] # "dead"
  /\ InClaim(r) => PassFaults
  /\ \E s \in Runners \ {r} : at[s] # "dead"
  /\ at' = [at EXCEPT ![r] = "dead"]
  /\ job' = [job EXCEPT ![r] = NoJob]
  /\ exec' = [e \in DOMAIN exec |->
                IF e[1] = r /\ exec[e] # "none" THEN "ended" ELSE exec[e]]
  /\ UNCHANGED <<tasks, lock, clock>>

-----------------------------------------------------------------------------
ClaimStep(r) ==
  \/ runSystemTaskClaimPass(r)
  \/ AcquireInsert(r)
  \/ AcquireExisting(r)
  \/ AcquireTakeover(r)
  \/ ClaimMarkOld(r)
  \/ ClaimSetRunning(r)
  \/ ClaimRelease(r)

ExecStep(r, t) ==
  \/ RenewSystemTaskLock(r, t)
  \/ UpdateSystemTaskState(r, t)
  \/ FinishSystemTask(r, t)
  \/ FinishRelease(r, t)

Next ==
  \/ EnqueueSystemTask
  \/ \E r \in Runners : \/ runSystemTaskScheduler(r)
                        \/ ClaimStep(r)
                        \/ SweepFind(r)
                        \/ SweepMark(r)
                        \/ SweepDelete(r)
                        \/ Crash(r)
                        \/ \E t \in Tasks : ExecStep(r, t)
  \/ Tick

Spec == Init /\ [][Next]_vars

\* A live runner keeps passing (the ticker of StartSystemTaskRunner), every
\* statement it starts returns, and time advances.  Nothing makes a handler
\* finish or a heartbeat succeed.
SweepBegins(r) == SweepFind(r) /\ at'[r] = "sweepMark"
SweepMarks(r) == SweepMark(r) /\ at'[r] = "sweepDelete"

Fairness ==
  /\ WF_vars(Tick)
  /\ \A r \in Runners :
       /\ WF_vars(ClaimStep(r))
       /\ SF_vars(SweepBegins(r))
       /\ SF_vars(SweepMarks(r))
       /\ WF_vars(SweepMark(r) \/ SweepDelete(r))

FairSpec == Spec /\ Fairness

-----------------------------------------------------------------------------
(* Properties                                                              *)

\* Every variable stays in its type; at most one lock row per type.
TypeOK ==
  /\ tasks \in [Tasks -> TaskRow]
  /\ lock \in SUBSET LockRow
  /\ \A l, m \in lock : l = m
  /\ at \in [Runners -> PassAt]
  /\ job \in [Runners -> JobState]
  /\ \A r \in Runners : at[r] \notin {"idle", "dead"} => job[r].task \in Tasks
  /\ exec \in [Runners \X Tasks -> ExecAt]
  /\ clock \in Nat

\* "the per-type lock guarantees only one runner executes the task"
\* (runSystemTaskScheduler): however claims, takeovers, stalls, crashes and
\* sweeps interleave, no task is ever dispatched to two runners.
OneExecutor ==
  \A t \in Tasks : \A r, s \in Runners :
    exec[<<r, t>>] # "none" /\ exec[<<s, t>>] # "none" => r = s

\* A type is never blocked by a finished task and never has two active tasks:
\* every way a row ends (finish, sweep, takeover) frees its active_key.
ActiveKeyTracksStatus ==
  /\ \A t \in Tasks : tasks[t].activeKey <=> tasks[t].status \in ActiveStatus
  /\ \A t, u \in Tasks : tasks[t].activeKey /\ tasks[u].activeKey => t = u

\* Every running row is named, with its runner, by the lock row, so that the
\* stale-lock sweep can find it once its runner is gone.
RunningIsLeased ==
  \A t \in Tasks : tasks[t].status = "running" =>
    \E l \in lock : l.task = t /\ l.by = tasks[t].lockedBy

\* A late sweep, takeover or finish never rewrites a finished task.
TerminalIsFinal ==
  [][\A t \in Tasks : tasks[t].status \in TerminalStatus => tasks'[t] = tasks[t]]_vars

\* A live lock row leaves the table only by the hand of the runner it names
\* (its finish, or its claim that lost the row): a stale sweep, a stale
\* takeover or a late release by someone else never takes it away.
LiveLockKept ==
  [][\A l \in lock :
       \/ ~Live(l)
       \/ \E m \in lock' : m.task = l.task /\ m.by = l.by
       \/ exec[<<l.by, l.task>>] = "release"
       \/ at[l.by] = "release" /\ job[l.by].task = l.task]_vars

\* No live goroutine will renew the lease of t.
Unattended(t) == \A r \in Runners : exec[<<r, t>>] # "run"

\* "mark expired leases failed" (systemTaskRunnerIdleInterval): a running task
\* that nobody executes any more eventually leaves the running state.  Leases
\* that end after the clock's bound are left out.
LostLeaseEnds ==
  \A t \in Tasks :
    /\ tasks[t].status = "running"
    /\ Unattended(t)
    /\ \A l \in lock : l.until < MaxClock
    ~> tasks[t].status # "running"
=============================================================================
