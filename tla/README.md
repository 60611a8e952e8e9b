# Token Boat in TLA+

This directory holds TLA+ models of the parts of Token Boat whose correctness
depends on interleavings, failures and ordering, the TLC configurations that
check them on small instances, and TLAPS proofs of their main properties.
`PROJECT.json` lists the components, the runs, the correspondence between
definitions and source lines (`map`), the hazards and the theorems.

## 1. The system

Token Boat is a gateway for AI models. Several instances of one Go program
(`main.go`) share an SQL database and, optionally, Redis. Clients call the relay
endpoints with an API token; the gateway reserves quota, picks an upstream
channel, forwards the request, measures usage and settles the bill. Around that
stand user accounts and sessions, subscriptions, payments, price books, periodic
maintenance, and three browser applications served from the same origin: the
dashboard (`web/`), the public site and the user console (`frontend/apps/`).

Nothing coordinates the instances but single SQL statements, short transactions
and a few Redis scripts. Almost every multi-step operation is therefore a
sequence of atomic steps with room for other requests, other instances, a failing
statement or a crash in between, and that is what the modules model: **one SQL
statement, transaction or Redis script is one action; anything may happen between
two actions.** In the browser an action is one JavaScript task: an event handler,
a timer, the continuation of an `await`, or a render.

### Inventory

| Component | State | Operations | What is hard | Correct when |
|---|---|---|---|---|
| System task runner (`model/system_task.go`, `service/system_task.go`) | `system_tasks` rows with status and a nullable unique `active_key`; one `system_task_locks` row per type with a lease | enqueue, schedule, claim (insert/take over the lock, set running), heartbeat, update, finish, release, sweep expired locks | several instances, crashes, leases that run out while a step is under way | one executor per task, finished rows final, a live lease respected, an abandoned task eventually failed |
| Billing session (`service/billing_session.go`, `funding_source.go`, `billing.go`, `quota.go`) | per request: source, pre-charge, amounts taken, settled/refunded flags | open with a preference and fallbacks, pre-charge token then funding, roll back, settle, refund with retry | stale cached quotas, two accounts charged by two statements, each failing by itself, refunds from several places | nothing overdrawn, charged and refunded at most once, token and funding in step |
| Quota rows (`model/user.go`, `token.go`, `subscription.go`) | `users.quota`, `tokens.remain_quota`, `user_subscriptions.amount_used`, pre-consume records | guarded decrement, increment, pre-consume, delta, reset, expiry | resets between charge and refund | as above |
| Pricing audit (`service/pricingruntime/audit.go`, `service/text_quota.go`) | `request_pricing_snapshots`: reserved, pending, settled, refunded | create, sync, settle, mark pending/refunded, reconcile stale, classify, purge | written beside, not with, the money; stale sweeps race live requests | the final status agrees with what was charged |
| Asynchronous tasks (`controller/relay.go`, `model/task.go`, `service/task_billing.go`, `task_polling.go`) | `tasks` row: status, quota, settlement state | submit, poll, time out, refund, settle, retry, manual refund | pollers on all instances, operators, late upstream answers | a task is refunded or settled once, and the amounts agree |
| Circuit breaker (`service/pricingruntime/circuit*.go`) | per channel and model: failures, open until, probe | acquire, success, failure, reset, remove | half-open probing under concurrency, late results | one probe at a time, an open channel eventually retried |
| Channel selection (`service/channel_select.go`, `model/channel_cache.go`, `ability.go`, `channel_affinity.go`) | caches of channels by group, model, priority | choose, retry over priorities and groups | cache refresh under readers | every eligible channel is tried in priority order |
| Login sessions, auth cache (`model/user_session.go`, `user_auth_cache.go`, `user_cache.go`, `service/auth_session.go`) | session rows with version and rotated refresh tokens; Redis mirrors with fences | create, validate, refresh, rotate, revoke, advance | database and cache are written separately | a revocation is not undone by a late cache write |
| Top-ups and callbacks (`model/topup.go`, `payment_callback_event.go`) | orders, callback events | create, complete, expire | callbacks repeated or late | an order is credited once |
| Subscriptions' purchase, redemption, check-in, rate limiters, price books, logs and reports | rows, counters | CRUD and single transactions | little | |
| Browser sessions (`web/src/lib/auth-session*.ts`, `http-client.ts`, `site/.../viewer-session.ts`, `console/.../session-context.tsx`) | in-memory session per page; a shared refresh cookie, browser lock and broadcast channel | bootstrap, refresh, retry after 401, sign in, sign out, events between tabs | single-use tokens shared by pages, answers that come after a sign-in or sign-out, missed events | pages do not revoke their own session, no late answer brings back an old one, a dead session is left |
| Playground (`web/src/features/playground`) | messages, queued updates, pending chunks, generations, the stored conversation | send, regenerate, edit, delete, clear, stop, stream, poll, save, load | late answers, awaits, timers and batched renders | chunks go where they belong, nothing stays pending, generating ends |
| Relay adapters, rest of the web applications, desktop, deployment | – | I/O, user interface | – | – |

Interactions. A relay request opens a *billing session* (which charges *quota
rows*), writes a *pricing snapshot*, acquires a channel through *selection* and
the *circuit breaker*, and settles session and snapshot at the end; a media
request also creates a *task* row whose money is later moved by *polling*, which
runs as a handler of the *system task runner*, as do the sweeps of the pricing
audit, of expired orders and of subscription resets. A *browser page* keeps its
access token alive by refreshing its *login session*; the *playground* takes its
request headers from there.

## 2. Modules

| Module | Models | Checked by | Proved in |
|---|---|---|---|
| `SystemTask` | the system task runner, for one task type | `MCSystemTask*.cfg` | `SystemTaskProofs` |
| `BillingSession` | billing sessions of one user over its wallet, one token, one subscription | `MCBilling*.cfg` | `BillingSessionProofs` |
| `PricingAudit` | the pricing snapshots of these sessions, with sweeps and administrator; extends `BillingSession` | `MCPricing*.cfg` | `PricingAuditProofs` |
| `TaskBilling` | the row and the money of one asynchronous task | `MCTaskBilling.cfg` | `TaskBillingProofs` |
| `ChannelCircuit` | the circuit breaker of one channel and model, in Redis and in memory | `MCChannelCircuit.cfg` | `ChannelCircuitProofs` |
| `UserSession` | one login session: row, Redis entry, and the requests that use it | `MCUserSession.cfg` | `UserSessionProofs` |
| `AuthClient` | the pages of one browser and the sessions they share | `MCAuth*.cfg` | `AuthClientProofs` |
| `Playground` | the chat playground of the dashboard | `MCPlayground.cfg` | `PlaygroundProofs` |
| `Ledger` | the abstract specification of one balance charged by sessions | implemented by `BillingSession` | `BillingSessionProofs` |

Operators whose comment begins with *Mutant:* are not part of the models. Each is
a plausible mistake in the definition that follows it, and is used to see that a
property notices the mistake.

### SystemTask

State: `tasks` is `system_tasks` (status, `locked_by`, whether `active_key` is
set), `lock` the row of `system_task_locks` for the type, `clock` the wall clock
all instances read. Each runner has a pass (`at`, `job`: the local variables of
the statement sequence it is in) and, for each task, the goroutine executing it
(`exec`).

Actions are the statements of `ClaimSystemTask`/`acquireSystemTaskLock`
(`AcquireInsert`, `AcquireExisting`, `AcquireTakeover`, `ClaimMarkOld`,
`ClaimSetRunning`, `ClaimRelease`), of `ExpireStaleSystemTaskLocks` (`SweepFind`,
`SweepMark`, `SweepDelete`), and of the executing goroutine
(`RenewSystemTaskLock`, `UpdateSystemTaskState`, `FinishSystemTask`,
`FinishRelease`), plus enqueueing, scheduling, time and `Crash`.

Abstractions: one type (rows and locks of two types never meet); the two SELECTs
of the claim pass are one step; whether a handler's interval has elapsed is left
open; payloads are left out; a statement that fails has no effect; clocks agree.
A restarted process draws a new runner id, so a crash ends a runner for good.

`PassFaults` chooses between two environments. TRUE: a claim or sweep may stall
past the lease it took, die half-way, or have a statement refused. FALSE: passes
complete within the lease and only executing goroutines are disturbed.

### BillingSession and Ledger

State: the shared rows (`wallet`, `token`/`unlimited`, `used`/`subActive`,
`subRecord`) and, for each request, where it stands (`at`), the fields of its
`BillingSession` (`source`, `pre`, `consumed`, `tokenConsumed`, `flags`), the cost
passed to `Settle` (`arg`), and the errors the code only logs (`errs`, `leak`).

Actions follow `NewBillingSession` (preference, trust bypass, fallbacks),
`preConsume` (`PreConsumeTokenQuota`, `WalletPreConsume`,
`SubscriptionPreConsume`, `RollbackToken`), the audit synchronisation in
`PreConsumeBilling`, `Settle` (`Settle`, `SettleFunding`, `SettleToken`),
`RefundWithResult` (`WalletRefund`, `SubscriptionRefund` with its retries,
`RefundToken`), and the ends of the handlers: `DeferredRefund` in both,
`AcceptedUnrecorded` and `RetryTask` in `RelayTask`. The environment resets and
expires the subscription and kills requests. The handlers call `Settle` once and
last, so that no refund follows it; an upstream attempt that is repeated with the
session still open changes nothing here.

`RetryTimes` is the number of further attempts of a task submission
(`common.RetryTimes`). A refusal may be retried from the start, or, if
`PreConsumeBilling` refused after it had set `RelayInfo.Billing`, with that
session.

Abstractions: the quotas read from Redis (`GetUserQuota`, the token in the
context) may be any value of `CachedQuotas`, which covers every staleness; a
user's subscriptions are one; a failing statement has no effect, except that a
subscription refund may commit and report an error (its retries are there for
that). `Reserve` has no caller outside tests and is left out.

`Ledger` says what the money side promises, without phases: an account may hold
an amount once and be concluded once at any amount, and the balance changes by
exactly that and never below zero. `ImplementsLedger` maps the wallet to it:
`taken` is what a request has taken from the wallet by its own books, `final`
whether it was settled or refunded.

### PricingAudit

`PricingAudit` extends `BillingSession` with the row each request has in
`request_pricing_snapshots` (`snap`) and the audit statement the request executes
next (`todo`). A step of the session (`Session`) is followed by the statements the
handlers issue after it (`AuditFollows`): after a denial, after a refund inside
`PreConsumeBilling`, after the deferred refund, after settlement. The
synchronisation step of `BillingSession`, whose outcome is open there, becomes the
guarded UPDATE of `SyncRequestPricingPreConsume`. A process that dies (`Die`)
executes nothing more. The reconciliation task, the classification, the purge and
the administrator's confirmation act on any row at any time; their age conditions
are left open because a request may outlive them (15 minutes), except for the
purge, which comes when the request has ended.

Abstractions: of the row, the status, the captured amounts, the settled quota and
the resolution are kept; a price that cannot be evaluated is a failure of the
settlement; the two statements that mark a row pending one after the other
(`PreConsumeBilling` and its caller) are one. Free models, which have no session,
provider cost reports, Midjourney and the later refunds of tasks are left out; so
is the archive of legacy rows, which no new row can enter.

### TaskBilling

State: `row` is the task's row (status, quota, whether its settlement is open,
whether it was refunded), `sub` how far `RelayTask` has come, `charged` what the
user has paid, and `work`, per worker, the copy of the row it works on and its
next step. A worker is a polling pass, one of its sweeps (timed out, failed but
not refunded, settlement pending), an administrator's refund or a user's query.

`UpdateWithStatus` writes the whole copy back, guarded by the status alone;
`TaskBulkUpdateByID` is not guarded at all; `ApplyTaskRefund` and
`ApplyTaskSettlement` are transactions guarded by the copy's quota. Between any two
steps of a worker the others act; a worker may stop anywhere (`Stop`).

The code admits seven races in which the amounts go apart (section 3). `race`
names the first one met and the behaviour is followed no further, so that the
properties say that *nothing else* goes wrong; each race is detected in the action
that completes it.

Abstractions: one task with one price; queued, submitted and in progress are one
status, cancelled and expired another; the wallet, token and subscription of the
transaction are one amount. Tasks older than the refund cutoff, provisional
OpenRouter rows and the sweep over unfinished billing audits are left out.

### ChannelCircuit

State: for Redis and for every instance's memory a circuit (consecutive failures,
whether it was opened, the ticks left to the end of the cool-down and of the
probe), the requests under way, the administrator's switch as each instance sees
it, and `calm`, from which on Redis and the provider work. An operation runs the
script in Redis or, if that reports an error, decides from memory, with the script
executed or not. `since` is history.

Actions: `TryAcquireChannel`, `SpecificChannel` (a request that names its channel
passes without asking), the results (`RecordChannelSuccess`,
`RecordChannelFailure` with a failure or a rate limit, `ClientError`), reset,
removal, the switch, a restart and time. Operations read the clock before they
take the mutex or run the script; `Lag` bounds how old that reading is.

### UserSession

State: the session's row, its entry in Redis with the ticks it has left, and for
each request in flight the step it has reached, the snapshot it holds and what is
left of its deadline. Actions follow `GetUserSessionCached` (cache, database, write,
confirmation), `RefreshLoginSession` and `RotateUserSessionRefresh`,
`RevokeUserSession` (candidate, fence, transaction, tombstone),
`AdvanceUserSessionAuthVersion`, and `createLoginSession` (count, insert). A Redis
command may fail before or after it took effect.

Abstractions: secrets are places in one chain; the user's authentication version is
read as valid or not; row locks are left out, as on SQLite, which the code supports.

### AuthClient

State: what each page keeps in memory (session, bootstrap state, rate limit), the
one refresh it may have under way, an API call, a sign-in, a security change or a
sign-out that waits for its answer, the shared cookie, the queue of the browser lock
`new-api:auth-refresh`, the undelivered events, and the server's rows. A refresh goes
through *queued* (for the lock), *sent* (with the cookie of that moment) and
*answered* (with the cookie the answer will set); the console has no lock and starts
at *sent*. A page that is loaded anew, or whose request fails, frees the lock but not
the server: a request already sent is served later (`adrift`, `ServeAdrift`) and its
answer is heard by nobody.

Actions: `Bootstrap`, `Unauthorized` (any API call that meets a 401, also one of a
page without a session), `ViewerRefresh`, `SessionQuery`, `Acquire`, `Serve`, one
action for each way `createRefreshRunner` and its counterparts end (`Supersede`,
`AcceptBundle`, `Mismatch`, `Anonymous`, `Unavailable`, `RateLimited`), `Repeated`
(the repeated call), sign-in (`Login` at the server, `SignedIn` when its answer
arrives), the rotation of the access token after a security change (`SecurityChange`,
`Rotated`), the steps of a sign-out, delivery and loss of events, a user's reload, the
end of the grace period and a revocation from elsewhere. A call that fails because the
session was given up goes to the sign-in page, which is a reload, unless it is shown
already. `lost` and `overlapped` are history.

A sign-in is not limited to pages without a session: the forms redirect such a page
away when they are opened, but the routes of the OAuth callbacks apply the new session
over the one the root route has just restored from the cookie.

Abstractions: a token is known by its age (current, previous, older); access tokens
expire at any time; the 409 `AUTH_REFRESH_RACE` is absent, because a replayed
previous token yields the current one. The console's own channel between its tabs
(`session-sync.ts`) is left out: the instances have one console page.

### Playground

State: the rendered messages and the updates React has not rendered yet, the two
flags behind `isGenerating`, the requests with the generations they belong to and the
text each stream has sent, the event source, the text waiting for the flush timer, and
the stored conversation with its debounced save. A message's content is a sequence of
characters, each with the request it came from, so that a misplaced chunk is visible
and a lost or doubled one too.

A chunk holds the next piece of the text or, as some providers send it, all of the
text so far. The code does not know which: a chunk that begins with all the pending
text replaces it (`mergePendingStreamChunk`), and what is flushed loses a beginning
that equals the whole content (`getAppendableChunk`).

Actions: the user's operations (`SendMessage`, `RegenerateMessage`, `EditMessage`,
`SaveEdit`, `SubmitEdit`, `DeleteMessage`, `ClearMessages`, `StopGeneration`), the
network (`Headers`, `HeadersFail`, `StreamChunk`, `StreamDone`, `StreamError`,
`StreamSilent`, `Answer`, `AnswerFails`, `VideoPending`), the timers (`FlushTimer`,
`PollVideo`, `Save`), `Render`, and `Leave`/`Close` followed by opening the page again
(`loadMessages`). User events are rendered before the next event, network events
may pile up; React may evaluate the first updater at once. A video task may be polled
any number of times.

Abstractions: a piece is one character; images, videos, whole answers and what a user
types are one character each, error texts are not kept. Reasoning, which is streamed
beside the content and merged in the same way, and `<think>` sections inside the
content are left out; so are the shortening of long or repetitive texts on load, the
trimming of large conversations, and two tabs writing one storage. The stored
conversation is loaded before the first prompt.

## 3. Runs

| Run | Instance | Shows |
|---|---|---|
| `system_task_faults` | 2 runners, 2 tasks, lease of 1 tick, 5 clock values, all faults | `OneExecutor`, `ActiveKeyTracksStatus`, `TerminalIsFinal`, `LiveLockKept` hold whatever stalls or dies |
| `system_task_lease` | the same, passes complete in time, fair | `RunningIsLeased` and `LostLeaseEnds` (liveness) |
| `billing` | 2 requests (API, playground, tasks) on a wallet, a token and a subscription of 3, costs 0..2, trust bypass, stale caches, one reset, expiry, fallback between the sources (3,477,538 states) | `NoOverdraft`, `TokenBooks`, `FailedPaysNothing`, `RelayedIsPaid`, `SubscriptionBooks`, `TokenFollowsFunding`, `ImplementsLedger` |
| `billing_task_retry` | 1 task with one retry | **violation** of `RelayedIsPaid`: the retry is relayed with a refunded session |
| `audit` | 1 request: synchronous, trusted or not, estimate 0 or 1, or a task with one retry; all sweeps, fair reconciliation | `SettledAgrees`, `RefundedAgrees`, `ClosedStays`, and `ChargeSurfaces` (liveness) |
| `audit_no_charge` | 1 synchronous request | **violation** of `NoChargeAgrees`: a request that reserved nothing is closed as never charged, and is charged |
| `task_billing` | 1 task charged 2 and priced 1, 2 workers | `Books`, `DeliveredIsPaid`, and `EventuallyRefunded` (liveness) |
| `circuit` | 2 requests, 1 instance with Redis, threshold 2, cool-downs 3 and 2, probe 3, lag 1 | `ProbesSpaced`, and `Recovers` (liveness) |
| `user_session` | 2 requests in flight, cache lifetime 2, session lifetime 3, 2 versions, 2 rotations, limit 1 | `StaleEndsInTime`, `NotReactivated`, `NotServedLate`, `NewestSecretStays` |
| `auth` | 2 dashboards, the site, 1 console, 2 sessions, 1 fault, 3 acts of users (574,305 states) | `NotForcedOut`, `NeverSwitched` |
| `auth_progress` | 1 dashboard, the site, 1 console, 2 sessions, 1 fault, 3 acts (205,764 states) | `RefreshEnds`, `DeadSessionLeft`, `ConsoleLeavesDeadSession` (liveness) |
| `playground` | 2 requests of any kind; the first stream has up to 3 chunks over 2 characters, pieces or snapshots; a second request follows texts of at most one piece (777,199 states) | `ChunksBelong`, `StreamsAreWanted`, `NothingStuck`, `AllChunksShown`, and `GenerationEnds` (liveness) |

The type invariants, and `OpensInTime` and `StaysBlocked` of `ChannelCircuit`, are
theorems; only those of `AuthClient` and `Playground` are checked by a run as well.

Bounds. Two runners and two tasks are what every race needs: one that lost its
lease and one that takes over, the old task and its successor; five clock values
let a lease of one tick be taken, renewed, expire and be taken again. Two requests
are what every billing race needs, since rows are shared only pairwise; the
balances are small enough that two requests cannot both be paid, and the costs
allow a settlement below, at and above the pre-charge. The theorems below remove
these bounds where they apply. The audit runs have one request: the rows of two
requests share nothing, and what another request does to the accounts can only
make a statement fail, which any statement may do anyway.

A race on a task row is between two workers and the submission, which `task_billing`
has; a price below the pre-charge makes settlement and refund differ. The
circuit's delays are the smallest that differ from one another and exceed the lag;
a second request is what reports late, or asks while a probe is out. Two requests
in flight are the stalled writer and the one that overtakes it in `user_session`,
and a cache lifetime of two lets an entry be partly used up when it is written. The
browser of `auth` has two pages of the kind that tell each other of sign-ins and one
of each other kind; three acts are a sign-in, a second one elsewhere and a call, and
one fault is an abandoned request, the cause of every reuse. `auth_progress` has one page
of each kind; a sign-in, a revocation and the call that meets the 401 are its three
acts. Two requests are what the playground needs for an old and a new one. Three chunks
over two characters let chunks fall on both sides of a flush and of a render, repeat a
piece and come back to it; once a second request is started the texts are as short as
a late chunk needs to be seen (`History`), and what a stream of snapshots differs in
from one of pieces shows in the first request (`Later`).

Deadlock is checked in the `system_task_*` runs. Elsewhere the system may stop: a
request, a task or a session that has ended does nothing more, the acts of users are
bounded, and a behaviour of `TaskBilling` ends at its race.

Fairness (`system_task_*` with `FairSpec`). Time advances; a claim under way
continues; a live runner keeps sweeping (the ticker in `StartSystemTaskRunner`),
and strong fairness on finding and marking an expired lock says that a statement
which is tried again and again does not fail forever. Nothing is assumed about
handlers finishing or heartbeats succeeding. `FairAuditSpec` assumes only that the
reconciliation task, scheduled every five minutes, reaches every reserved row.

`TaskBilling`: workers end (`Stop` is also their timeout), and while a failed task
holds a quota, polling passes are scheduled (`HasTaskPollingWork`), begin with the
sweep and repeat its refund, which does not fail forever. `ChannelCircuit`: time
passes, requests keep asking for the channel, and after `calm` not every one of them
ends in a client error; an actual success is what the fairness asks for, since a
channel without successes has no reason to close. `AuthClient`: the browser grants a
free lock and delivers answers, the server answers, an event that was posted arrives
unless it is missed, and the console's timer runs while it has a session; nothing is
assumed of users. `Playground`: React renders and every request is answered somehow,
be it with an error, and a video task that is pending is polled again; that the task is finished one day is not
assumed of the code but is the hypothesis of `GenerationEnds`.

### Disagreements between code, comments and documents

Shown by a run:

* `relay/relay_task.go:298` says a retry skips the pre-charge because the session
  exists already. `PreConsumeBilling` sets the session before it synchronises the
  audit and refunds it when that fails; the retry (status 500, the skip-retry
  option lost in `TaskErrorFromAPIError`) is relayed with nothing held
  (`billing_task_retry`). Without retries `RelayedIsPaid` holds.
* `audit.go:600` says captured zero reservations are known to have charged
  nothing. A request that is trusted, or whose estimate is zero, reserves nothing and
  is charged when it settles; if its snapshot is pending then, because the request
  took longer than the reconciliation waits, it is closed as never charged
  (`audit_no_charge`).

Met while modelling, and left out of the properties by the instance or by the
exception a definition states:

* `service/system_task.go:306` says a handler "stays alive as long as the
  heartbeat succeeds", and `:18` that the poll marks expired leases failed. A sweep
  marks tasks from a list read earlier and by id alone (`model/system_task.go:371`),
  also one whose lease is live again; a claim that stalls past its own lease sets the
  row running after its lock was swept (`:253`), and no sweep finds it. Both need a
  pass that stalls for longer than the lease (60 s); `system_task_lease` has passes
  that complete in time, and with `PassFaults = TRUE` TLC finds `RunningIsLeased`
  violated.
* `controller/relay.go:844` calls *uncharged* a task whose snapshot is marked
  refunded without a refund; the branch is also taken by a task the provider
  accepted, whose pre-charge is kept. `RefundedAgrees` excludes it, and the second
  call named next (`ClosedUnpaid`).
* `billing_session.go:87` says `RefundWithResult` reports whether all steps completed;
  a second call reports success after a failed first one, and for tasks there is a
  second call.
* A retried task that settles on a session refunded by `PreConsumeBilling` (the finding
  above) records in its snapshot a cost of which the pre-charge was given back;
  `SettledAgrees` excludes it.
* The races of `TaskBilling`, with the name `race` gives them. *stale*: a copy is
  written back after a refund or settlement and restores the quota it had read.
  *early*: a refund or settlement of a row whose submission has not recorded its
  charge yet. *half*: `SettleBilling` fails at the token with the funding adjusted,
  and the row records the old amount. *lost*: the settled amount is never recorded
  in the row. *recharged*: the sweep over pending settlements looks neither
  at the status nor at the refund mark of a task and charges a refunded one its price,
  although the dialog before a manual refund says it cannot be undone (`en.json:5764`).
  *bulk*: `TaskBulkUpdateByID` marks a delivered task failed; the warning above it
  (`model/task.go:1087`) forbids it in billing flows. *query*: a user's query writes an
  answer over a final status. A refund that fails for a cancelled or expired task is repeated by nobody, so
  `EventuallyRefunded` is about failed ones.
* A success of a request admitted earlier closes an open circuit, and a late rate
  limit replaces the end of a cool-down by an earlier one. Hence `ProbesSpaced`
  promises the shortest of the three delays only.
* `docs/authentication.md:69` says the frontend serialises the refreshes of one
  browser with Web Locks, and `:71` that a client clears its session when the cookie
  names another. The console refreshes without the lock, so that two refreshes of one
  token may overlap and the session be revoked for reuse; and it keeps its session
  after a 409. `NotForcedOut` and `ConsoleLeavesDeadSession` state these exceptions.
* A sign-in by an OAuth callback replaces the session a dashboard shows by the new one
  directly. `NeverSwitched` allows the answer to a page's own login and nothing else.
* An API call that meets a 401 while a refresh of its page is superseded by a sign-in or a
  rotation fails without a word about the session; a dead session then stays shown until
  the next call. `DeadSessionLeft` asks for a refresh that is current.
* `RevokeUserSession` writes its tombstone with the version of the candidate it
  read; if the session was advanced meanwhile the tombstone is refused and the
  entry ends by its lifetime. A transaction that fails after the fence leaves the
  session denied for up to one cache lifetime. Both are within `StaleEndsInTime`
  and `NotServedLate`, which speak of the lifetime.
* In the playground, an edit saved over updates that were not rendered yet loses
  them and may leave a message streaming (`overwritten`); a stream that closes with
  status 200 and without `[DONE]` leaves the page generating until Stop, and so does a
  video task that is never finished; Stop drops the chunks that wait for the flush timer.
* A stream of pieces loses text that repeats: the pieces "1" and "1" are shown as "1",
  when the second begins with all the pending text or with all the content shown.
  Whether it does depends on the flush timer. `AllChunksShown` asks for a text in which
  no two neighbouring pieces are equal and which does not begin with a passage and the
  same passage again; under it nothing is lost wherever the timers fall, and a stream of
  snapshots loses nothing at all.

## 4. Proofs

Proved by TLAPS for every value of the constants that satisfies the modules'
assumptions. Every invariant and every action property that a passing run checks
is a theorem (the violation runs check what the code does not keep). The
assumptions are weak: positive delays and limits, distinct kinds of pages, and a finite set of requests (`RequestsAssumption`: a process has only
finitely many in flight, and the books are sums over them). Where a theorem
has a further hypothesis it is named below.

`SystemTaskProofs`
* `TypeCorrect`: `Spec => []TypeOK`.
* `OneExecutorHolds`: `Spec => []OneExecutor`. It is not inductive: a runner
  about to execute a task must be known to be the one that moved its row out of
  *pending*. The strengthening says that a task nobody has moved has no executor
  and that the row names the executor's runner.
* `LiveLockKeptHolds`: an action property from the type invariant and the facts
  that a sweep or takeover deletes only by a WHERE clause on the lease.
* `TerminalIsFinalHolds` and `ActiveKeyHolds`: both from one lemma, `RowStep`,
  which says which moves of a row the statements' WHERE clauses leave.
* `RunningIsLeasedHolds`, if `PassFaults = FALSE` (with the faults it is false,
  see the disagreements above). `LeaseInv` follows the lock row through a claim: a
  claim that wrote it still has it, a lock row belongs to such a claim or its task
  has been taken, what a waiting claim may replace protects no running row, and a
  sweep or finish deletes only the lock of a task that is not running.

`BillingSessionProofs`
* `TypeCorrect`: in particular, what a session has taken stays a natural number.
* `NoOverdraftHolds`: from the guards of the UPDATEs alone; it does not depend on
  what the caches say.
* `LedgerImplemented`: `Spec => ImplementsLedger`. The inductive invariant
  `SessionInv` says which flags and amounts go with each phase (before the
  funding was charged nothing is taken; a refunding session is not settled; a
  session between the two settlement statements has its funding settled and
  nothing else), and it makes every step of a session a `Hold`, a `Conclude` or a
  stutter of the ledger.
* `RelayedIsPaidHolds`, `FailedPaysNothingHolds`, `TokenFollowsFundingHolds`. They
  need two more invariants. `HeldInv`: the session's token holds the same
  pre-charge as its funding, and a session closed as settled was not refunded and
  has either its cost taken or nothing to adjust. `RefundInv`: which errors can
  have been logged in each phase, and that a session that failed was refunded, or
  took nothing, or has the failed refund among its errors.
* `TokenBooksHolds`, `SubscriptionBooksHolds`: the token has lost the sum of what
  the requests' own books say they took from it, and the usage of the subscription
  never exceeds that sum and equals it until the first reset. A step changes the books of one request; the
  lemma that a sum then changes by the same amount is proved from the recursion
  equation of the sum by taking a smallest set of requests for which it fails.

  All but `TypeCorrect` and `NoOverdraftHolds` assume `RetryTimes = 0`: with
  retries a session that was refunded can be settled, which is the finding above.

`PricingAuditProofs`
* `SessionsImplemented`: `AuditSpec => Spec`. The composition implements
  `BillingSession`, so its theorems hold beside the audit (`AuditNoOverdraft`).
* `AuditTypeCorrect`: `AuditSpec => []AuditTypeOK`.
* `SettledAgreesHolds`, without retries. `SettlingInv` says that a snapshot is
  settled, or about to be, only beside a session closed as settled and with its
  actual cost; `HeldInv` says what such a session has taken.
* `ClosedStaysHolds`, with any retries. A final status could be replaced by a
  creation or a refund that is still to come; `TodoInv` says that a row is to be
  created only while there is none and to be refunded only if its session did not
  close as settled.
* `RefundedAgreesHolds`, without retries: a row is closed as refunded, or about to
  be, only for a session that ended, and, of a synchronous request, ended without
  being kept and without an error in its refund (`RefundingInv`); with `RefundInv`
  that session has nothing left.

`TaskBillingProofs`
* `TypeCorrect`, `BooksHold`, `DeliveredIsPaidHolds`, for any
  number of workers, any pre-charge and any price. The inductive invariant `IInv`
  adds to the types `RowInv` (what status, quota, refund mark and submission go
  together, and what the user has paid for each) and `WorkInv` (what a worker's
  step says about its copy and the row: a copy without quota means a row without
  quota, a worker that may still write has a copy of an unfinished task, and a
  refund is only tried of a task that has failed). It is needed because a worker
  acts on a copy: without it a delivered task could be about to be refunded.

`ChannelCircuitProofs`
* `TypeCorrect`, `OpensInTimeHolds`, `StaysBlockedHolds`, `ProbesSpacedHolds`, for
  any requests, instances, threshold and delays longer than the lag, with Redis and
  without. `StaysBlocked` is the inductive core: it relates the history `since` to
  the deadlines, and `ProbesSpaced` follows from it in the one action that lets a
  probe pass.

`UserSessionProofs`
* `TypeCorrect`, `StaleEndsInTimeHolds`, `NotReactivatedHolds`,
  `NotServedLateHolds`, `NewestSecretStaysHolds`, for any number of requests in
  flight and any lifetimes. The invariant relates what each stalled request may
  still write to the time since the row changed: a snapshot older than the row has
  a deadline at most one cache lifetime after the change. `NotServedLate` needs in
  addition that a request marked late holds no active snapshot.

`AuthClientProofs`
* `TypeCorrect`, `NeverSwitchedHolds`, `NotForcedOutHolds`, for any number of
  dashboards, consoles and sessions. `ClientInv` adds to the types that a bundle in
  flight is of the session whose token was presented, and that a dashboard or site
  with a refresh under way is the head of the lock's queue. `SwitchInv` adds that a
  refresh which the dashboard still counts as its own asked for the session it
  shows, the fact that the checks after each `await` keep up; a session can then be
  replaced by a refresh only with itself. `RotationInv` adds, for
  sessions no console overlapped, that one page at a time refreshes them and, if no
  page abandoned a refresh of them, that it presents the newest token and that the
  cookie has the newest or it is on its way; so no such refresh is taken for reuse.
  `AdriftLost` adds that a request which outlived its page is of a session counted as
  lost, so that what the server makes of it does not matter there.

`PlaygroundProofs`
* `TypeCorrect`, `StreamsAreWantedHolds`, `ChunksBelongHolds`,
  `NothingStuckHolds`, `AllChunksShownHolds`, for any number of requests and chunks.
  The messages a user sees are what the queued updates make of the rendered ones,
  so the inductive invariant `ChatInv` is about the messages to come. `StreamInv` and
  `ControlInv`: only the newest request runs, it is of the current generation, the
  flags show it, and the pending chunks are its own. `ViewInv`: the rendered
  messages, the stored ones, and the queue rendered in the current *and in the next*
  generation (a stop, which begins a new one, may come before the render) show only
  chunks that belong, have nothing pending but the last message, and while a request
  runs end with its answer; when nothing runs the queue leaves nothing pending.
  `ChunkInv`: what the answer shows and what waits for the flush timer make together
  the text received (`Carries`), as far as the text does not repeat itself: then no
  chunk of pieces begins with the pending text or with the content, and of a snapshot
  exactly the known beginning is cut off. A fold over the queue is unfolded by lemmas (`FoldsOver`,
  `ApplyAppend`) proved, like the sums above, by a smallest counterexample.

Only model-checked: liveness, since neither fairness nor ENABLED is in the prover's
reach (`LostLeaseEnds`, `ChargeSurfaces`, `EventuallyRefunded`, `Recovers`,
`DeadSessionLeft`, `RefreshEnds`, `ConsoleLeavesDeadSession`, `GenerationEnds`).
With retries of a task `NoOverdraft`, the types and `ClosedStays` are proved and the
properties of `audit` are checked; the rest is not claimed there.

## 5. Plan

Done, in this order: `SystemTask`; `BillingSession` and `Ledger`; `PricingAudit`,
composed with `BillingSession`; `TaskBilling`; `ChannelCircuit`; `UserSession`;
`AuthClient`; `Playground`; and the proofs of section 4.

Worth doing next:

1. Proofs: the books and `FailedPaysNothing` with retries, for the tasks that do not
   reuse a refunded session; the subscription against an abstract ledger of its own.
2. Top-ups: order completion under repeated and late callbacks.
3. The user authentication cache beside `UserSession`.
4. Channel selection as a pure algorithm against a reference definition.

## 6. Not modelled

Most lines of the repository are TypeScript of the browser applications: forms,
tables, dialogs, price editors, translations, demonstration data and a generated
route tree. They render what the server returns and post it back; the server
decides. What has a protocol of its own in the browser, the login sessions and the
playground, is modelled. The program's core logic is in Go, and that is where most
of the modules are.

Relay adapters and protocol conversion, the desktop shell, deployment, reporting
queries and price administration are input/output or single transactions without
control worth checking. Redemption, check-in, top-ups and rate limits are single
transactions or scripts. Channel selection reads configuration and decides
sequentially. The user authentication cache repeats the scheme of `UserSession`.

SQL isolation inside one transaction is taken from the row locks the code requests;
an UPDATE that changes nothing is counted as having matched, which MySQL reports
otherwise by default. Quota arithmetic is over unbounded integers; the code's
saturation of costs happens before a cost reaches the session, and the clamp of a
subscription's usage at zero is not part of `TaskBilling`.
