# Vaulltcore: a TLA+ verification project

Vaulltcore runs long agent jobs durably: a job may lose its worker at any moment
and is continued by another one from the last commit boundary, without repeating
side effects. Around this core it keeps tenants: admission and quota, usage and
billing, automations with schedules, triggers and approvals, credentials,
members. The models in this directory are translated from the TypeScript
sources under `src/packages`; `PROJECT.json` maps every definition to its lines.

## 1. Inventory

### Durable execution

| Component | State | Operations | Interacts with |
|---|---|---|---|
| `SqlJobStore` (store-sql/sql-store.ts) | `jobs`, `job_leases`, `job_events`, `job_checkpoints` | `updateJobRecord` (compare-and-set on the attempt), `acquireLease`, `releaseLease`, `renewLease`, `appendEvents`, `saveCheckpoint`; each one transaction | called by everything below |
| `PgJobStore`, `PostgresDispatcher` (store-sql) | the same rows in PostgreSQL, `dispatch_claims` | the same operations as transactions of several statements; `claim`, `heartbeat`, `release` | other processes, through row locks |
| `FileJobStore` (runner/store-file.ts) | `job.json`, `events.ndjson`, `checkpoint.json` of a job | the same operations as sequences of file operations under a per-process mutex | the file system |
| `DurableAgentRunner` (runner/runner.ts) | per call: draft checkpoint, engine session, abort signal; per process: the `active` map | `runJob`, `resumeJob`, `cancelJob`, `suspendJob`, `submitInput`, `renewLease`, `streamEvents` | store, engine, tools, environment |
| `ExecutionActorController` (runner/actor.ts) | none of its own | `acquire`, `start`, `suspend`, `recover`, `release` | store, environment |
| environments (runner/environment.ts, environment-cloud, environment-docker) | workspace or sandboxes, images | create, snapshot, suspend, resume, restore, dispose | controller, provider |
| dispatcher (store-sql/distributed-store.ts) | `dispatch_claims` | `enqueue`, `claim`, `acknowledge`, `heartbeat`, `release`, `findRecoveryCandidates` | shares `jobs` and `job_leases` with the store |
| `WorkerHost`, `JobReconciler` (worker) | the call in progress | `runOnce` / `runLoop`, heartbeat loop, `reconcile` | dispatcher, runner |
| snapshot registry and GC (store-sql/snapshot-gc.ts) | `snapshot_lifecycle`, `snapshot_gc_attempts` | capture registration, supersession, `gcDecision`, `runGc`, `markEligible` | the provider's deletion call |

What makes it hard: every `await` is a point where another process, a
control-plane call or a crash may intervene; leases expire while their holder
still runs; ownership is asserted only by the generation that a write carries;
the claim (assignment) and the lease (execution) are two separate locks.

What makes it correct: one owner per generation; only the newest generation moves
the committed state, and only forwards; side effects are recorded before they
begin and a non-idempotent one happens at most once; the stored checkpoint can
always be recovered from; admitted input enters a session once; calls return
and lost jobs are finished; no snapshot that recovery needs is deleted, and what
a snapshot restores is what was captured.

### Admission, quota, usage

| Component | State | Hard | Correct when |
|---|---|---|---|
| admission (control/admission.ts, store-sql/admission-idempotency.ts) | the key's slot, per call its position | five transactions in three stores with compensation, crashes between them, retries | one key answers with one job, made from the request sent |
| quota (quota/store.ts) | reservations, counters, period, global ceiling | settle, release, renewal and reaper race on one row | counters equal what is held; an ended reservation stays ended |
| `POST /jobs` slots (control/server.ts, store-sql/registries.ts) | idempotency records | pending slots are created again, failures delete slots | an answer fits the body that was sent |
| metering, billing, reconciliation | usage events, ledger, settlements, gaps, runs | overlapping runs, price changes, crashes | one charge per usage event, for good |
| usage queries (metering, usage-governance, phase2f-routes) | none of their own | rows arrive between pages | a walk has every row once, in order |
| control plane (control/server.ts, policy, identity) | grants, policies, projects | checks and writes separated by awaits | nothing crosses tenants; a job's tools come from one policy |

### Tenants

| Component | State | Hard | Correct when |
|---|---|---|---|
| work queue (ops) | items with generation and attempts | late workers, reaping, redrive | one holder per generation, bounded retries, everything finishes |
| scheduler | schedules, occurrences, watermark | several processes tick at once | an occurrence is admitted once, a schedule gets to its latest missed one, with two exceptions (section 4) |
| webhooks, integration | inbound events, triggers, subscriptions | duplicate deliveries, overlapping passes | enqueued by one, a processed event is triggered |
| trigger dispatch (automation) | dispatches with lease and attempts | unfenced writers, stale listings, in-memory idempotency | decided for good, taken by one |
| automation definitions and runs | versions; run, steps, approval, delivery | any call may be overtaken or die | executed before collected, approved before sent, sent once, final |
| run event stream | run events, follower | writers race on seqs and die | no gaps, the stream ends |
| reliability, recovery | pages of work | the pass changes the order it pages by | everything pending is seen, completed stays completed |
| delivery providers | settled keys, attempts | lost answers, redirects | duplicates only with a cause, only checked destinations |
| artifacts | content and sidecar files or objects, their directory | look-then-write, writes that fail, crashes | what was put is whole unless a write of it failed or was cut |
| credentials | connection, authorization attempts | duplicate callbacks, refresh against rotation | settled once, what is down stays down |
| membership | members, invitations | decisions on stale roles | an owner remains, invitations decided once |
| principals | keys, credentials, sessions | withdrawal against issue and rotation | what is withdrawn is not granted, for good |

`serve.ts` wires one `WorkerHost` over a SQL dispatcher and no reconciler, GC
driver, reservation reaper or Postgres dispatcher; `automation-routes.ts` calls
`runner.runJob` inline, beside that host. `PROJECT.json` lists under "hazards"
what is hard to test in this code, each at its line, with the properties that
cover it or the reason why none does.

## 2. Modules

| Module | Models | Built on |
|---|---|---|
| `JobStore` | the rows of one job and the store's transactions; also on its own under arbitrary clients (`StoreSpec`) | |
| `Ownership` | the abstract specification of durable ownership | |
| `Runner` | runner and controller, one action per `await` | `INSTANCE JobStore`, refines `Ownership` |
| `Fleet` | worker hosts, dispatcher claims, supervisor | `EXTENDS Runner` |
| `PgJobStore` | the store and the dispatcher in PostgreSQL, statement by statement | refines `JobStore` |
| `FileJobStore` | the store in files, file operation by file operation | |
| `Environments` | workspaces, sandboxes, captures and restores of one job; the snapshot policy | |
| `SnapshotGc` | snapshot lifecycle and GC passes | |
| `EventStream` | `streamEvents`: replay, subscription, gap fill, poll | |
| `Quota`, `Admission` | reservations and counters; the admission pipeline over them | `Admission` extends `Quota` |
| `JobRequests` | `POST /jobs` idempotency | |
| `Accounting` | usage, ledger, settlement, reconciliation runs | |
| `UsageQuery` | recording and paging of usage, aggregates, the export | |
| `ControlPlane` | the request pipeline, job creation, scoped reads | |
| `OpsQueue` | operational work items, worker loop, reaper | |
| `Scheduler` | cron, ticks, occurrences, watermark | |
| `EventIntake` | webhook gateway, fan-out, subscriptions | |
| `TriggerDispatch` | dispatches of triggers and their redrive | |
| `Definitions`, `Automation` | publishing of versions; one run from start to delivery | |
| `RunStream` | the run's event log and its SSE follower | |
| `Reliability` | repair passes, timeout scans, cancellation, bulk redrive | |
| `Delivery` | providers, guard, retry policy | |
| `Artifacts` | three artifact back ends | |
| `Connections` | provider connections, OAuth attempts | |
| `Membership`, `Principals` | roles and invitations; keys, identities, sessions | |
| `JobStoreProofs`, `RunnerProofs`, `RunnerEffectsProofs`, `JobPlaneProofs`, `ProgressProofs` | theorems (section 5): the job stores (SQL, Postgres, files) and snapshots; runner and fleet; its effects; admission, quota, the request path, accounting and the whole of `MCJobPlane`; the followers of a job and of a run, the readers of usage, the workspaces | the modules proved about (`RunnerProofs`: `Fleet`), TLAPS |
| `WorkProofs`, `InboundProofs`, `TenantsProofs` | theorems: queue, scheduler, repairs, runs; gateway, fan-out, dispatch, artifacts, deliveries; members, principals, connections, versions and the whole of `MCTenants` | those modules, TLAPS |
| `MCRunner`, `MCFleet` | constants for TLC | `Runner`, `Fleet` |
| `MCHosts`, `MCJobPlane`, `MCTenants`, `MCProgress` | compositions: hosts, job side, tenant side, the loops | the modules above |

**The compositions.** The parts put side by side in a composition keep separate
rows and do not call one another. A variable `focus` chooses one of them in the
initial state, and a behaviour follows that part while the others stand still:
the states are the union, not the product, of the parts', and one run checks
them all. Components that do interact are composed properly: `Fleet` with
`Runner` and `JobStore`, `Admission` with `Quota`, `Accounting` over the
metering, billing and reconciliation stores, `PgJobStore` against `JobStore`.

**Conventions.** A store method is atomic (one transaction, or one synchronous
call into SQLite). A method that awaits between store calls is split at its
awaits, and the program counter of the call (`pc`) is the await it stands at; a
crash erases the call. What the caller read earlier is kept in the call's record
and used as it was read. Where the code catches an error, the action goes where
the handler goes. Data is reduced to what decides something: amounts are the
pricing version they were computed with, secrets and contents are numbers or
names, time is one bit (live or expired) unless an order of times matters.
`left`, `fuel`, `bounds` and the like hold what remains of a bound; `kept`,
`excused`, `marks`, `due`, `barred` and the like only observe.

**JobStore.** `rec` is the `jobs` row with its lease row, `log` the events (the
event with seq *n* is `log[n]`), `ckpt` the checkpoint row. A transaction is an
operator whose guard is its success condition; the negation is the error
(`LeaseFencedError`, `LEASE_HELD`) and the caller says what the error does to it.
Lease tokens are random and fresh per acquisition, so a token is named by the
generation granted with it. Time is one bit: a lease is live or expired.

**Runner.** `run[p]` is the `runJob`/`resumeJob` call of process *p*: its program
counter is the `await` it stands at, next to its generation, draft, session and
pending tool plan. `ctl[p]` is a control call there. A crash erases both. The
four store calls of a commit boundary are `CheckpointStatus`, `CheckpointAppend`,
`CheckpointSave`, `CheckpointResume`; the terminal transitions share
`FinishAppend`, `FinishUpdate`, `Dispose`, `Release` and differ in the record
`Finish` builds. Messages are event types, a tool call is a step and a call id,
token usage is the number of turns. `execs` and `orphaned` only observe. Two
simplifications: recovery reads checkpoint and log in one step, and a tool result
enters the session with its event although the code hands results to the engine
when the whole plan is settled; no guard depends on either. An environment is
configured, its policy is modelled in `Environments`, and engines and tools
terminate.

**Fleet** adds `claim` (the `dispatch_claims` row) and `host[p]` (the `runOnce`
call). A successful heartbeat is visible as a lease and a claim that do not
expire; a failed one stops the heartbeats while the run goes on.

**PgJobStore.** `tx[c]` is the transaction of client *c*: BEGIN, the statements
that matter (the locking read of the job, the other reads), COMMIT. The locked row
is read as it is at that moment, other rows are read at their own statement. On
COMMIT the writes take effect on the rows `JobStore` declares, so that
`PgImplementsStore` compares each COMMIT with one step of `StoreNext`. The
dispatcher is a part of its own over `pgJob`, `pgLease`, `pgClaim`.

**Environments.** `boxes` are workspaces or sandboxes with the version of each
file, `images` the captures, `envJob` what the record names. `place` is the
deployment, chosen initially: local directories, docker, or the fake remote
provider without its capabilities (with all of them the fake behaves as docker).

**SnapshotGc** numbers snapshots in capture order. A pass takes its decision in
`StartGc` and acts on it one provider call at a time.

**Scheduler** models cron from the parsed parts on: a field is a list of parts,
with their bounds, steps and validity, and `nextRun` moves by whole minutes of
`Sub` instants. Several instants in one minute are what the code can tell apart.
`MaxDue` is the number of occurrences one computation collects (1000), `RunScan` the
minutes `nextRun` searches (366 days of them) before it throws; a throw ends the tick.

**Admission.** A replay of a completed slot answers with its job, or finds that
`getJob` answers null, which it does on any error of the store (runner.ts:293): then
`fail` leaves the slot as it is, and admission goes on beside it with the reservation
that is there. The
history `misread` names the keys this happened to. A settlement
(`SettleAgainstActualUsage`, `SettleAndBill`) may come at any time; `ended` only
records which jobs have ended. The in-memory registry of slots, for one process and
for tests, is not modelled.

**TriggerDispatch.** A redrive pass goes by a name (`owner`), by default the millisecond
it began in, so two passes may have the same one; `PassNames` are the names there are.

**Delivery.** A URL has the addresses its host resolves to, of family 4 or 6, mapped
ones included, and `words`, the class its text alone would be given: an error's message
contains the URL, and `defaultClassifier` searches the message. Redirects are checked
where they are followed; a refusal that speaks of a "forbidden address" is of the class
`auth_config` and ends the delivery.

**Artifacts** has the contents of one owner and the one directory they lie in
(`ownerDir`), made by `put` and removed, when empty, by `delete`. Every file operation
and every request may fail where the code can see it fail; `raced` and `disturbed`
name the contents whose calls overlapped, or whose write failed or was cut.

**Definitions** has the validation as it is coded (Kahn's algorithm over the
remaining degrees) and a reference (`Rankable`), checked against each other over
every graph of the instance.

**Principals**, **Membership**, **Connections**: one action per store method and
one per await of the routes and services above them; stale roles and versions are
part of the call's record.

Definitions whose comment begins with "Mutant" are not part of any
specification. They are the deliberately wrong variants (a dropped guard, an
off-by-one) used to see that each property notices such a mistake.

## 3. Runs

| Run | Instance | Shows |
|---|---|---|
| `RunnerZombies` | 2 processes, leases lost while running, 1 crash, a read and a write tool | effects at most once, a checkpoint that is always enough, progress kept, refinement of `Ownership` |
| `RunnerControl` | 1 process, an input, a reconciler pass, 1 crash, an environment that refuses once; `fail_job`, a denied tool | `ControlSafe`: inputs once, and effects, checkpoints and progress survive on these paths |
| `RunnerLive` | 1 process, 2 steps with token and duration budgets, a cancellation, 2 crashes, an environment failure | `EveryCallReturns`, `JobSettles` |
| `FleetSafe` | hosts: 2 workers, 1 crash, 1 reconciliation, 2 claims; file store: 2 callers, deaths inside writes; environments: 3 deployments, 1 fault | `AssignedToOne`, `FileStoreSafe`, `WorkspaceKept` |
| `FleetLive` | 1 host, 2 crashes | `LostJobIsFinished` |
| `JobPlane` | the job side: stores, requests, admission with quota, usage with its ledger | see below |
| `Tenants` | the tenant side, 16 parts | see below |
| `Progress` | the loops: GC, reservations, queue, scheduler, followers; usage pages | see below |

A property of a composed run is a conjunction of named parts, each stated and
commented in its component's module:

| Property | Parts |
|---|---|
| `CheckpointIsEnough` | `StoredCheckpointValidates`, `RecordedBeforeEffect` |
| `ControlSafe` | `NonIdempotentAtMostOnce`, `CheckpointIsEnough`, `NoInputTwice`, `CommittedProgressKept` |
| `AssignedToOne` | `OneRunPerGeneration`, `OthersClaimKept`, `ImplementsOwnership` |
| `FileStoreSafe` | `GrantedOnce`, `MonotonicUnlessCut`, `NothingAnsweredLost` |
| `WorkspaceKept` | `ReferenceIsWhole`, `KeptWithoutRestore`, `DisposedStaysDown`, `RestoredAsCaptured` |
| `CountersFit`, `ReservationsStand` | `CapacityCounted`, `GlobalNotLeaked`; `RunningKeepsReservation`, `EndedForGood` |
| `LedgerRight`, `BooksClosed` | `OneChargePerUsage`, `CorrectsOwnAccount`; `ChargedForGood`, `CompletedRunSettles` |
| `RequestsSafe` | `AnswerMatchesBody`, `JobsStayInTenant`, `UntrustedOriginUnhandled`, `AdmittedInOwnProject`, `ToolsOfOnePolicy` |
| `PgServes` | `PgImplementsStore`, `RenewedIsNewest` |
| `QueueSafe` | `OneHolder`, `RetriesBounded`, `PassCoversPending` |
| `InboundSafe` | `EnqueuedByOne`, `ProcessedIsTriggered`, `AttemptsBounded`, `RunPerProcessLife` |
| `AutomationSafe` | `PublishedIsExecutable`, `RefusedForCause`, `VersionsNumbered`, `ExecutedBeforeCollected`, `ApprovedBeforeSent`, `SentAtMostOnce` |
| `OutputsSafe` | `KeptIsWhole`, `HeadMatchesContent`, `DuplicateHasCause`, `DeliveredWasReceived`, `OnlyCheckedContacted` |
| `AccessSafe` | `OwnerKept`, `OnePendingPerEmail`, `WithdrawnNeverGranted` |
| `ConnectionsSafe` | `SettledOnce`, `DownStaysDown`, `ActivatedWithOwnSecret` |
| `DecisionsStand` | `FinishedForGood`, `FailedNotCompleted`, `DecidedForGood`, `LiveLeaseKeepsDispatch`, `CompletedStaysCompleted`, `FinishedRunIsFinal`, `AttemptsEnd`, `InvitationDecidedForGood`, `WithdrawnForGood`, `AnchorSetOnce` |
| `SnapshotsSafe` | `UsableImageKept`, `RecoveryArtifactKept`, `DeletedIsGone` |
| `FollowersSeeAll`, `FollowersReleased` | `InOrderOnce`, `OnlyForeignSkipped`, `RunStreamNoGaps`, `DoneCoversLog`; `FollowerReleased`, `RunStreamEnds` |
| `UsageReadsRight` | `WalkIsComplete`, `WalkInOrderOnce`, `ExportMatchesSummary` |
| `ResourcesReturn` | `SupersededIsCollected`, `AbandonedCapacityReturns` |

**Bounds.** `Max...` constants count what happens (calls, crashes, failures,
changes of configuration); one or two of each is enough for every pair of awaits
to be separated by the event. Generations, events and versions leave one more
than the losses the run allows. Two actors of each kind are an owner and a rival;
a third would only repeat either role, since all of them meet in the same rows.
Two keys, items or snapshots are one and another it might be confused with.
Where a property speaks of a limit (attempts, pages, ceilings, periods) the limit
is small enough to be reached: `JobsPerPeriod` 1 or 2, `MaxAttempts` 2,
`MaxDispatchAttempts` 3, `MaxDue` 2, ceilings 0 and 1. Two `PassNames`
let two passes have one name or two; the directory of artifacts serves two contents,
one of which an S3 signature cannot cover; destinations are one public address, one
host with a private address among its own, one unique-local and one mapped private
address, and a host whose name contains a word of the classifier. `JobPlane` holds many parts in one run and
keeps the store at two generations; what it checks of the store, of the Postgres
transactions, of admissions and of the ledger is proved without that bound
(section 5). Liveness runs have enough generations and claims that no bound stops
progress. `Tenants` is explored up to a renaming of its calls and of
what they are about (its properties are all safety). No run checks deadlock: a job that has ended, or a part whose calls are
spent, stops.

**Fairness.** Awaits complete (store transactions, engine turns, tools). Leases
and claims that nobody renews expire. `FairSpec` also assumes a caller that keeps
calling `runJob` or `resumeJob` on an unfinished job. `FairFleetSpec` assumes
polling hosts, periodic `reconcile` and a supervisor that enqueues suspended
jobs. `Progress` assumes the loops the packages export: repeated `runGc`, the
reaper of expired reservations, polling ops workers with their reaper, ticking
schedulers, followers that poll. The repository offers these loops as libraries
and its tests drive them; `serve.ts` itself starts only the host loop. Providers
fail finitely often. Crashes and other failures are never fair.

**Runs that refute a statement.** Each `Doc*` run checks one sentence of the
repository, and TLC finds a behaviour of the code that contradicts it; the
quotations are in `PROJECT.json` under "findings".

| Run | Behaviour found |
|---|---|
| `DocStaleWrite` | a fenced run cancels the job under its successor's generation |
| `DocOrphans` | orphaned events are replayed after a second crash |
| `DocFailJob` | under `fail_job` the job leaves `failed` and is settled again |
| `DocRequeue` | a re-enqueued job starts from scratch and repeats effects |

`NonIdempotentAtMostOnce` and `CommittedProgressKept` hold with one process
starting the queued job (`Starters`) and recovery through `resumeJob`;
`DocRequeue` is the same instance with recovery through `enqueue`.
`LostJobIsFinished` allows that a host loop has died.

## 4. Observations

Reading the code for the models showed further places where it does less than
its documents say or a reader would expect. The models reproduce them, and the
properties are stated so that they say what the code does guarantee beside them.

*Execution.* Terminal events are appended without a generation (runner.ts:692).
A turn without tool calls completes the job over input admitted while it ran
(497). Suspending a job whose run lives in the same process aborts that run, which
takes the abort for a cancellation (273). The parking write clears a lease acquired
after the reconciler's scan (actor.ts:159). `acquire` checks the status before
`acquireLease`, which does not (actor.ts:66). A host whose acknowledge was fenced
runs the job all the same (worker-host.ts:103), and an exception of one job ends
its loop (136). In an environment without native suspend, `suspend` throws before
it parks the job (actor.ts:139). `snapshotFacts` reports no steps since the last
snapshot once there is one (actor.ts:389), so a job is captured at most once by
policy. A torn line makes `listEvents` throw for good (store-file.ts:155).
Docker restores always report a mismatch. A late failing GC pass writes `failed`
over `deleted` (snapshot-gc.ts:162); a snapshot superseded by a superseded one is
never collected. `streamEvents` skips events appended by other processes until its
next poll. The Postgres claim leaves the job `queued`, against the head comment of
pg-dispatcher.ts; that dispatcher is not wired.

*Admission, quota, usage.* A reservation refused is never durable (quota/store.ts:234);
a full period never reopens (262); a retry after compensation reuses the released
reservation (243, admission.ts:304); the global counter misses what was reserved
while the ceiling was 0 (369, 396, 422). A crash leaves an admission key `pending`
for good (admission.ts:317-321). `POST /jobs` creates again under a pending key
(server.ts:657). `duplicate_candidate` gaps are never repaired, completing an
interrupted run marks it completed (reconcile/store.ts:207), jobs beyond `maxJobs`
are never scanned. `charge:` and `settle:` keys both charge one usage event. A usage
row stamped before its transaction may commit behind a cursor (metering/store.ts:110);
`?runId=` is ignored (phase2f-routes.ts:161).

*Queue, schedules, triggers.* A late complete revives a dead letter
(ops/store.ts:190), terminal items keep their dedup key (129-133), crash loops never
reach the dead letters (227). Milliseconds are kept without a watermark, so one cron
minute may have two occurrences (cron.ts:138); one exception aborts a tick
(scheduler.ts:95). A crash between recordEvent and markEnqueued loses the event
(gateway.ts:134); `failTrigger` is unguarded (subscriptions.ts:333). Idempotency of
createRun lives in memory (automation/service.ts:340), a failed drive counts two
attempts. The timeout scan uses `updated_at`, its comment says created
(cancellation.ts:41).

*Automations, delivery, artifacts.* Runs that crash in `created`,
`validating_input`, `collecting` or `delivering` are picked up by nobody
(automation/service.ts:470); `changes_requested` to `suspended` is refused (625);
appendEvent drops an event of a duplicate seq (store.ts:1006). Delivered keys live
in memory, `RetryPolicy` has no caller. A refused redirect is of the class its message
has: final for a forbidden address, retriable for a failed resolution.

*Access.* An attempt expired by a duplicate callback still activates; rotation keeps
the old expiry. Roles are read before several awaits (phase2g-routes.ts:310-344). A
member once removed cannot be invited twice (identity/store.ts:192). `rotateApiKey`
replaces a key revoked meanwhile (803). `operationsHealth` counts all tenants.

*Where a comment says otherwise.* These comments claim more than the code does. The
properties beside them state what holds, and name the exception.

- A replay "returns the original result without repeating reservation or job creation"
  (admission.ts:242-243). `getJob` answers null on any error of the store
  (runner.ts:293); the completed slot, which `fail` does not move, is passed over
  (admission.ts:276), a second job is created and the slot rewritten to it. If that admission fails, its compensation releases the reservation
  the first job may still run on (333). `AnswersAgree` and `RunningKeepsReservation`
  except the keys in `misread`.
- Settlement is "called by the control plane at job terminal/cancellation"
  (admission.ts:355). Neither `settleAndBill`
  (admission.ts:360) nor `settleAgainstActualUsage` (quota-settlement.ts:45) asks for
  it, so a job that still runs may lose its capacity; phase2f-governance.test.ts:131
  does so. `RunningKeepsReservation` names settlement as one of the ends.
- "Admit only the latest due occurrence" (scheduler.ts:61): the latest of the 1000
  oldest (scheduler.ts:118). After a longer outage each tick admits one occurrence and
  moves on, but once such an admission fails, or a new version comes between, the same
  occurrence is computed again and skipped for good. An expression without a match in
  366 days throws (cron.ts:160) and ends the tick of every schedule.
  `LatestMissedIsRecorded` excepts both (`Wedged`, `TicksEnd`).
- "A stale owner whose generation was superseded cannot finalize" (dispatch.ts:181-184).
  `markRunCreated` compares the state only (trigger-store.ts:440), and two passes that
  begin in the same millisecond share their name, so one takes a dispatch under the
  other's live lease (dispatch.ts:189, trigger-store.ts:517).
  `LiveLeaseKeepsDispatch` excepts the namesake.
- IPv4-mapped addresses are said to be rejected (ssrf.ts:9-11). Of a mapped address
  only that of the metadata service is recognized: `::ffff:10.0.0.1` is of family 6 and
  passes (ssrf.ts:38-66). "We connect to the resolved IP" (14-16): the providers connect
  to the host name, which is resolved again. `OnlyCheckedContacted` says that every
  request goes to a destination that was checked, as resolved by the check, and that
  no internal address is among them but mapped ones.
- Content of a local artifact is called immutable, and a put that finds the file
  answers for it (local-store.ts:95, 109). A `writeFile` that fails, or a process that
  dies in it, leaves a piece of the content, and the next put answers that it is
  stored. `KeptIsWhole` is stated for contents no write of which failed, was cut or
  overlapped with another.
- "A reauthorize ... reactivates the same connection" (credentials/contracts.ts:48-50),
  "Reactivate a degraded/expired connection" (store.ts:331), "On success the connection
  rotates + reactivates" (lifecycle.ts:273-274), a failed refresh is "recoverable" (docs/phase2d.md:331). The table
  of transitions lets `expired` go to no state but `revoked` and `disconnected`: the refresh
  of an expired connection obtains a secret, rotates it in, and is then refused at
  `activate`; `markDegraded` is refused as well (lifecycle.ts:307-309). `DownStaysDown`
  states what the code does.
- Delivery is "at-least-once" and "a retry reuses the same delivery identity"
  (automation/service.ts:633-635); "operator retries by re-running delivery" (676). The
  run is `failed` by then, which is terminal, and neither `recovery.ts` nor a route
  delivers for a failed run. `ApprovedBeforeSent` and `SentAtMostOnce` are about the one
  delivery there is.
## 5. Proofs

TLAPS checks the theorems below for every value of the constants, that is, for any
number of processes, keys, schedules, snapshots, calls and events, where TLC
looks at two or three of each. The head comment of a proof module gives its
argument.

| Module | Theorem | Statement |
|---|---|---|
| `JobStoreProofs` | `StoreTypeCorrect`, `OwnershipSafe`, `CheckpointSafe` | `StoreSpec => []` of `StoreTypeOK`, `LeaseIsCurrent`, `CheckpointBehindLog` |
| | `HistoryKept` | `StoreSpec => StoreOnlyForward` |
| | `PostgresServes` | `PgSpec => PgServes`: every COMMIT is a step of the store or leaves it alone; only the newest claim is renewed |
| | `PostgresRowsSafe` | `PgSpec => [](LeaseIsCurrent /\ CheckpointBehindLog)` |
| `RunnerProofs` | `RunnerInvariant` | `Spec => []RunnerInv` |
| | `RunnerOwnership` | `Spec => ImplementsOwnership`, the refinement of `Ownership` |
| | `OneRunEach` | `Spec => []OneRunPerGeneration` |
| | `InputsOnce`, `RunnerTyped` | `Spec => []` of `NoInputTwice`, `TypeOK` |
| | `FleetAssigns`, `FleetTyped` | `FleetSpec => AssignedToOne`, `FleetSpec => [](FleetTypeOK /\ NoInputTwice)` |
| `RunnerEffectsProofs` | `EffectsInvariant`, `EffectsOnce`, `RecoveryHasEnough` | `Spec => []` of `EffectsInv`, `NonIdempotentAtMostOnce`, `CheckpointIsEnough`, given `OneStarter` |
| | `ProgressKept`, `ControlAlwaysSafe` | `Spec => CommittedProgressKept`, `Spec => ControlSafe`, given `OneStarter` |
| `JobPlaneProofs` | `CountersRight`, `AdmissionCountersRight` | `[]CountersFit` under `QuotaSpec` and under `AdmissionSpec` |
| | `AnswersAlwaysAgree` | `AdmissionSpec => []AnswersAgree` |
| | `ReservationsAlwaysStand` | `AdmissionSpec => ReservationsStand` |
| | `RequestsKept`, `RequestsAlwaysSafe` | `JobPlaneSpec => []` of `ControlPlaneInv /\ JobRequestsInv`, `RequestsSafe` |
| | `AccountingTypeCorrect`, `LedgerAlwaysRight` | `AccountingSpec => []` of `AccountingTypeOK`, `LedgerRight` |
| | `BooksStayClosed` | `AccountingSpec => BooksClosed` |
| | `JobPlaneTyped`, `JobPlaneAlwaysSafe` | `JobPlaneSpec => []` of `JobPlaneTypeOK`, `LeaseIsCurrent /\ CheckpointBehindLog /\ CountersFit /\ AnswersAgree /\ LedgerRight` |
| | `JobPlaneForward` | `JobPlaneSpec =>` each of `StoreOnlyForward`, `PgServes`, `ReservationsStand`, `BooksClosed` |
| `ProgressProofs` | `FollowersKept`, `FollowersAlwaysSeeAll` | `ProgressSpec => []` of `FollowersInv`, `FollowersSeeAll` |
| | `PagesKept`, `WalksAlwaysRight` | `ProgressSpec => []` of `UsageInv`, `WalkIsComplete /\ WalkInOrderOnce` |
| | `WorkspaceAlwaysKept` | `EnvInit /\ [][EnvNext]_envVars => WorkspaceKept` |
| `JobStoreProofs` | `GcTypeCorrect`, `CollectionSafe` | `GcSpec => []` of `GcTypeOK`, `SnapshotsSafe` |
| | `FileKept`, `FileStoreAlwaysSafe` | `FileInit /\ [][FileNext]_fileVars => []` of `FileInv`, `FileStoreSafe` |
| `WorkProofs` | `SchedulerTypeCorrect`, `AdmittedOnce` | `SchedulerSpec => []` of `SchedulerTypeOK`, `OneAdmissionPerOccurrence` |
| | `OpsKept`, `FinishedStand` | `[]OpsInv` (with `OneHolder`, `RetriesBounded`); `FinishedForGood` |
| | `ReliabilityKept`, `CompletedRunsStand` | `[]RelInv` (with `PassCoversPending`); `CompletedStaysCompleted` |
| | `RunKept`, `FinishedRuns` | `[]RunInv` (with `ExecutedBeforeCollected`, `ApprovedBeforeSent`, `SentAtMostOnce`); `FinishedRunIsFinal` |
| `InboundProofs` | `IntakeKept`, `FailuresStand` | `[]IntakeInv` (with `EnqueuedByOne`, `ProcessedIsTriggered`); `FailedNotCompleted` |
| | `DispatchKept`, `DecisionsOfDispatches`, `LeasesKeepDispatches` | `[]DispatchInv` (with `AttemptsBounded`, `RunPerProcessLife`); `DecidedForGood`; `LiveLeaseKeepsDispatch` |
| | `ArtifactsKept` | `[]ArtInv` (with `KeptIsWhole`, `HeadMatchesContent`) |
| | `DeliveryKept`, `AttemptsStop` | `[]DeliveryInv` (with `DuplicateHasCause`, `DeliveredWasReceived`, `OnlyCheckedContacted`); `AttemptsEnd` |
| `TenantsProofs` | `MembershipKept`, `DecidedInvitationsStand` | `[]MembershipInv` (with `OwnerKept`, `OnePendingPerEmail`); `InvitationDecidedForGood` |
| | `PrincipalsKept`, `WithdrawalsStand`, `AnchorsStand` | `[]PrincipalsInv` (with `WithdrawnNeverGranted`); `WithdrawnForGood`; `AnchorSetOnce` |
| | `DefinitionsKept`, `DefinitionsAlwaysChecked` | `DefinitionsSpec => []` of `DefinitionsInv`, `PublishedIsExecutable /\ RefusedForCause` |
| | `ConnectionsKept`, `ConnectionsAlwaysSafe` | `ConnInit /\ [][ConnNext]_connVars => []ConnectionsInv`; `TenantsSpec => ConnectionsSafe` |
| | `QueuesSafe`, `InboundAlwaysSafe`, `OutputsAlwaysSafe`, `AccessAlwaysSafe` | `TenantsSpec => []` of `QueueSafe`, `InboundSafe`, `OutputsSafe`, `AccessSafe`, the invariants of the run `Tenants` |
| | `AutomationAlwaysSafe`, `DecisionsAlwaysStand` | `TenantsSpec => []AutomationSafe`; `TenantsSpec => DecisionsStand` |

**JobStore.** `StoreInv` is the types, `LeaseIsCurrent` and `CheckpointBehindLog`
together: that an older checkpoint never replaces a newer one needs both that the
stored generation was granted and that the log only grows. Assumption
(`StoreBounds`): the bounds are natural numbers.

**PgJobStore.** A transaction commits long after it read. The invariant says what
it still knows at that point: the row it locked is as it read it (`SnapshotHolds`,
`LockKeepsRow`), two transactions never hold one lock (`LocksDisjoint`), the
arguments of its call are sound (`CallStands`), and every check it passed is still
true (`ChecksHold`). So its COMMIT is a step of `StoreNext`. For the dispatcher
`DispatchInv` relates claims, leases and attempts. Assumption (`PgAssumption`): there is an event to append, and the
dispatcher's generations are generations of the store.

**FileJobStore.** The mutex admits one call at a time, and between its read and its
writes `job.json` is what that call read (`MutexHeld`). While no append was cut, the log is
what `lastSeq` counts, or one line longer between the append and the write of
`job.json` (`LinesCounted`). As long as no line was spoiled by one that a crash had
torn before it, every seq that is counted, or about to be, is in the log
(`CountedStored`). Assumption (`FileAssumption`): the bounds are natural numbers.

**Runner.** Every step of the runner, the controller and the environment is one of
three kinds towards the rows: *quiet* (generation and checkpoint stay), a *grant*
(acquireLease, the next generation, from an unheld job) or an *advance* (a fenced
save with a watermark beyond the stored one). `RunnerInv` holds what this needs of
each call: the types of its record at its program counter (`LocalOk`), a draft whose
watermark is beyond the stored one when it saves unless it is fenced (`SaveReady`), a
generation that was granted, and distinct generations of distinct calls. The
refinement of `Ownership` and `OneRunPerGeneration` follow. Assumptions
(`RunnerAssumption`, `DistinctCalls`): bounds are natural numbers, sets are included
as their names say, and the provider's call ids differ within a turn, since the
idempotency table is keyed by them.

**Sessions.** That no input is in a session twice (`NoInputTwice`) is inductive together
with two more facts: every input in the session is marked as applied, so that
`drainAdmittedInput` adds only what is not there, and a recovery about to rebuild the
session has a watermark inside the log (`SessionsFit`). What is added and what is rebuilt
are sets of seqs put in log order. `Ascending` is defined by ranks, the i-th element being
the one with i elements up to it, since the prover knows no definition of the library's
`SortSeq`; that it lists each element once and smaller ones first (`AscendingSorts`) is
counted with `FiniteSetTheorems`. With the type of the session, `TypeOK` follows.

**Fleet.** Towards the runner's rows a host calls the runner, crashes, or patches the
record (`enqueue`, the expiry of a lease), so `RunnerInv` is an invariant of the
deployment too and the refinement of `Ownership` holds in it (`FleetKeeps`). The claim
is the deployment's own: it may lapse and be given to another host while the first still
runs, and a host that ends compares its token before it releases. Assumption
(`FleetBound`): the bounds are natural numbers.

**Runner, effects.** At most once is a matter of who has the *right* to run a call.
The run that recorded a call has it: while its record is only in the draft the right
counts as long as the run is not fenced (another acquireLease ends it, and its save
fails), and once the record is saved it counts for good, since a zombie still runs its
tool. A recovery that finds the record settles the call as uncertain and does not get
the right. `EffectsInv` says that a body grows from the stored one (`Grows`), that the plan being settled is known to
the stored checkpoint (`PlanKnown`), that at most one live call has the right, that
what ran is recorded, and that while the job is fresh nobody worked on it
(`Fresh`, `Untouched`).

The hypothesis `OneStarter` is that at most one process calls `runJob` on the queued
job. The code does not enforce it in `runJob`: with two starters TLC finds a tool run
twice, because the second may read `queued`, wait in acquireLease until the first
one's lease has expired, and start from scratch. It is the behaviour `DocRequeue`
shows through the queue. The dispatcher does assign a queued job to one worker,
which is what makes the hypothesis true of the host loop; `automation-routes.ts`,
which calls `runJob` inline, is outside it. `RunnerOwnership` and `OneRunEach` do not
need it.

**Admission and quota.** `QuotaInv` is the types and `CountersFit`; the
counters are cardinalities, and the cases where a row enters or leaves the set of
rows that hold capacity are counted with `FiniteSetTheorems`. Over it `CallsInv` says that a call at
work owns the pending slot of its key alone (`Owned`, `OneOwner`) unless the key was misread, that a job was
made from the request in its slot (`MadeFromRequest`), that a reservation is linked
to the job its slot is completed with (`LinkedToOwn`), and that answers were given
from completed slots (`AnsweredAsDone`); what these say of jobs and links excepts the
misread keys, whose slots stay those of one request (`MisreadDone`). Without the link part the
compensation of one call could release a reservation that another call's answered job
runs on. Assumptions: keys are finite, requests use known keys and scopes, and
`NoRow` is not a reservation.

**ControlPlane and JobRequests.** A handler keeps across its awaits what it has read of
organizations, projects, grants and policies. Their rows are added and never moved, and a
policy that is replaced keeps its tools (`Grown`), so what a handler has behind it at each
await (`HttpCallFits`) stays true while others write. The job it creates is then in its
caller's own tenant and project and asks for tools of one policy (`AdmittedFits`). For
`POST /jobs`, the job of a slot was created from the body whose hash the slot keeps
(`SlotFits`), and so was the job a handler answers with (`PostFits`). Assumptions: callers'
tenants and organizations are those of the directory and requests are well formed
(`ControlPlaneAssumption`), and `NoBody` is no body (`JobRequestsAssumption`).

**Accounting.** Two arguments share one invariant, `BooksInv`. `ChargedRight`: an event is
settled exactly when the ledger has its entry, so a settlement that is not final
finds none, and the conflict clause of the insert never keeps an older entry with
another amount. `ScanCovers`: at each await of a `reconcile()` call, the jobs behind
it are dealt with, and every event its current job had at the start is recorded and
is still listed, in hand or dealt with. No other run takes this back, since every step
is `Forward` (ledger, usage and outcomes only grow). So a completing run leaves nothing
undone, whatever overlapped it. Assumptions (`AccountingAssumption`): billed jobs have accounts, bounds
are natural numbers.

**Scheduler.** The invariant is that a tick that admits an occurrence has inserted
its row and the row has no run yet (`RecordedInHand`), and that no two ticks have the same
occurrence in hand (`OneInHand`), beside well-formed ticks and published
versions. A tick's planned times are a set taken earliest first (`InHand`), which is
the order of the code's loop. Assumptions: finitely many schedules, each with a
version, `MaxDue` and `RunScan` positive, and `LookBack` (how far computeDue looks
back without a watermark) not reaching back before the model's first instant.

**SnapshotGc.** A pass acts on a decision that may be arbitrarily old.
`StaleIsDead` says that whatever it holds is in a state from which a snapshot never
becomes usable again, `LiveIsStored` that usable snapshots have their image;
`Untaken`, `InCapture`, `Replacing` describe a capture under way, `GoneIsGone` the
moment between the provider's deletion and the row update.

**OpsQueue.** The generation decides. A claim takes one above every generation a
worker still has in hand, so no two workers share one, and whoever completes, retries
or renews compares its own. A worker that still holds its item can charge one more
attempt, because a row that can be claimed has one left and the charge is made by the
completion that ends the hold; so `RetriesBounded` needs `OneHolder`.

**Reliability.** A pass reads pages by (time, id) after a cursor. An item that is
pending all the while keeps its place, because every write of the row takes it out of
"pending" or gives it a later time. So it has been read or is still beyond the cursor
(`ItemOwed`), and the empty page ends the pass with nothing owed. A scan cancels by
compare-and-set on the version it read (`ScanFits`). Assumption (`ReliabilityAssumption`):
the page size is positive and items are numbered.

**Automation.** A call that holds the current `run_version` knows the current status,
so each transition it makes is one of the table's (`HandOK`, `Table`). "collecting" is
entered from "running" only, which no later status goes back to, so one call saves the
artifacts, after all steps (`OneSaves`). A decided request is never decided again, so
an open gate stays open (`GateOpen`), and the provider is called by the one call that
took the attempt out of "pending" (`OneSends`). That "suspended" is never reached from
"awaiting_approval", although a decider asks for it, is part of `Table`. Assumption
(`AutomationAssumption`): the steps are a sequence and the gates booleans.

**EventIntake and TriggerDispatch.** At the gateway the insert of the event's row
decides which call enqueues. The fan-out marks an event processed when its list is
empty; until then each subscription that was active all along is on the list or has
its trigger. The cap on attempts is compared with a listing that may be old, and a
drive charges up to twice: `Budget` sums the attempts charged and what calls can still
charge. A claim needs the lease free, lapsed or of the claimer's own name, and takes a new
generation. So a live lease of the generation a call took is that call's and bears its
name, and only a namesake can take it.

**Artifacts and Delivery.** For a content that no two calls share, what the file and
the sidecar hold follows from where its call stands (`ContentFits`, `SidecarFits`); what
was shared, cut or failed is `disturbed`, and for an S3 object only `raced` counts. While the
directory is gone there is no file in it (`DirHolds`). No request is under way to a URL
the guard refuses, and an address it lets through is public or mapped. A delivery key is excused by overlapping calls, a lost answer,
a restart or a provider without memory. Without an excuse one call works on it, and nothing has been
accepted while another attempt may follow (`OnceOnly`). Assumption (`DeliveryUrlsAssumption`): an
address is of family 4, 6 or neither, and `words` is a class of an error.

**Membership and Principals.** Every write that could take the last owner away is made
by a transaction that counts the owners, and a pending invitation is inserted by the
statement that looks for another. A withdrawal is never undone; when a request begins
after one, the reason it must be refused is still stored at each of its steps, and one
of the checks to come looks at it (`BarredIsStopped`).

**Connections.** A lifecycle call carries over its awaits the version it read or
wrote, and every write is fenced by that version. `ConnectionsInv` says that no call's
version is ahead of the row's, and that a call about to activate at the row's own
version carries the row's secret, because the secret changes only with the version.
That nothing parked comes back follows from the table of transitions, once it is
known that no call writes over a row that is not there. No assumption.

**Definitions.** Publishers read the largest number and insert after an await. The
numbers in use are those up to their count, and a publisher holds one of them or the
next; the insert is refused unless its number is free, so it adds the next
(`DefinitionsInv`).

The walk of the step graph (`executionOrder`) is a recursive function of the number of
turns. That it is defined for every number (`TurnsDefined`), and what holds between two turns
(`TurnFits`), are shown by taking the least number of turns for which they fail, since the
induction theorems of the library cannot be instantiated. Between two turns a step is in the
order or queued exactly when it waits for nothing that is not in the order. So a step comes
after what it depends on; and when the queue is empty, a step left over waits for another one
left over, which in a graph that can be ranked has no end (`RankedArePlaced`). What
is stored was validated (`DefinitionsChecked`). Assumption (`DefinitionsAssumption`): steps
and dependencies are arrays.

**The tenant's services together.** `MCTenants` lets one part act at a time, and each
step of it is a step of one part that leaves the others alone. So every behaviour of
`TenantsSpec` is a behaviour of each part (`WholeIsParts`), and what holds of the parts
holds of it. The composition's constants for rows and calls are the theorem's
parameters, not the two or three of the run.

**The job plane together.** `MCJobPlane` lets one family of components move in a behaviour, and some of
its components share rows (the stores' jobs, the reservations of quota and admission), so
a step of one must keep what holds for the others. The invariants of rows are kept in every
family; those of a transaction or an admission hold where these run, and elsewhere nothing of
theirs is under way. Together they give the type invariant, the safety and the action
properties of the run `JobPlane`. Assumptions beside those above: the bounds on post faults and requests are
natural numbers (`MaxPostFaults`, `MaxHttp`).

**Followers.** What the follower of a job has queued and what its process has still to
publish are together the rising seqs to come, and after its second read every event of its
own process that it has not seen is among them (`Due`); an event it passes over was
appended by another process. The client of a run's stream misses nothing because the
run's log never has a hole: a writer's seq is at most one past the log (`NoHole`), and a
collision is refused and read again. Assumptions: bounds are natural numbers
(`StreamAssumption`) and clients resume from a seq (`RunStreamAssumption`), since
`phase2b-routes.ts:460` clamps `after` to 0.

**Pages of usage.** A page lists the rows after its cursor by (time, id), the order
in which `ByTime` enumerates a set by rank. A row that was there when the walk began is on a page
already returned or beyond the cursor, and what is returned rises, so nothing is returned twice while others
record. Assumption (`UsageQueryAssumption`): limits are whole numbers and the clamped ones
positive.

**Workspaces.** The invariant `EnvKept` says that a captured workspace is not written
again: captures of the local and of the remote provider have numbers of their own
(`CapturesApart`; docker tags may come again, and the model marks it), what the record
names, or a call is about to record, is whole and has the sums the manifest took
(`CapturesWhole`), and what a restore has validated is still so when it is copied
(`Restoring`). Until a restore, a loss or a disposal the one sandbox is there with
all that was surely written (`NothingLost`). The run `FleetSafe` has one fault; the
theorem holds for every number of them, and looking for the invariant with two faults
showed what one hides: `destroy` leaves a docker container that was created and
never started, since `mapDockerStatus` calls it "unknown" (docker-provider.ts:257-269) and
environment.ts:171 returns without terminating those. `DisposedStaysDown`
therefore says that nothing computes after a disposal, not that nothing is left.
Assumption (`EnvAssumption`): the bounds are natural numbers.

**Only model-checked.** Liveness under fairness (`EveryCallReturns`, `JobSettles`,
`LostJobIsFinished`, `WorkFinishes`, `LatestMissedIsRecorded`, `FollowersReleased`,
`ResourcesReturn`): temporal reasoning with `ENABLED` is outside the prover.
The cron search is
checked over bounded inputs, and so is the last part of `UsageReadsRight`, that the export
agrees with the summary (`ExportMatchesSummary`), which sums over a sequence. The type
invariants of the other compositions (`HostsTypeOK`, `TenantsTypeOK`, `ProgressTypeOK`) have no
proof yet.

## 6. Plan

Not modelled: the Better Auth bridge, audit writes, read-only summaries of
reliability, model connections and adapters (requests to a provider and the
translation of their answers), tools and connectors (they perform the effects whose
order `Runner` models), the in-memory twin of the automation store, and the web
console. SQL text, HTTP framing, encryption and formatting are left out everywhere.
