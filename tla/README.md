# Xroga backend: a TLA+ verification project

Xroga (`backend/`, TypeScript on Node, with its durable state in Postgres functions under
`supabase/migrations/`) turns a prompt into a software project: a *run* plans a task graph, calls
models, edits a working tree, validates and repairs it in sandboxes and browsers, and publishes to
GitHub or a host. This directory holds TLA+ models of the parts of that program whose correctness
depends on order, failure and concurrency, TLC configurations that check them on small instances,
and TLAPS proofs of the properties that matter most.

All paths below are relative to `backend/src/` unless they begin with `supabase/`.

## 1. Inventory of the system

| Component | State it keeps | Operations | Talks to | What is hard | What makes it correct |
|---|---|---|---|---|---|
| Browser job admission (`workers/admission.ts`) | counters and per-tenant queues of one API process | acquire, abort, release, dispatch loop | browser capability | aborts racing grants, double release, tenants competing | counters agree with jobs, caps hold, FIFO per tenant, no starvation |
| Worker task lease (`workers/leaseStore.ts`, `postgresLeaseStore.ts`, `worker_lease_*` SQL) | one row per (tenant, run, task): worker, fencing token, expiry, held | acquire, renew, release, check | browser task handler, coordinators | clocks, stalls past expiry, late renewals and releases, two sessions in one worker | one holder, tokens never repeat, a lost lease stays lost |
| Execution scheduler (`ai/executionRuntime.ts`), recovery (`synthesis/reliability/canonicalResume.ts`), checkpoint fence (`persist_execution_checkpoint_attempt`) | task graph in memory and in `execution_runs`; authority in `swarm_runs` | run, execute, save, recover | run store, task handlers | crash between effect and checkpoint, stale attempts, a resume that loads before it claims, cancellation racing results, retries | effects at most once and outcomes that stick, but behind a resume with an outdated graph; every run ends |
| Universal execution (`synthesis/universalExecution.ts`, `universalCanonicalTasks.ts`) | phases of a build run, each a canonical task in the same checkpoint | implementation, validation, repair, review, publish | scheduler, sandbox, GitHub writer | resume in the middle of a phase, repair after failed validation, publishing what was reviewed | published files are the validated ones, and reviewed; one attempt publishes, once unless it failed, but behind a resume with an outdated graph |
| Run store and reconciler (`ai/runStore.ts`, `ai/runReconciler.ts`, `persist_swarm_run_attempt` and `heartbeat_swarm_run` SQL) | `swarm_runs`: status, worker, lease generation, heartbeat, event sequence, output; a record of the run in each process | create, load, claim, append, complete, fail, cancel, reconcile, shut down | every executor | slow worker declared lost, snapshots lost and overtaken, resume racing an end, end in memory before it is written | one request resumes from an end, a completed run is final and its own, a resume keeps the artifact |
| Browser run (`workers/browserTaskHandler.ts`, `browserCapability.ts`, `browserRunStore.ts`, `browserRunDispatch.ts`, `supabase/migrations/20261026100000_browser_runs_durable.sql`, `routes/browserRuns.ts`) | `browser_runs` rows, artifacts on the tenant's drive | create, dispatch, execute, cancel, recover | lease, admission, drive, worker container | lease lost between check and write, cancel racing completion, duplicate dispatch | evidence written by the holder only, terminal states are final |
| Google canonical delivery (`supabase/migrations/20261026000000_google_canonical_deliveries.sql`, `workers/google*.ts`, `scripts/runCanonicalWorker.ts`) | delivery rows, the queue's tasks and their names, launches, jobs | enqueue, dispatch, reserve, launch, record launch, claim, end, record result, reconcile, cancel | Cloud Tasks, Cloud Run jobs, run store | at-least-once delivery, names kept by the queue, lost or late launches, a resume beside an old job | the old request never gets a worker, one fresh start, launches within the capacity, no request runs for ever |
| Tenant drive storage (`storage/storageService.ts`, `storage/postgresRepository.ts`, `supabase/migrations/20261022000000_storage_drive_foundation.sql`) | objects, reservations of quota, usage, bytes at the provider | initiate, upload, verify, admit, delete, reconcile, expire | object store, signed URLs | every call of a request may be its last, reservations that expire while an upload is verified, two verifications of one object | what is ready is paid for and there, the quota holds, nothing stays half done |
| Engineering resource ledger (`ai/resourceLedger.ts`, `ai/resourceMeter.ts`, `supabase/migrations/20261029100000_engineering_resource_ledger.sql`) | reservations and settlements per owner and window | reserve, settle, release, expire, purge | executor, providers | settle racing expiry, purge against window | limits hold, a settlement counts once |
| Provider, guest, voice and web budgets (`ai/providerBudget.ts`, `ai/voiceBudget.ts`, `ai/parallelDispatch.ts`, `ai/guestBudget.ts`, `ai/webBudget.ts` and the `*_xroga_provider_budget` SQL) | billing cycles with counters, one reservation per provider call, ceilings of admitted operations actions | reserve, send, settle, release, hold; pay, renew, unlock | model, web and voice providers, billing, operations | a call that failed after it was sent, an answer that is lost, a cycle replaced under a call | counters agree with calls, no entitlement or ceiling is exceeded, what was spent is never given back |
| Operations centre (`operations/operationsService.ts`, `operationsEngine.ts`, `*_operations_*` SQL) | actions, approvals, claims, evidence, target versions | request, confirm, decide, claim, effect, complete | providers, GitHub, budgets | a claim that ends under a slow provider, an approval or a role that ends after the claim, calls that arrive late | what is recorded was done once, by the last attempt, from the approved version |
| Billing and usage (Whop and Stripe webhooks, `BillingService`, usage accounting SQL) | subscriptions, credits, event ids | webhook, grant, debit | payment providers | duplicated and reordered webhooks | one grant per event |
| Project and file state (atomic project SQL, `builder/*`) | project rows, file versions | create, save, rename, export | editor, GitHub | concurrent edits, partial saves | versions are consistent |
| Existing-source change (`existingSource/*`) | change sets over an imported repository | import, analyse, propose, apply | GitHub, sandbox | stale base commit | a change applies to the commit it was made for |
| Sandboxes (`sandbox/*`, `sandbox/google/*`) | sandbox sessions, admission slots | create, execute, stop, reap | Cloud Run, workers | orphaned sandboxes | every sandbox is stopped |
| Sign-in and connections (`oauthPkceStore`, `vercelAuth`, tenant context, `security/*`) | one-time states, tokens | begin, complete, refresh | identity providers | replayed or expired state | a state is used once, by its owner |
| Live preview and project runtime (`synthesis/livePreview`, `synthesis/projectRuntime`) | preview processes | start, proxy, stop | sandbox | orphaned previews | a preview belongs to one project version |
| Growth, community, organic intelligence, capabilities (`growth/`, `community/`, `organicIntelligence/`, `capabilities/`) | content and suggestion rows | create, publish, moderate | models, the database | mostly request/response | publication only after approval |
| Frontend, mobile and deploy (`frontend/`, `deploy/`, `.github/`) | UI state, images | rendering, packaging | the API | outside the backend's protocols | not a subject of TLA+ models |


## 2. Modules

| Module | Models | Uses |
|---|---|---|
| `Admission` | `AdmissionController` | |
| `FencedLease` | what a lease promises, without clocks or rows | |
| `WorkerLease` | lease rows, sessions and the database clock | implements `FencedLease` |
| `ExecutionScheduler` | the scheduler over every attempt of a run, the checkpoint fence, interruption and resume | |
| `ExecutionSchedulerProofs` | proofs about `ExecutionScheduler` | `ExecutionScheduler` |
| `UniversalRun` | the phases of `executeUniversalRun` and their canonical tasks, over every attempt of a run | the scheduler's protocol for one task, seen from outside |
| `UniversalRunProofs` | proofs about `UniversalRun` | `UniversalRun` |
| `BrowserRun` | a durable browser run: dispatch, executors, cancel, handler, evidence | two leases as `FencedLease` promises them |
| `BrowserRunProofs` | proofs about `BrowserRun` | `BrowserRun` |
| `SwarmRun` | a row of `swarm_runs` and what the database does to it: fenced writes, heartbeats, ends | |
| `RunStore` | one run, the processes that create, resume, work on and cancel it, and the reconciler | `SwarmRun` |
| `RunStoreProofs` | proofs about `RunStore` | `RunStore` |
| `CanonicalDelivery` | builds on background workers: admission, queue, dispatcher, launches, jobs, reconciliation | `SwarmRun` |
| `DriveStorage` | uploads, verification, deletion and reconciliation of a tenant's objects, call by call | |
| `DriveStorageProofs` | proofs about `DriveStorage` | `DriveStorage` |
| `OperationsAction` | an operations action from request to recorded outcome | |
| `OperationsActionProofs` | proofs about `OperationsAction` | `OperationsAction` |
| `ProviderBudget` | what a user's provider calls reserve, spend and give back, over billing cycles | |
| `LimitsProofs` | proofs about limits shared by many callers | `Admission`, `ProviderBudget` |
| `WorkersProofs` | proofs about who works on what | `WorkerLease`, `CanonicalDelivery` |
| `MCAdmission`, `MCWorkerLease`, `MCExecutionScheduler`, `MCUniversalRun`, `MCBrowserRun`, `MCRunStore`, `MCCanonicalDelivery`, `MCDriveStorage`, `MCOperationsAction`, `MCProviderBudget` | constants for TLC | the module they are named after |

How the modules fit together: `BrowserRun` uses a lease the way `FencedLease` describes it
(`holder[k]` is the current session, `Expire` its end), and `WorkerLease` is shown to implement
`FencedLease`. `UniversalRun` and `BrowserRun` run one task at a time, so they keep of the scheduler
the sequence of its writes and its verdicts; `ExecutionScheduler` has the loop, the batches and the
graph. `RunStore` and `CanonicalDelivery` act on the same kind of row, which `SwarmRun` defines once: the
first from the side of API processes with their records and snapshots, the second from the side of
jobs that a queue starts. `ExecutionScheduler`'s and `UniversalRun`'s `Interrupt` and `Claim` are, seen from the checkpoint, what
`RunStore`'s `Reconcile` and `Claim` are to the row, and their `Adopt` is `CanonicalDelivery`'s `Claim`. `OperationsAction` decides who may call a model for an admitted
action, `ProviderBudget` what that call may cost. Each definition names the code it stands for in `PROJECT.json` (`map`).

`LimitsProofs` and `WorkersProofs` each extend two components that have no state in common. For that reason the specification,
its parts and the type invariant of `WorkerLease` and `ProviderBudget` carry a prefix (`LeaseSpec`, `BudgetSpec`, ...).

### Admission

`running`, `runningTotal` and `queuedTotal` are the controller's counters and are changed where the
code changes them; `status[j]` is what caller `j` sees. Keeping both lets them disagree, and
`CountersAgree` says that they do not; the run checks it together with the limits (`SlotsAccounted`). A waiter's `seq` is used for its order only, so the model keeps
`ahead[j]`, the waiters that were there before it. JavaScript runs a call to completion: `#dispatch` is a loop inside
`release`, so one iteration is a step (`DispatchGrant`, `DispatchEnd`) and nothing else happens while
`dispatching` holds. A caller may submit again after its job has ended.

### WorkerLease and FencedLease

`rows[k]` is the row of a task (worker, token, the time left until `expires_at`, held), `lease[s]` what
a session was given and may use long after. Expiry is a `Tick` of the database's clock. Acquire, renew,
release and check are the four SQL functions, which the in-memory store repeats. `FencedLease` knows holders and
tokens only: `Grant` needs a key without a holder, `End` takes holders away. In the refinement mapping
a key's holders are the sessions for which `worker_lease_check` answers "ok"; a tick that lets several
leases expire at once maps to one `End`.

### ExecutionScheduler

`row` is the checkpoint, `authority` the attempt named by `swarm_runs.lease_generation` while the run
is running, `mem[g]` the graph in the process of attempt `g`, `phase[g]` its place in `run()` and
`pc[g][t]` the place of task `t` in `execute()`. Every `await` on a write is a step that may be
accepted, be refused by the fence, or fail with or without having reached the database; after a failure
the queue of that attempt is poisoned (`broken`). `Interrupt` is the run's row leaving "running" while
its process is dead, slow or still at work. A resume is two steps, in either order. A direct request
loads the checkpoint and only then claims the run (`Load`, `Claim`: `pipeline.ts:1197` and 1233); in between the attempt
before it, or several, may checkpoint more and be interrupted. The claim may also be refused (`Refuse`). A queued one has the
run before its pipeline loads (`Adopt`, `Load`). `Recover` is the translation of `recoverCanonicalExecutionStateForResume`; the code calls
it on the loaded graph after the claim (1396), and since nothing changes that graph in between, `Load` applies it at once. An
attempt writes its graph whole first (`Begin`; `pipeline.ts:1514`), whatever the row has. History: `effects` counts, per attempt,
what a task did outside, and `outdated` has the attempts that claimed the run with a graph that was not the row's any more; no
action reads either.

### UniversalRun

An attempt is a phase (`pc[g].at`) and the step of the task that phase runs (`enter`, `start`,
`handler`, `committed`, `finish`, `return`). `files[g]` is the local variable `files`, `mem` and `row`
the tasks. Attempts take the run as in `ExecutionScheduler` (`Load`, `Claim`, `Adopt`, `Refuse`, `outdated`), and the first write of
a resumed one is that of its engineering pass (`Engineering`). A file set is a model value; validation, review, repair and publishing answer
nondeterministically. `log` records what the adapters were asked for and did, per attempt: the
properties are about it.

### BrowserRun

`row` is the single task of the run, from which its status follows. The queue is `tasks` and `named`
(the task name of the current dedupe window), the two leases are `holder`, the executors `pc`, `mem`,
`abort` and `next`, the tenant's drive `copies`. An executor reads the row, takes the execution lease,
reads again, recovers, runs the scheduler's loop and the handler, which takes the task lease, checks its
authority before every step that matters and stores one artifact at a time. `Fault` counts crashes,
stalls, lost tasks and failed calls.

### SwarmRun and RunStore

`row` is the row of `swarm_runs`. A request is an attempt to be: it loads the checkpoint, reads the row
(`Read`, which keeps `seen`), claims it by the conditional update of `resumeRunDurable` (`Claim`), and then
works with its own record of the run. `net` holds the snapshots on their way: a timer's, or the one that an end
flushes; each may be refused by the fence of `persist_swarm_run_attempt`, be lost, or be overtaken. A
cancellation ends row and record; the reconciler and a shutdown end the row only, and the record goes on.
`completed_at` is a number that tells moments apart, since the claim compares it. The in-memory events
and the artifact are a counter (`seq`) and the number of the attempt the artifact is of (`out`).

### CanonicalDelivery

`del[d]` is a row of `google_canonical_deliveries`, `task[d]` the queue's task (the queue keeps the name of what it
delivered), `launcher[d]` the dispatcher's calls that have reserved a launch and not yet reported it, `job[j]` a
process of the worker. A resume supersedes the delivery of the request before it; tasks, launches and jobs of
the old one stay around. A launch lease may end while its job is starting; a heartbeat may stop and
come back (`"again"`), which is the one way by which more workers live than the capacity.

### DriveStorage

Per object: `state` is the row's state, `hold` its reservation, `bytes` what the provider has. `at[p]`
is the call that process `p` makes next; between two calls anybody may act. `Moves` is the conditional update
of `updateObject`. The quota's counter is the sum of the reservations, because each function of the
database changes both in one transaction. There is no clock: what has a time may be past it at any moment.

### OperationsAction

Per action the columns of its row, the claim (`lease_owner` and whether it has ended), the approval and the target's
version. A request reads (`Execute`), claims, makes the effect and completes, each a call. The call that
makes an internal change is put in `sent` and carried out later or never, whether or not somebody waits
for the answer; the transaction checks membership, approval, claim and version again. External
adapters answer something. `changes` records what was changed, for the properties.

### ProviderBudget

`cycle[k]` is a row of `xroga_billing_cycles`, `open` what the current one has unlocked, `res[c]` the
reservation of call `c`. `at[c]` is the place of the process: asking for a reservation, asking for the free cycle,
ready, on the wire, settling, holding or releasing. Model calls may be sent twice by the SDK. The kind
of a failure decides between hold and release for model and web calls, and is a free choice in the model; a voice call
goes by what it has sent. `late[c]` holds requests to the database that nobody waits for any more.

## 3. Runs

| Run | States | What it shows |
|---|---|---|
| `admission` | 30,535 | counters agree with jobs and limits hold, per-tenant order, no idle slot beside a waiter, under every interleaving of acquire, abort, release and repeated release; no waiter starves |
| `worker_lease` | 12,392 | one holder, a current lease is taken by nobody's late call; the rows implement `FencedLease` |
| `scheduler` | 238,040 | over two attempts, the second loading its checkpoint before or after it claims the run: a publish runs at most once, handlers build on durable results and outcomes are not rewritten, each unless the claim came with an outdated graph; mutations run alone, attempts stay within the policy, nothing interruptible completes after an abort, run() ends with every task terminal |
| `universal_run` | 1,560,576 | an attempt publishes only files it has validated and a reviewer approved; one attempt publishes at a time, again only after a publish recorded as failed, and there is one implementation per run, each unless a claim came with an outdated graph |
| `browser_run` | 505,209 | a completed run has its evidence, outcomes stay, a cancelled run does not complete, no browser starts for an ended run, every run ends |
| `run_store` | 1,344,362 | one request resumes from an end of the run, a row says "complete" only of the attempt that completed it, a completed row and the events of any row stay, a resume keeps the artifact |
| `delivery` | 1,438,701 | an old request never gets a worker, a run begins afresh once, launches stay within the capacity, a recorded result is the completed run's |
| `delivery_settles` | 132,673 | no request stays "running" for ever, whatever the queue, the launches and the jobs do |
| `drive` | 400,330 | what is ready is paid for and there, the quota holds although reservations are lost and taken again, what a process leaves is settled |
| `operations` | 742,542 | what is recorded was done, once, by the last attempt, on the approved version and while the approval held |
| `provider_budget` | 1,735,074 | a cycle's counters are those of its calls, entitlement and ceiling hold, what was spent is never given back |

The run `universal_resume_blocked` looks for the violation of a sentence the repository says of itself
and finds it (section 6).

Each module has a `TypeOK`. It is not a property by itself: it is a conjunct of one of the module's
invariants (`AttemptsWithinBudget`, `OnePublisherUnlessOutdated`, `CompletedHasEvidence`, `RowTruth`, `CapacityKept`, `QuotaKept`, `RecordIsTrue`, `CyclesAgree`),
and part of the inductive invariant of every proof. In `ProviderBudget` it is called `BudgetTypeOK`, in `WorkerLease` `LeaseTypeOK`;
the latter and that of `Admission` are in no property a run checks, and each is stated by a theorem (`TokensNeverRepeat`, `TypeCorrect`).

### Bounds, and why they are enough

- `MCAdmission`: three tenants with three, one and two callers on three slots, two slots per tenant,
  two waiters per tenant and two in all. Every limit can be reached by itself, and one tenant can wait while
  two others come back again and again.
- `MCWorkerLease`: two tasks and three sessions, two of them in one worker process; lease times of one
  and two ticks, so that a renewal may shorten a lease too. Nothing else bounds it: a session asks once
  for a lease, as a handler invocation does.
- `MCExecutionScheduler`: a read that may be tried twice, an implementation that is a mutation, both ready at
  once, and a publish that needs both, over two attempts (`MaxGen`), the fewest with a stale one beside
  its successor. The second attempt has no handler for the read, as the engineering pass of a resumed run has
  none for most tasks.
- `MCUniversalRun`: the project's own file set and a generated one, since all properties compare two file sets at
  most and a repair may return either. Two attempts (`MaxGen`): the first runs, the second loads at any time. Only the first is
  aborted (`Abortable`), because what an abort leaves behind is for the next attempt to find; without this bound the run has 3,571,326
  states and takes too long to be repeated at every change. The inductive invariant was tried on random behaviours of four attempts as well.
- `MCBrowserRun`: two executors, two artifacts, two attempts of the task, two queue tasks at a time and
  two faults of any kind (`MaxFaults`). Two faults are what it takes to stall an executor twice or to stall
  one and lose the task of the other. No symmetry, because the run checks liveness.
- `MCRunStore`: three requests on two interchangeable processes: one that creates the run and two that
  resume it, so that one may come and go between another's read and its claim; only the last records
  events, two of them, so that a snapshot can be overtaken. Two snapshots in flight.
- `MCCanonicalDelivery`: two runs compete for one launch; two deliveries, two launches of each, two jobs.
  Two deliveries are a request and its resume, or two runs. The liveness run has one run, because
  its graph of two does not fit in five minutes.
- `MCDriveStorage`: two objects, a quota of one, one client beside the sweeper, one fault. The second object is
  what takes the room of an expired reservation.
- `MCOperationsAction`: one action at a time of each kind in `operationsEngine.ts` (confirmation, approval, internal or
  external, one or two attempts), three people (who requests, who approves, somebody else), two requests
  that execute, two versions of the target beyond the first. The two requests and the two other people are interchangeable.
- `MCProviderBudget`: two calls of an admitted action whose ceiling is one of them, and a voice call; two cycles, free
  with a limit of 1 or paid with a limit of 2, each call reserving 1 and costing up to 2, one unit
  more than reserved; two faults, so that a settlement and the hold that follows it may both get no answer. The two
  calls are interchangeable.

Where `CHECK_DEADLOCK FALSE` is set the program stops on purpose: a run ends. `Admission` and
`WorkerLease` never stop, and TLC checks that.

### Fairness, and why the code justifies it

- `Admission`: a job that runs ends, and its caller releases in a `finally`
  block; strong, because `Release` is disabled while `#dispatch` runs. The dispatch loop goes on.
  Nobody is obliged to submit or to abort.
- `ExecutionScheduler`: a living process makes progress. Writes are answered or time out,
  handlers and adapters run under deadlines, backoffs elapse. Weak fairness of `Work(g)` promises no particular
  outcome, and `Crash` stays possible everywhere.
- `BrowserRun`: as above for executors; the queue delivers what it holds, leases and dedupe windows end with time
  (an expiry that is no fault), stopped instances are replaced, and Cloud Scheduler calls
  the sweep. A task may still be lost, an executor stall or crash, within `MaxFaults`.
- `CanonicalDelivery`: heartbeats of a worker that is gone lapse with time, the maintenance tick reconciles, and a
  job's pipeline ends (the job has a deadline of 55 minutes) or its process dies. Nothing is assumed of the queue, the dispatcher
  or the launches: a run that gets no worker is ended as never started.
- `DriveStorage`: a process makes its next call or fails, and a pass of the reconciliation takes every object that is
  due; strong per object, because the sweeper is busy with others in between. Faults are finitely many (`MaxFaults`).

The other modules check no liveness: `UniversalRun` because a run that is interrupted may never be resumed, `RunStore`,
`OperationsAction` and `ProviderBudget` because nothing in them is obliged to come back.

## 4. Proofs

TLAPS proves, for all values of the constants that satisfy the named assumptions:

| Theorem | Module | Says |
|---|---|---|
| `TypeCorrect`, `CountersCorrect`, `CapsRespected`, `SlotsAlwaysAccounted`, `WaiterNeverBesideFreeSlot`, `TenantOrderKept` | `LimitsProofs` | the safety properties of run `admission`, with type correctness |
| `CountersAreTheCalls`, `SpendingBounded`, `SpentStaysHeld`, `EntitlementRespected` | `LimitsProofs` | the properties of run `provider_budget`, and by itself the part about entitlements |
| `TokensNeverRepeat`, `OneHolderCorrect`, `LostStaysLost`, `CurrentLeaseIsKept`, `ImplementsFencedLease` | `WorkersProofs` | the safety properties of run `worker_lease`, the refinement, and that no token is given twice and no lost lease comes back |
| `OldRequestsStayOut`, `FreshStartsOnce`, `CapacityHolds`, `ResultsStand` | `WorkersProofs` | the safety properties of run `delivery` |
| `PublishedOnceUnlessOutdated`, `BudgetKept`, `HandlersStayIsolated`, `OutcomesStand`, `NothingCompletesAfterAbort` | `ExecutionSchedulerProofs` | the safety properties of run `scheduler` |
| `NothingIsStranded`, `BlocksHaveCause` | `ExecutionSchedulerProofs` | what is safety in "every run ends": run() returns only with every task terminal, and a task is blocked for a cause only |
| `OneAtATime`, `RepeatedOnlyForCause`, `ShippedWasChecked`, `AskedOnce` | `UniversalRunProofs` | the properties of run `universal_run` |
| `EvidenceIsThere`, `EndsStick`, `CancelStands`, `NoLateBrowser` | `BrowserRunProofs` | the safety properties of run `browser_run` |
| `RowTellsTruth`, `EachEndHasOneWinner`, `ResumesKeepArtifacts`, `RowsNeverGoBack` | `RunStoreProofs` | the safety properties of run `run_store` |
| `QuotaIsKept`, `ReadyStaysBacked` | `DriveStorageProofs` | the safety properties of run `drive` |
| `RecordStaysTrue`, `LastAttemptReports`, `ChangesAreApproved` | `OperationsActionProofs` | the safety properties of run `operations` |

So every safety property that a passing run checks is also a theorem. Those with `UnlessOutdated` in their name, `RepublishHasCause`,
`OutcomesStick` and the half of `HandlersIsolated` about dependencies except what a resume with an outdated graph
undoes, and nothing else; without the exception TLC finds each violated (section 6). `AttemptsWithinBudget`, `MutationAlone`,
`NoCompletionAfterAbort` and `ShippedChecked` need none. `AttemptsWithinBudget` is about the attempts the row records: those an outdated graph does not
know of are counted by nobody.

**Admission.** Assumed is `AdmissionOptions`: the checks of the constructor and finitely many callers. The inductive invariant is
`TypeOK /\ CountersAgree /\ WaitOrder /\ Counters /\ NoWaiterBesideFreeSlot`. The caps are stated about
jobs but guarded by counters, so `Counters` bounds the counters and `CountersAgree` carries the bound
to the jobs. `WaitOrder` (two waiters are always ordered, and only waiters are ahead of a waiter) is
what makes the oldest waiter of a tenant the one `#dispatch` picks. `NoWaiterBesideFreeSlot`
must be inductive itself: `acquire` admits a newcomer without looking at the queues, which is right for
that reason only. It is suspended while the loop runs, and `DispatchEnd` restores it: the loop
ends when no slot is free or no waiter is eligible. The order property follows from one step of
that invariant: a newcomer admitted beside a waiter of its tenant would contradict it.

**WorkerLease.** Assumed is `LeaseAssumption`: lease times are positive. The inductive invariant is
`LeaseTypeOK /\ TokensUnique`. Who holds a task is decided by comparing tokens, so everything rests on no two
sessions having been given the same one, and on no session holding a token the row has not reached:
`OneHolder` is a consequence, and a token that the row has left behind can never be current again, which is
`NoRevival`. For the refinement, an acquisition maps to `Grant` and a release or a tick to `End` of the
keys whose current session it takes; renewals and refused calls map to stuttering.

**CanonicalDelivery.** Assumed is `DeliveryAssumption`: the bounds are positive numbers. The deliveries of a run are numbered in their order
(`MadeInOrder`) and only its newest is open (`Newest`), so that a claim, a launch or a reconciliation concerns one delivery whichever
the caller had in mind; a job that comes with an older one finds it superseded, which is `OldRequestNeverRuns`. `FreshAlone` says that
a delivery which may still start over has no delivery before it that ever had a worker; `StartsFreshOnce` follows. For the
capacity, `PromptFits` bounds the launches and workers heard of all the time, because the only step that adds one counts all of
them first; a worker that comes back from silence (`"again"`) is the exception `CapacityKept` names.

**ProviderBudget.** Assumed is `BudgetAssumption`: finitely many calls, positive amounts, and a voice call is sent once at most. There are two
invariants. The first is the types, `EntitlementKept` and `CallInv` of every call: where a process and its late requests can
be. A release is on its way only for a call that has spent nothing, a settlement only for a completed call whose cost was
reserved, a request for a reservation only for a call that has not begun; and a process that left something late behind
has ended, or is asking to hold what it could not settle. Without the last part a settlement that arrives late could meet a
released row. The functions of the database get lemmas of their own (`ReserveRows`, `SettleRows`,
`HoldRows`, `ReleaseRows`), used by the step in time and by the late one; each keeps the cycle's counters within its limit,
so `EntitlementKept` comes with the same induction.

The second, `LedgerInv`, is about sums: each counter of a cycle is the sum over its calls (`Books`), the approved calls stay
under their ceiling, and a row is made once (`NotYet`, `OneAsk`: while a request for a reservation is due there is no row, and only one
is due). The library states nothing about folds, so the sum over a finite set is first shown to have a value: `SumOf` unfolds to a
recursive function on sets, the facts needed of it (`SumWith`, `SumWithout`, `SumSame`: putting in, taking out, changing nothing) are
proved by a counterexample that is smallest under inclusion (`SmallestOne`), which the library's theorem about minimal elements
of a well-founded relation gives without an operator parameter.

**ExecutionScheduler.** Assumed is `PlanAssumption`: a task comes after those it depends on, a publish, commit or deploy has one
attempt, and neither of the two operations that recovery replays from a checkpoint of their own is one of these. The inductive
invariant has three parts. A graph is *good* by itself, in the row as in every process: a status from which a task may be
started leaves it an attempt, and what is ready or running has its dependencies. The passes of the loop, the batch and
`Recover` each have a lemma that they keep a graph good, which needs to know of the two recursive walks over the graph (`Doomed`,
`Unlocked`) only that they choose among waiting or blocked tasks. Only the attempt that may write is compared with
the row, and only on what must not change any more: outcomes, and tasks with an outside effect that have *fired*. And a task
that has fired, or whose handler may fire it any time in any attempt, is *spent*: started, and in no status from which it could be started
again. A superseded attempt may fire long after; it is the row that has been spent since its start was written.

An attempt that claims the run with an outdated graph takes this away, and what makes the argument go through is the order in which
attempts take the run (`Order`): whoever does so comes after everybody who has done anything. From its claim on their
work is `Lost`, and a task they fired is not held against the row any more; until its first write (`Rewinding`) its graph is not compared with the row's
outcomes either. After that write it is an attempt like any other, and the row speaks for all attempts that are not lost. Since everyone whose
work is lost is older than the one that began with an outdated graph, any two attempts that both fire a task have one of these
between them, the later included: `Overtaken`.

`NothingIsStranded` and `BlocksHaveCause` need to know what the walks compute. `Doomed` and `Unlocked` are recursive functions
on task ids; that they satisfy their definitions follows from the least id at which they would not (`Least`). Tasks come after
those they depend on, so one walk in their order is enough: after a pass no waiting task has a dependency that can no longer complete
(`PassReachesAll`), and after recovery no task stays blocked by something that was reset (`RecoverReachesAll`). Then a
graph in which nothing is ready, and which nobody executes (`Rested`), has no waiting task left (`NothingWaits`): the least one would
have all its dependencies terminal, so that the pass made it ready or blocked. `FlowInv` carries this through the phases of `run()`.

**UniversalRun.** Assumed is `RunAssumption`: at least one attempt, some file sets, and the project's own is none of them. Attempts claim the run
in order and the one with authority is the newest (`BornInOrder`); what it has in memory is what the row records, up to the task it is
in (`RowInSync`), unless it claimed with an outdated graph and has not written it yet (`Rewinding`). That is how an attempt knows of the ones before it. A publish under way has its start in the row, and the
attempt that now has the authority has made it uncertain, and does not publish (`PubAlone`); two that did publish have a recorded
refusal or an attempt with an outdated graph between them (`PubsApart`, from `PubKept`: what was published, or may have been, is in the row until it is recorded as refused).
An implementation that was asked for is in the row (`ImplOnce`), from where no later attempt asks again. All of this is claimed of attempts whose work is not `Lost`, as above: a resume with an
outdated graph comes after all who published or asked (`LogBorn`, `BornInOrder`). `Checked` and `Reviewed` follow
one attempt's files through its phases: what it brings to the publish was validated as it is, and was approved unless an earlier
attempt got an approval.

**BrowserRun.** Assumed is `BrowserAssumption`: bounds are numbers, and "nobody" is no executor. What an executor's process knows may be
stale in everything but this (`LocalOK`): the artifacts it has passed are stored, and a record that says completed was made when all
were. Neither can be taken back, so a late executor may hold it as long as it likes. Whether its checkpoint is accepted is
up to the fence. `LaunchOK` is what `NoLateBrowser` needs: while an executor that holds the task lease is about to launch, nobody
who holds the execution lease is in a place from which it saves; whoever took that lease meanwhile turns back when it sees who holds the task.

**RunStore.** Assumed is `StoreAssumption`: at least one request, and the null value is no process. A generation is claimed once, so
the completion time of an attempt that another request has claimed never comes back to the row (`SpentOK`): only the attempt it
ended could write it again, and the claim has replaced that one. This gives `OneWinner`. `Agree` says that whatever still tells how an
attempt ended (the row, a snapshot in flight, a request that has read the row, its own process) tells the same; without it a
request could put back an output of the attempt it read that differs from the row's.

**DriveStorage.** Assumed is `DriveAssumption`: a quota and finitely many objects, at least one. A process remembers the step it makes next
and its object, and others work on the object meanwhile. `Sound` is what makes the step right however late it comes: one of four facts
about the object that no step takes away (`Keeps`): it is on its way to be deleted, it is gone, its bytes are written or it is on that
way, it is paid for or gone. The used quota is the number of objects that hold some, so the lemmas about it are about
the cardinality of finite sets.

**OperationsAction.** Assumed is `OperationsAssumption`: the requester is a person and definitions have the shape of the code's. A report may come
from any request that ever claimed the action, so the invariant does not say which request is the last; it says that the changes on record are those
of the evidence (`Recorded`), that evidence is of the last attempt unless one runs (`LastOutcome`), and that the request of an
internal action is never where a success of its own would be reported (`Suits`), because the change and its report are one
transaction. `ChangesAreApproved` follows from the one step that changes a target.

Only model-checked: liveness (`NoStarvation` of `Admission`, `RunEnds` of `ExecutionScheduler` and of `BrowserRun`, `RunSettles` of
`CanonicalDelivery`, `ObjectSettles` of `DriveStorage`), whose proofs need ENABLED and induction over schemes that the available
provers do not have. `NothingIsStranded` proves the part of the scheduler's that is safety: a run that returns has ended every task.

## 5. Plan

The order follows what a fault would cost the user: what is published and executed twice first, what is
counted wrongly next.

1. Done: `Admission`, `WorkerLease` with `FencedLease`, `ExecutionScheduler`, `UniversalRun`, `BrowserRun`, `RunStore` and
   `CanonicalDelivery` over `SwarmRun`, `DriveStorage`, `OperationsAction`, `ProviderBudget`, and the proofs of all their
   safety properties.
2. `ResourceLedger`: reserve, settle, sweep and purge against a window; the guest's budget.
3. The count of a tenant's active browser runs against concurrent inserts (hazard at `browserCapability.ts:170`), with
   several runs in one model.
4. Billing's webhooks against `ProviderBudget`'s cycles; the Builder's projects.

One run per question is kept, a single passing run per module where its bounds allow it, so that the whole
project is checked within minutes.

## 6. Findings

The first is checked by a run (`PROJECT.json` has its lines); the others were met while modelling, and the models behave
as the code does. They are quoted so that a reader of the code can decide which of the two is meant.

- *An interrupted implementation cannot be resumed* (`universal_resume_blocked`). Recovery makes it
  ready, and the engineering pass of the resumed attempt, which has no handler for it, blocks it.
- *A publish that failed may be repeated.* `runTaskOnState` keeps a publish that completed or is uncertain and replaces one
  that failed by a fresh node (`universalCanonicalTasks.ts:791`); a comment at line 579 says that a failed publish must
  never be retried blindly. `RepublishHasCause` allows the repetition by name, because the code does it.
- *An approval is reused for other files.* A resumed attempt repairs the files after a failed validation and goes by the
  review of the earlier attempt (`universalCanonicalTasks.ts:777`, against 550). `ShippedChecked` says what is left.
- *A browser failure is answered with an old repair.* Both repairs have the same task id, and a completed task
  returns its old output (`universalExecution.ts:653`, against 630).
- *A late worker can store an artifact.* The write to the drive is not fenced by the lease that is checked before it
  (`browserTaskHandler.ts:230`, against 11). The run's outcome is safe (`OutcomeSticks`): its checkpoint is fenced.
- *A resume may work from an older checkpoint, and repeat what it does not show.* A direct resume loads the checkpoint at
  `pipeline.ts:1197`, awaits a database check at 1206 and claims the run at 1233. The claim (`runStore.ts:518-543`) compares columns of
  `swarm_runs`, none of which says which checkpoint was loaded, and the graph is not loaded again: 1395-1397 recovers the old one,
  1514 and 1526 write it over the row under the new authority. An attempt that was still at work at 1197 and was ended
  before the claim has checkpointed more. Its outcomes are rewritten, its implementation is asked for again, and a publish it started
  or completed can be done a second time, even while the first is under way. `runReconciler.ts:44` promises "its latest durable
  checkpoint", and `canonicalResume.ts:71` says "External/uncertain side effects are intentionally NOT replayed." Both models have this; the properties
  that would forbid it name it as their one exception (`outdated`), and TLC gives a counterexample to each when the exception is taken out.
- *An interruption drops the artifact.* The reconciler replaces the output of the row it ends (`runReconciler.ts:109`),
  although the message at 47 says that the evidence was preserved. `ResumeKeepsArtifact` holds of what the row has after that.
- *Bytes of a deleted object may stay counted.* A process that stops between marking the object DELETED and freeing its
  bytes (`storageService.ts:564-565`) leaves them committed: reconciliation lists DELETING objects only, and the repair of the
  counters sums the reservations. `20261022000000_storage_drive_foundation.sql:203` says "Free committed bytes when an object
  reaches DELETED." A verification that commits after the deletion has freed leaves them too.
- *Going back to the balanced pace keeps what Full Access unlocked.* `20260824181000_*.sql:1-3` says that it "must also
  remove the accelerated allowance"; the later `20260910090000_*.sql:88` keeps it, as does the in-memory store. `Unlock` is
  never undone in the model.
- *A hold may be released although something was sent.* When the first request of a model call gets no answer and the SDK's
  second is denied before it is sent, or is refused with 401 or 429, the failure's kind makes `finishFailedProviderReservation`
  release; `modelRedirectFallback.security.test.ts:29` says of dispatched bytes that they "retain their conservative hold until
  reconciliation". Conversely a cancellation before anything was sent holds. Hence `SpentIsHeld` speaks of completed calls and of voice.
- *Nothing reconciles what is held.* Reservations that stay reserved or pending take from the entitlement until the cycle
  ends (`docs/xroga/ACTIVATION_CHECKPOINT.md:47` lists it as open).

## 7. What is not modelled, and why

- `ExecutionScheduler` and `UniversalRun` have load and claim of a resume, but not the columns of `swarm_runs` that `resumeRunDurable` reads
  and compares in its claim: any request may claim a run that does not run, and fail at any time before. Which of several does is `RunStore`'s.
- The write of a task in `ExecutionScheduler` is that of its own record. `save` clones the whole graph when it is
  called; the records of the other tasks in the clone are written by their own saves, in the same order.
- The status column of a checkpoint, derived from the task statuses (hazard at `executionRuntime.ts:203`).
- `UniversalRun`: what precedes the first task (routing, specification, security controls, acceptance criteria: pure functions),
  the retries of validation and review by the scheduler, which repeat the same call, and absent adapters, for
  which one that does nothing stands.
- `BrowserRun`: the plan and its parser, the denial of a stored specification, the in-memory store,
  the count of a tenant's active runs (hazard at `browserCapability.ts:170`), and the admission slot
  a handler waits for, which `Admission` models by itself. The token numbers of its leases are `WorkerLease`'s.
- `RunStore`: the contents of events and output, the iteration count, the in-memory store of development, runs without a durable
  store. `CanonicalDelivery`: the sizes and digests of payloads, the API's own idempotency record, the purge of old rows.
- `DriveStorage`: the parts of a multipart upload, migration ingest, retention, READY objects found missing or corrupt, orphan keys,
  the repair of drifted counters, sizes other than 1.
- `OperationsAction`: what the five adapters do, incidents and observations, rollbacks as actions of their own, and what the status of the
  target permits (left open).
- `ProviderBudget`: the guest's budget, the telemetry of web calls (`webBudget.ts`), amounts and prices, the in-memory store, the
  safety hold column, which nothing writes, and cycles that are paused or past due. The status an operations call needs
  when it reserves is `OperationsAction`'s. What is held is never reconciled, because no code does it.
- The build pipeline outside its engineering pass and most of the frontend have no protocol of several actors to
  check, which is why the modelled share of the repository's lines stays small: its bulk is pages, prompts, catalogues
  and request handlers over rows.
- The components of section 1 without a module: planned in section 5, or without a protocol of several steps
  (`PROJECT.json` has the reason for each).
