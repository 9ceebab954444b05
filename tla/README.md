# Verification of My-Researcher's experiment execution

TLA+ models of the part of My-Researcher that plans, starts and runs
experiments: the spine that admits revisions and carries their events between
two domains, the starts of runs, the workers that drive a provider, and the
coordinator that walks a run through its slots. TLC checks instances of them,
and TLAPS proofs establish their main guarantees for any number of branches,
runs, attempts, workers, relays, callers and retries.

## 1. The system

My-Researcher is a local-first desktop assistant for paper engineering: a
Fastify backend (`apps/backend`), an Electron/React client (`apps/desktop`),
shared JSON contracts (`packages/shared`) and a Prisma schema. Most of the
backend validates, hashes and stores documents; a smaller part is concurrent,
durable and long-running. That part is what this project is about.

### Inventory

| Component | State it keeps | Operations | Interacts with | What is hard | What makes it correct |
|---|---|---|---|---|---|
| **Integration relay and experiment spine** (`experiment-v2-integration-relay-*.ts`, `…-admission-service.ts`, `…-head-service.ts`, `…-materialization-service.ts`, `…-acknowledgement-service.ts`, `…-closure-v2-service.ts`, the two Prisma spine repositories) | branches, admitted revisions, frozen runs, the closure of the cycle, an outbox and an inbox per domain | admit, drain, materialize, advance head, acknowledge, evaluate readiness, close, revoke | two domains that talk through outboxes only | redelivery after a crash between consumer commit and mark; a relay that lost its lease; admissions and the closure between a consumer's read and its commit | each effect once and in order; the head is the newest revision; nothing happens after the closure |
| **Provider-command store** (`repositories/*experiment-foundation-execution-v2*`) | attempts (state, version, external reference), an append-only event log, commands with leases, collections | start, claim, heartbeat, commit outcome, release, terminalize, enqueue, prepare collection, complete collection | called by workers and service; each call is one transaction | leases that run out, compare-and-swap on stale snapshots, sequence numbers read earlier | one transition per outcome, log = history, cancel beats success |
| **Execution control service** (`experiment-foundation-execution-v2-service.ts`) | none | start, retry, cancel, reconcile, project status | store, closure of the cycle, acknowledged heads | reads, then commits under what it read | exact retry lineages; no attempt after the closure counted none; a cancel is either immediate or durable |
| **Workflow-simulation worker** (`experiment-foundation-provider-command-v2-worker.ts`) | none durable: claimed batch, snapshot, readings | claim cancels, claim progressions, dispatch, commit, race and yield checks, release, terminalize | store, deterministic fake provider, scheduler | anything may happen between two awaits; a throw drops the batch; crashes | implements the lifecycle; never a dead end; every command settles |
| **Real-provider worker and transport** (`…-real-provider-command-v2-worker.ts`, `…-aliyun-real-provider-v2-transport.ts`) | none durable | discovery, CreateJob, GetJob, verified StopJob, watchdog cleanup | store, Aliyun PAI-DLC | lost CreateJob answers, incomplete search, a job that ends by itself, a job that hangs | one billed job at most; outcomes are true of the job |
| **Run coordinator** (`paper-implementation-run-coordinator-service.ts` and its repositories) | the row of a run with its lease, budget envelope and counters; its steps | advance, with raises, overrides and confirm-and-continue | agents behind the slots, decision queue | a slot that outlives the lease, a row read before the lease was held, a crash between a step and its counters | slots in order, a parked decision stands, the budget holds, a terminal run is final |
| **Auto-pull**, **literature backfill**, **full-text acquisition** | runs, jobs, items | schedule, lease, resume | external sources | overlap of runs, retries | not modelled, see section 6 |
| **Topic selection**, **scientific evidence**, **LLM gateway** | documents | derive, rank, call | LLM providers | content, not interleaving | not modelled |
| **Desktop client**, **shared contracts** | view state, schemas | render, validate | backend | – | not modelled |

`PROJECT.json` lists every component with its status, and the hazards at the
line where each one bites.

### How an experiment runs

A caller *admits* a revision of a branch of the validation cycle. The relay
delivers the event to experiment foundation, which *freezes* a run for the
revision; its event comes back and moves the *head* of the branch, unless a
newer revision was admitted meanwhile; the head's event is *acknowledged* on the
other side. Once the newest revision of every branch is acknowledged, an
operator may *close* the cycle.

    admission --WorkOrderRevisionAdmitted--> frozen run --RunManifestFrozen--> head
              --BranchHeadAdvanced--> acknowledgement

The latest acknowledged run of a branch may be *started*: one transaction stores
an attempt for every cell that needs one, each *prepared*, with its `created`
event and a pending `submit` command. Workers claim commands under a lease, call
the provider, and commit an outcome that moves the attempt, logs an event,
settles the command and stores the next one, atomically:

    submit -> sync -> reconcile -> (success, collection prepared) -> collect      simulation
    submit ---------> reconcile -> (success, collection prepared) -> collect      real provider

An operator may cancel or reconcile at any time. A cancel of a prepared attempt
whose submit is pending takes effect on the spot; otherwise it is stored as a
durable command. A cancel of a prepared attempt is not claimable: it waits for
the submit that is in flight.

Beside this, the *run coordinator* advances a paper-implementation run: a caller
takes the lease of the run and works through its slots until one of them waits
for a human, is blocked, or the budget is used up.

## 2. The modules

| Module | What it models | Source |
|---|---|---|
| `RevisionPipeline` | what the spine promises of a revision: the abstract specification | – |
| `ExperimentSpine` | branches, admissions, frozen runs, closure; outboxes and inboxes; admission and closure as read and commit | admission, closure and readiness services, spine repositories |
| `IntegrationRelay` | relays: claim, deliver, the three consumers with their reads and commits, mark, release, terminalize; lost leases and answers, crashes, faults | relay, materialization, head and acknowledgement services, spine repositories |
| `RunExecution` | starts and retries of runs, the ends of their attempts, the closure that counts them, the status projection | execution service, `startExecution` of the store |
| `ProviderCommandStore` | the rows and the transactions of the store | both execution repositories |
| `CommandControl` | claiming, batches, heartbeat, release and terminalization; operator requests; leases that expire; crashes | shared parts of the two workers, execution service |
| `AttemptLifecycle` | what execution promises of one attempt: the abstract specification | – |
| `SimulationWorker` | the simulation worker, the fake provider | `…-provider-command-v2-worker.ts` |
| `RealProviderWorker` | the real worker, the transport, the job, the watchdog | `…-real-provider-command-v2-worker.ts`, transport |
| `RunCoordinator` | one run: its row, steps and lease, and callers at every await of `advance` | coordinator service and repositories |
| `…Proofs` (8) | lemmas and theorems, see section 5 | – |
| `MC…` (5) | instances for TLC | – |

`IntegrationRelay` EXTENDS `ExperimentSpine`. `SimulationWorker` and
`RealProviderWorker` EXTEND `CommandControl`, which EXTENDS
`ProviderCommandStore`.

Three abstract layers compose them. `IntegrationRelay` is shown to implement
`RevisionPipeline`; `RunExecution` uses `RevisionPipeline` as the revisions
behind its runs, so a start races the real order of heads and closure.
`SimulationWorker` is shown to implement `AttemptLifecycle`; `RunExecution` sees
of an attempt only that it is active, succeeded, failed or cancelled, and that a
success prepares a collection that completes later.

### The spine and its relay

**State.** `branch[b]` is the branch row (32-bit state version, current
revision, head); `admissions[b][k]` the revision admitted under business key
`k`; `runs` the frozen runs; `closed` and `revoked` the closure and the revoked
readiness. `outbox[e]` is the relay state of an event with its lease,
`receipt[e]` the inbox outcome of its only consumer. `client[c]` is what an
admission caller read before its transaction, `watermark` what the closing
operator evaluated. Each relay has `pc`, the events it leased (`claims`), the one
it delivers (`handling`) and the branch version its consumer read (`seen`).

**Actions.** A drain claims the PI outbox, then the EF outbox, and delivers one
event after the other: receipt, authority, commit, mark. Each is an await and so
a step. What a transaction does (`Transaction`) and where the relay goes on are
separate, because the answer of a commit that took effect may be lost
(`CommitAnswerLost`). A refusal becomes an `AppError` and terminalizes the row
(`CommitRefused`); anything else releases it (`Fault`); a failing mark or
release leaves it as it was. A receipt is looked up and then inserted, so of two
deliveries of one event that both found none the second either replays or, if its
lookup came first, violates the unique key of the inbox: where a receipt is
already stored both `Commit` and `CommitRefused` are possible. The projection
feed passes that error on unmapped, so its row is released, not terminalized.

**Abstractions.** An event is known by what it announces, since each domain
stores one of a kind per revision; what the code decides by comparing generated
ids is said where it matters (`MaterializationRefused`). The retry delay of a
released row is over when it is read. The reads of an admission before its
transaction are one step: a closure between them is met by the transaction, with
the same answer. `relay_attempt_count`, the
`admissionEnabled` capability, the checks of readiness and bundle *data*, and the
promotion, evidence and attachment events, which use the same outboxes, are left
out. A crash also stands for a drain whose second claim query throws.

### Starts of runs

`lineage[v][cell]` is the attempts of a cell of run `v`, oldest first;
`request[c]` the plan a start has made and not yet committed; `accounting` what
the closure recorded of attempts. `ReadStart` and `CommitStart` make the same
checks (closure, head, shape of the plan) because the code makes them before and
inside the transaction. The readiness of a run's assets may change at any time,
so `EndStart` may end any start. The several reads before the transaction are
one step: each is repeated in the transaction. The expectation of the closing
caller is an input, and only one equal to the recorded accounting passes.

### Attempts, commands and workers

**State.** `attempts[a]` is the row of an attempt (lifecycle state, state
version, whether it has an external reference); `events[a]` its log;
`commands[a][k]` the command with idempotency key `k` (`absent` before it is
stored); `collections[a]` the collection. The keys `submit`, `sync`,
`reconcile`, `collect` stand for `<attempt>:<operation>:1`, the keys of
`CancelKeys` and `ReconcileKeys` for those an operator's business key yields.
`live` says the lease has not expired: the clock is only ever compared with the
lease, so an expiry is an action.

**Workers.** `pc[w]` is the await a worker is at; `batch`, `cur`, `seen`,
`reading` and `intent` are its local variables. Every repository or provider
call is a step of its own. What the code reads *before* a call it commits
*after* it: the snapshot in `seen`, the sequence numbers in `reading`. A refused
commit is a step of its own whose guard says which conflict was raised, in the
order in which the transaction checks them (`CommitConflict`,
`PrepareConflict`, `CompletionConflict`).

**Requests.** `requests[a][k]` holds what an operator request has read, between
its read and its enqueue. The several reads of `cancelExecutionAttempt` are one
step: the enqueue checks the attempt version and the sequence again, so a
request whose reads were torn is refused.

**Abstractions.** Hashes, payloads, schema versions, times, error texts and
stored-row verification are data that no property distinguishes. The limit of a
claim (25) is not modelled: a claim leases every ready command. Where the
in-memory and the Prisma repository name a refusal differently the model
follows Prisma, the one production uses. Attempt counts equal lease versions
(both start at zero and only a claim moves them), so `lease` stands for both.
The code's 32-bit guard on versions and leases cannot be reached in the steps an
attempt can make (bounded by the claims before a fault is final).

### The run coordinator

`row` is the row of a run (status, envelope, the cached counters, lease holder
and whether the lease lives); `steps` its persisted steps; `local[c]` the
variables of a caller: the status read on entry, the raise it asks for, the
envelope, the counters and the steps it knows, the result of its slot. Every
write of the row carries the whole row as the caller knows it (`Known`), fenced
on the holder (`Mine`); the insert of a step is not fenced. `Enter` is the way
into the loop (lease, raise, steps, acceptance of a decision), `Loop` a pass
through it, `Fail` what happens when a write is fenced out or fails, or a read
fails.

**Abstractions.** What a slot computes is its outcome and the provider calls it
spent. `blocked` stands for `failed_runtime`, which is treated alike. An override
of payloads is a raise to the same envelope. The decision queue is an await.
Callers have distinct holder ids, as generated ids are. The insert of a step is
assumed to follow the heartbeat before it within the ten minutes of the lease
(`LeaseExpires`): the code relies on that too, its comment at
`paper-implementation-run-coordinator-service.ts:1138` says the heartbeat closes
the window. The check that the project is active and the validation of payloads
refuse an advance before it does anything and are left out.


## 3. The runs

| Run | Instance | Checks |
|---|---|---|
| `simulation_core` | 1 attempt, 2 workers, 1 cancel, 2 claims before a fault is final, 1 late lease | types, cancellation and its inductive invariant, event log, exactly-once outcomes, no dead end, finality, refinement of `AttemptLifecycle` |
| `simulation_liveness` | 1 worker, 1 cancel, 1 manual reconcile, 1 claim before a fault is final, 1 late lease, 1 crash, fair | success and collection are one fact; every attempt ends, every command settles |
| `real_cancel` | 2 workers, 1 cancel, 2 claims, 1 late lease, 1 crash, 2 polls | types, one job, true outcomes, event log, exactly-once outcomes, finality |
| `real_liveness` | 1 worker, 1 manual reconcile, 2 claims, 1 late lease, 1 crash, 3 polls, fair | no dead end; every attempt ends, even if its job hangs |
| `relay_core` | 1 branch, 2 revisions, 2 keys, 1 caller, 2 relays, batches of 2, 1 disturbance: a late lease, a crash, a lost answer or a serialization failure | effects once and in order, durable receipts, a complete and sealed closure, refinement of `RevisionPipeline` |
| `relay_liveness` | the same with 1 relay, a branch version that can run out (at most 3), and a fault or a revoked readiness as further disturbances, fair | types; only obsolete events are given up, every event settles, the newest revision arrives |
| `run_execution` | 1 branch, 2 revisions of 2 cells each, 2 keys, 2 callers; run 1 is executable with a ceiling of 2 attempts, run 2 a simulation with a ceiling of 1 | types and ceilings, retry lineages, the accounting of the closure, superseded runs, final verdicts |
| `run_coordinator` | 2 callers, a lane of 2 slots, the second a decision, an envelope that grows from 2 to 3 steps and calls, slots that spend 0 or 2 calls, 1 disturbance | types, order of slots, parked decisions, budget, raises, terminal runs |
| `simulation_orphan` | 2 workers, 1 cancel, 1 late lease | a disagreement, section 4 |
| `real_deferred_cancel`, `real_cancel_race` | 1 worker, 1 cancel, no late lease | disagreements, section 4 |
| `relay_redelivery` | 1 revision, 2 relays, 1 late lease | a disagreement, section 4 |

**Bounds, and why they are enough.**

* *Workers.* `MaximumCommandAttempts` (the code's `maximum_command_attempts`)
  is 1 or 2: the code only compares it, so 2 has a retry that may be repeated
  and a retry that is final. `MaxLateLeases` bounds how often a worker is
  slower than its lease *while it still uses it*: one is enough to have an old
  owner and a new owner of the same command in flight with both orders of their
  answers; the leases of commands nobody processes expire without a bound.
  `MaxCrashes` is 1: a crash leaves nothing but claimed commands, which the
  expiry of abandoned leases covers again and again. `MaxPolls` caps the leases
  at which a watchdog deadline has not passed yet, so polling a running job is a
  finite loop. Two workers suffice for owner and usurper; attempts share no row
  and meet only in a batch. One cancel key is enough for a stored intent; a
  second one would be a second identical command.
* *Relay.* Branches share only the closure, and every guard about a branch
  names one, so one branch has the races; the theorems hold for many. Two
  revisions have an older and a newer one, two keys a replay and a conflict. A
  batch of 2 leaves events leased while another one is delivered. Of the
  disturbances any single one may happen anywhere: two relays with one lost
  lease deliver the same event at once. `MaxCounter` is the 32-bit limit of a
  branch version made small; 9 is out of reach, 3 is not.
* *Starts.* Two cells start together and may end differently; a ceiling of 2 has
  a first attempt and its last retry, a ceiling of 1 no retry; two callers with
  two keys compete, repeat and conflict; of two runs one supersedes the other.
* *Coordinator.* Two slots have a slot before and a slot after; 2 steps are
  less than the lane with one failure needs, so the budget runs out and the
  raise to 3 matters; a slot of 2 calls uses up the envelope at once. Two
  callers are the one that lost its lease and the one that took it.

**Deadlock.** Every one of the systems may stop: when all attempts are finished
and no command is active, all events are settled, or no caller calls. The runs
therefore switch TLC's deadlock check off. What must not happen instead is
stated: `NeverStuck` (an unfinished attempt with no active command that could
move it), `NoLiveEventIsDropped` (an event that still matters and is given up)
and the liveness properties.

**Symmetry** of workers, relays, callers, keys or cells is used in
`simulation_core`, `simulation_orphan`, `real_cancel`, `relay_core`,
`relay_redelivery`, `run_execution` and `run_coordinator`. None of them checks a
liveness property.

**Fairness.** `WF(WorkerStep(w))` and `WF(DrainStep(r))`: the schedulers are
timers that re-arm after every tick, whether the tick succeeded or threw, and
every await returns. `WF(AbandonedLeaseExpires)`: time passes, and nobody renews
the lease of a command or an event nobody processes.
`WF(WatchdogDeadlinePasses)`: time passes. No fairness is assumed of operator
requests, admissions, closures, crashes, late leases, or of a job ending.
Provider faults need none: the code bounds its own retries. `RunExecution` and
`RunCoordinator` state no fairness and no liveness: nothing moves a run on but
the next call of a user.

**What the properties say** is written above each of them in the modules. Each
has a mutant in `PROJECT.json`: a plausible slip in the code (a lost fence, a
snapshot trusted without a compare-and-swap, a cancel overlooked once leased, an
expired lease never reclaimed, a retry allowed to create) that the run catches.

## 4. Where the code and its own statements disagree

With a run that shows it:

* **`simulation_orphan`.** A submit whose answer was lost after the provider
  accepted it goes back to *pending*. A cancel then takes pending to mean
  "never dispatched" and ends the attempt as a zero-transport cancellation,
  although the provider holds a job.
* **`real_deferred_cancel`.** An operator's cancel stored between the real
  worker's sequence read and its commit makes the commit fail with a state
  conflict; the worker answers by terminalizing the *submit*. The attempt stays
  prepared, the cancel waits for a submit that is gone, and the job runs on.
  The simulation worker does not have this dead end: it throws and the submit
  is leased again.
* **`real_cancel_race`.** A reconcile that saw the job succeed is refused by the
  active-cancel check and terminalized; the cancel then meets the succeeded job
  and is terminalized in favour of a reconcile that no longer exists.
* **`relay_redelivery`.** Two relays deliver the same event, one of them on an
  expired lease. Both read no receipt; the first commits; the second finds a
  stored run whose generated ids are not its own, takes that for a key conflict
  and makes the outbox row *terminal*, although the effect is in force. The unit
  test at `experiment-v2-integration-spine.unit.test.ts:1321` says that exact
  redelivery converges "without terminalization".

Because of the second and the third, `NeverStuck` and liveness are checked for
the real worker without a cancel only.

Met while modelling, without a run of their own (the first three are behaviours
of the model, the fourth of its `ReplayAdmission`, the fifth of its
`ReadBranch`; the others concern what the models leave out):

* A transaction that runs out of serialization retries (P2034) ends in an
  `AppError`, and the relay terminalizes an event whose authority was never
  decided; the comment at `experiment-v2-integration-relay-service.ts:120`
  reserves that for authoritative refusals.
* Two deliveries that store the same receipt at the same time are not both
  replays: the loser of the unique key is answered
  `INTEGRATION_EVENT_PAYLOAD_CONFLICT`
  (`prisma-paper-implementation-experiment-spine-v2-repository.ts:539`,
  `prisma-experiment-foundation-spine-v2-repository.ts:367`) and, if it holds
  the lease, terminalizes the row of an event that was received. It is the
  disagreement of `relay_redelivery` at other consumers.
* A revision superseded between the head consumer's read and its commit is
  refused by the compare-and-swap and leaves no `ignored_stale` receipt, unlike
  the late frozen event of the unit test at
  `experiment-v2-integration-spine.unit.test.ts:1207`.
* `prisma-paper-implementation-experiment-spine-v2-repository.ts:1844` compares
  the sequence of a replayed admission with one that depends on when it was
  read. Of two identical concurrent admissions the loser is answered
  `ADMISSION_IDEMPOTENCY_CONFLICT`, against the comment at `:1836` and the unit
  test at `:700`. Nothing is stored twice (`AdmissionIsIdempotent`).
* An admission that is repeated after the closure is refused with
  `BRANCH_SCOPE_CONFLICT` by the gate on the lifecycle of the cycle
  (`paper-implementation-experiment-v2-admission-service.ts:287`), because the
  closure completes the cycle in its own transaction
  (`paper-implementation-validation-cycle-closure-v2-service.ts:263`). The
  comment at `:365` of the admission service says that exact replay "remains
  valid after the immutable Cycle closure"; the unit test at
  `experiment-v2-integration-spine.unit.test.ts:424` closes a stubbed lookup and
  leaves the cycle `admitted`.
* `paper-implementation-run-coordinator-service.ts:934` and `:882` restore the
  status read *before* the lease was taken, so a rejected advance may overwrite
  a park; the comments at `:572` and `:930` say the durable status is restored.
* Two advances that send the same `holder_id` pass each other's lease and fence
  (`:802` of the same file,
  `prisma-paper-implementation-coordinator-repository.ts:170`).
* A backfill job that is resumed, or requeued by its own end, while its worker
  promise is still registered is not scheduled
  (`literature-backfill-service.ts:643`, reached from `:211` and `:958`) and
  stays QUEUED until a restart. A crash while a job is CANCELING leaves a RUNNING
  item in a CANCELED job. Its rows are read and written without a transaction.

## 5. The proofs

`tlapm` proves, for every value of the constants:

| Module | Theorem | States |
|---|---|---|
| `SimulationWorkerProofs` | `TypeCorrect` | `Spec => []TypeOK` |
| | `CancellationInvariantHolds` | `Spec => []CancellationInvariant` |
| | `DurableCancellation` | `Spec => []CancellationWins` |
| | `TerminalAttemptsAreFinal` | `Spec => TerminalIsFinal` |
| | `LogIsHistory` | `Spec => []EventLogIsHistory` |
| | `OutcomesLoggedOnce` | `Spec => []OutcomesAreLoggedOnce` |
| | `SuccessIsCollected` | `Spec => []CollectionFollowsSuccess` |
| | `SimulationImplementsLifecycle` | `Spec => ImplementsLifecycle` |
| `SimulationProgressProofs` | `AttemptsNeverStick` | `Spec => []NeverStuck` |
| `RealProviderWorkerProofs` | `TypeCorrect` | `Spec => []TypeOK` |
| | `TerminalAttemptsAreFinal` | `Spec => TerminalIsFinal` |
| | `OneJobPerAttempt` | `Spec => []AtMostOneJob` |
| | `OutcomesAreTrue` | `Spec => []OutcomeIsOfTheJob` |
| | `LogIsHistory` | `Spec => []EventLogIsHistory` |
| | `OutcomesLoggedOnce` | `Spec => []OutcomesAreLoggedOnce` |
| `RealProviderProgressProofs` | `UncancelledAttemptsNeverStick` | `Spec => []UncancelledNeverStuck` |
| | `NoAttemptSticks` | `Spec => []NeverStuck`, if `CancelKeys = {}` |
| | `SuccessIsFollowedUp` | `Spec => []CollectionFollowsSuccess` |
| `IntegrationRelayProofs` | `TypeCorrect` | `Spec => []TypeOK` |
| | `EffectsStayAnnounced` | `Spec => []EffectsAreAnnounced` |
| | `HeadStaysNewest` | `Spec => []HeadIsNewestProcessed` |
| | `DeliveryIsDurable` | `Spec => []DeliveredIsReceived` |
| | `ClosureStaysComplete` | `Spec => []ClosedCycleIsComplete` |
| | `ClosureSeals` | `Spec => ClosedCycleIsSealed` |
| | `AdmissionIsIdempotent` | `Spec => []KeysAdmitOnce` |
| | `LiveEventsAreKept` | `Spec => []NoLiveEventIsDropped`, if `"serialization" \notin Disturbances` |
| | `SpineImplementsPipeline` | `Spec => ImplementsPipeline` |
| `RunExecutionProofs` | `TypeCorrect` | `Spec => []TypeOK` |
| | `LineageStaysExact` | `Spec => []LineageIsExact` |
| | `ClosureAccountingHolds` | `Spec => []ClosedAccountingStands` |
| | `SupersededRunsGetNoAttempt` | `Spec => SupersededRunsStayPut` |
| | `PassedStaysPassed` | `Spec => PassedIsFinal` |
| `RunCoordinatorProofs` | `StepsWalkTheLane` | `Spec => []LaneOrder` |
| | `DecisionsStand` | `Spec => []ParkedDecisionStands` |
| | `BudgetsAreKept` | `Spec => []BudgetIsKept` |
| | `TypesAreKept` | `Spec => []TypeOK` |
| | `CountersFollowTheSteps` | the counters of the row never lead the steps, and are exact once it is completed |
| | `RaisesStand` | `Spec => EnvelopeNeverShrinks` |
| | `TerminalRunsAreFinal` | `Spec => TerminalIsFinal` |

`CommandControlProofs` holds the lemmas the proofs of both workers share.

**Assumptions.** The name spaces of keys are disjoint except that a manual
reconcile may be called like the automatic one (`KeysAssumption`), an operator
makes finitely many requests (`FiniteKeysAssumption`), `None` is nothing else
(`NoneAssumption`), bounds are numbers (`BoundsAssumption`, `PollsAssumption`,
`SpineAssumption`, `RelayAssumption`), a run has a cell and every cell a retry
ceiling of at least 1 (`RunAssumption`), and a lane has a slot and an envelope
a budget that a raise can only enlarge (`CoordinatorAssumption`). No bound is
assumed to be small. Two theorems have a hypothesis of their own, explained
below: `NoAttemptSticks` and `LiveEventsAreKept`.

### The simulation worker

**Why `CancellationWins` is not inductive.** `prepareCollection` only checks
that no cancel is *active*. So one must also know that a cancel that is no
longer active was settled on an attempt that had ended
(`SettledCancelIsOver`). A worker settles a cancel in three places. Committing
it ends the attempt. Refused at its start, it is settled because the state
cannot run it: the attempt is finished, provided that it is not still prepared,
which holds because a cancel is leased only after the submit converged
(`CancelsLeasedAfterSubmit`) and no transition leads back. Refused at its
commit, it is settled only after the race check found the attempt finished, and
the yield check never sees a cancel (`RefusalsAreKept`). Finally a cancel must
not be stored on an attempt that has already succeeded: a request read an
unfinished attempt, and if the version it read is still current then so is
everything it read (`RequestsAreSnapshots`).

**The refinement.** `AttemptLifecycle` lets an attempt succeed only when no
cancellation was ever accepted, and creates its collection in that step. A
commit therefore needs `CancellationInvariant` (no active cancel and an
unfinished attempt mean no cancel at all) and one more invariant: the success of
an attempt, its collection and its collect command appear together, and the
collection is prepared as long as the command is active (`CollectInv`). That is
inductive only because a worker never terminalizes a collect, which would
settle the command and leave the collection prepared: a collect is leased only
after the success, so its state check passes, and no refusal of a collect leads
to a terminalization (`CollectsLeasedAfterSuccess`). Every other step is a
`QuietStep`: it neither moves an attempt or a collection, nor stores a cancel,
nor changes whether the collect is active, and so the lifecycle stutters.

**Why no attempt sticks.** That *some* command is active is not inductive: one
must know which (`CarryInv`). A prepared attempt has an active submit, and
neither sync nor reconcile is stored yet. A submitted attempt has an active
sync, a running one an active reconcile, unless a cancel is stored, which is
then active by `SettledCancelIsOver` and can run because the submit is over. A
worker terminalizes one of these only when the attempt no longer needs it: it
found the attempt finished, or past the state of the command, or a cancel
waiting, and each of the three stays true. The invariant admits the manual
reconcile that takes the key of the automatic one: the sync is then refused each
time it is leased, but it stays active.

**Layout.** `CommandControlProofs` shows for each store transaction that it
keeps the types, and that it is a *safe store step*: attempts make valid
transitions counted by the version, success yields to active cancels, cancels
are not stored on successes and settle only on finished attempts
(`SafeStoreStep`). One lemma (`CancelInvStep`) then derives the shared part of
the invariant from a safe store step, with no case analysis on actions.
`SimulationWorkerProofs` shows that each action is built from such steps and
that labels move as `LabelsMove` says. `TerminalAttemptsAreFinal` follows from
the first part of a safe store step alone. The refinement has one lemma per
transaction that names the transition of the lifecycle it is, and
`SimulationProgressProofs` one per way in which a command is carried on
(`Carries`, `WorkersMoveOn`).

### The event log

Both workers share this argument, so it is made about the transactions of the
store (`LogMoves`, `LogInvStep` in `CommandControlProofs`). Each transaction
either leaves the log of an attempt, its row and the outcomes of its commands
alone, or appends the events of one outcome: a transition, a success with its
collection, or the end of a collection (`LogsTransition`, `LogsSuccess`,
`LogsCollection`). The command of that outcome was leased, so it had no outcome
yet, which is what makes the count exact. Three facts make this inductive. Only
a terminal command has an error (`ErrorsAreFinal`), so no command that can still
be leased has logged anything. A collect exists only after the success
(`CollectAfterSuccess`), so its event, which says that the state stays
"succeeded", continues the chain. And a log is never empty (`LogsAreBegun`).
The properties count places in a sequence; what an appended event adds to such a
count is one lemma about `Cardinality`, and no induction over the log is needed.

### The real-provider worker

**One job.** A job is created under the first lease of a submit only, at most
one worker ever holds the claim of that lease, and while one does, nothing has
been created; the worker that has called no longer holds it (`FenceInv`). Leases
only grow, so no retry and no late worker gets a first claim again.

**True outcomes.** What a worker observed of the job must still be true when it
commits (`TruthInv`: `RowsAreTrue` of the stored attempts, `WorkersKnow` of the
intents in flight). It is, because a job that exists keeps existing and a job
that ended keeps its end, whoever stops it; the fence above makes "the job"
one.

**Why an uncancelled attempt never sticks.** This worker terminalizes a command
whose commit is refused for the state of its attempt, so one must show that it
never does so to the last command that could help (`ProgressInv`). A prepared
attempt nobody cancels has its submit and no other command. A submitted one has
a reconcile that no worker is about to end (`Sound`): none is at `terminalize`
with it or at a commit whose command sequence is out of date. What a worker knows
of such an attempt (`WorkersAreCurrent`) is either the row as it is, with the
sequences it read, or the worker holds a submit that another worker has already
committed, or a command it found obsolete. In the first case its commit is not
refused. In the other two, ending its command costs nothing: the submit that
went through has stored the reconcile. An operator's reconcile only shifts the
command sequence, which ends a command at most when another reconcile has just
been stored, and that one is held by nobody. The hypothesis `CancelKeys = {}` of
`NoAttemptSticks` is the scope of the run `real_liveness`;
`UncancelledAttemptsNeverStick` says the same of every attempt without a stored
cancel, whatever is cancelled beside it. With a cancel it is false
(`real_deferred_cancel`, `real_cancel_race`).

**Why a success is followed up.** `CollectInv`, the invariant of the simulation
worker, holds here too, with cancels, but for a different reason, because this
worker *may* terminalize a collect: a refusal at its commit leads there. It does
not happen while the collection is prepared (`CollectsAreCurrent`): the collect
was taken after the success, so its state check passed, and the sequence it read
is still current, because nothing but its own completion adds an event to an
attempt that has succeeded. The run `simulation_liveness` checks the property for
the other worker; for this one the theorem is the only check in the project.
A success is not final in the sense of `AttemptLifecycle`: a cancel that met a
succeeded job is settled before the success is stored. So this worker does not
implement that module, and no such theorem is stated.

### The relay and the spine

Every step leaves the store alone or is one of seven transactions
(`SpineStep`): admit, materialize, advance, ignore as stale, acknowledge a head,
acknowledge the closure, close. Each is monotone: revisions, runs, receipts and the closure are
never taken back (`Monotone`). The invariant says how far each revision has come
and that its events are announced exactly then (`RevisionStands`), that the head
is the newest revision frozen and processed (`HeadStands`), that keys and
revisions are one to one (`KeysStand`), and that a relay about to mark an event
knows of a receipt (`RelayKnows`). The last rests on receipts being durable and
not on the lease, which is why a relay that lost its lease does no harm. A
caller's stale read is harmless because the transaction checks the version
(`ClientIsFresh`), the closing operator's because the transaction evaluates again;
that the cycle admitted something at all does not change (`EvaluationStands`). The refinement has one lemma per transaction.

**What a relay gives up.** Between the refusal and the terminalization of an
event lies an await, so the invariant says of each relay that is about to give
an event up that it may (`GivesUpRightly`): the event has a receipt or is
obsolete, and both stay true. Before that it says when a consumer can be refused
at all. A head consumer is refused for a version only if the branch moved since
it was read (`HeadReadStands`), and a branch moves only by an admission, which
makes the event obsolete, or by the same event delivered by somebody else, which
leaves a receipt. `LiveEventsAreKept` excludes one disturbance,
`SerializationFails`: a transaction that runs out of its retries reports a
conflict, and the relay gives up an event that nobody has decided on. With it
the property is false, as section 4 says; lost leases, lost answers, crashes,
faults and a revoked readiness are all admitted.

### Starts of runs

A plan made earlier is compared with the stored lineage again inside the
transaction, so the type invariant with its ceilings and the lineage invariant
(`IInvLineage`) need nothing about the plans in flight. `ClosedAccountingStands`
is inductive together with the types: a start checks the closure in its own
transaction, and no executable attempt ends after the closure, because the
closure requires that none is active.

### The coordinator

A caller writes the whole row from what it knows, so the invariant must say what
a caller knows while it is the holder (`CallerInv`): the envelope and the
counters of the row, and the steps it read or inserted. A write by another
caller takes the lease, and with it the right to write. `HistoryInv` is about the
persisted steps: their order, what was parked, what was accepted, and that no
slot ran without budget.

The calls that were spent are a recursive function over the steps (`Calls`).
That the function exists, and what it gives when a step is added, is an
induction, which is made here without the library's induction theorem: if the
recursion failed for some number there would be a least one, and the step before
it is a contradiction. `CountersInv` then follows the counters: every copy of
them, on the row or in a caller, was once the sum of the steps, which only grow;
and a run is completed by a caller that has just counted them.

### Model-checked only

Every safety invariant and every action property that a passing run checks is
proved. What TLC alone checks is:

* liveness (`EveryAttemptFinishes`, `EveryCommandSettles`, `EveryEventSettles`,
  `AdmittedRevisionsConverge`), which needs fairness and ENABLED;
* the four disagreements of section 4, which are counterexamples.

Whether an attempt of the real worker that has a stored cancel can stick in
other ways than those two findings show is neither checked nor proved.

### What the results do not say

* `NoLiveEventIsDropped` and `LiveEventsAreKept` leave `SerializationFails` out:
  an event given up after the last serialization retry is not caught by them.
* `NeverStuck` says that an active command can still move the attempt, not that
  it will: a manual reconcile whose key the sync needs makes the sync fail at
  every lease, for ever, and `NeverStuck` holds of it. Only a liveness run could
  tell, and those have a manual reconcile under another key (section 6).
* The order of the slots of a lane (`LaneOrder`) and what follows from it rest on
  the two assumptions about the coordinator in section 2: distinct holder ids,
  and a step insert within the lease of the heartbeat before it.

## 6. Not modelled, and why

* *Promotion, evidence and exploration attachment* use the outboxes of the spine
  with the same relay. They add further event types with one consumer each, and
  checks of bundle data; the delivery they rely on is the one modelled.
* *Literature backfill and full-text acquisition* is concurrent only through an
  in-memory map of promises and rows written without a transaction; what goes
  wrong there is in section 4, and a model would show little more.
* *Auto-pull* is retrieval and filtering around the claim of a run.
* *Topic selection, scientific evidence, LLM gateway* are derivations from
  documents and calls of external services: data and prompts, no interleaving.
* *Desktop client and shared contracts* have no behaviour of the kind checked
  here: rendering, schemas and types. They, the topic selection workflow and the
  validation of contracts are most of the source lines of the repository, which
  is why the modelled part is a small share of them.
* Inside the modelled components: the verification of stored rows (hashes,
  schema versions), the artifacts of a collection, and the answers to callers.
  Cancelling a real-provider attempt, for example, commits the cancel and then
  throws when the row is mapped to the simulation view
  (`experiment-foundation-execution-v2-service.ts:1049`).
* The instance in which a manual reconcile has the business key `1` has no run:
  every refusal of the sync costs a lease, and the leases grow without bound.
  `AttemptsNeverStick` and the other theorems about the simulation worker
  cover it.
