# WindAgent: a verification project in TLA+

This directory models WindAgent's concurrent core and the commands of its domain
modules, model-checks them with TLC on small instances, and proves with TLAPS, for
instances of any size, all the safety properties that the runs check: of the durable job
queue, the workers, the outbox, the agent runtime, the model gateway, what an API process
keeps in memory, and the domain modules.
The modules follow the code at the
lines `PROJECT.json` names under `map`; they keep its control (guards, early returns,
the order of writes, where a transaction begins and ends) and abstract its data.

Paths below are relative to `backend/src/windagent/` unless they begin with
`apps/`, `docs/` or `frontend/`.

## 1. The system and its parts

WindAgent is a modular monolith over PostgreSQL. API processes run *commands* of
domain modules; each command is one transaction that writes the module's tables
and, in the same transaction, an event to the outbox. Worker processes take jobs
from a durable queue, run handlers, and also drive the outbox publisher.

| Part | State it keeps | Operations | Talks to | What is hard, what makes it correct |
|---|---|---|---|---|
| **Durable job queue** `platform/jobs` | job rows (status, claim, fencing token, lease, attempts, cancellation flag, result), attempt ledger, outbox events of each outcome | `submit`, `schedule`, `claim_next`, `heartbeat`, `complete`, `fail`, `cancel_claim`, `request_cancel`, `recover_expired` | called by API and workers; writes the outbox | leases that expire under a live worker, clocks that differ, late and repeated calls, cancellation against completion. One outcome per job, a ledger that agrees with the row, one event per outcome, no stale result, a bounded number of attempts |
| **Worker process** `apps/worker` | place in the poll cycle, the envelope it holds, stop flag, the last report | `run`, `run_once`, `_execute_claimed_job`, lease guard, retry policy | queue, handlers, outbox publisher | crash at any await, graceful stop, timeout, deadline and lost lease racing the handler. Reports are true, no claim is left by a clean stop, every job ends |
| **Transactional outbox** `platform/events/outbox.py`, `publisher.py` | event streams and outbox rows (sequence, claim token, lease, attempts, status), the publisher's batch | `record`, `record_next`, `claim_batch`, `mark_published`, `mark_failed`, `reclaim_expired_claims`, `publish_pending`, `run` | all commands write it; a transport reads it | sequence numbers read before commit, duplicate keys, two publishers, crash between delivery and mark. Gapless streams, one record per key, exclusive claims, dead letters notified once, every record ends |
| **Realtime hub** `platform/realtime/hub.py` | last position, replay buffer, bounded queue per subscriber | `publish`, `subscribe`, `unsubscribe`, `next` | API websockets | a publisher that waits for a slow subscriber, the hand-over from replay to live. No position lost or doubled, every publish returns |
| **Agent runtime** `modules/agent_runtime` | sessions, runs and budgets, tasks, approvals, checkpoints, delegations, workflows, steps | the commands of `AgentRuntimeService`; `validate_dag`, `topological_order`, `ready_nodes` | outbox; API | read-check-write commands that race under optimistic versions. Lifecycles are followed, events are true, budgets fail closed, steps are made once |
| **Event bus** `platform/events/dispatcher.py`, `subscriptions.py`, `registry.py` | versions of event types, handlers by type, handles | `register`, `subscribe`, `unsubscribe`, `publish` | modules in process | handlers that come, leave and fail during a dispatch. Who stays is served once |
| Persistence `platform/persistence` | the open transaction of a unit of work | enter, commit, rollback, advisory locks | everything above | nesting, rollback on error |
| **Module loader** `platform/modules` | registered contributions | `discover`, `validate`, `register` | composition roots | a registration that fails half way. All or nothing |
| **Rate limiter** `platform/security/ratelimit.py`; other security: pure look-ups | sliding windows by key | `check`, eviction | API middleware | eviction at the key limit, the edge of a window. Admits no more than allowed, and what it tells clients is true |
| **Model gateway** `modules/model_gateway` | providers, endpoints, credentials and their secrets, discovered models; routing rules and route locks; endpoint and circuit state, attempts, receipts | registry commands, `resolve`, `reselect`, `create_fallback_lock`, `invoke` with its failover loop | provider adapters, secret store, outbox | a secret and its credential in two transactions; endpoint state saved without a version; a provider that answers after its timeout. One active lock per scope, an active credential has its secret, nothing answered is sent again, true receipts, every request ends |
| **Studio** `modules/studio` | projects, series, episodes, revisions, artifacts, characters, locations, props, storyboards | create, update, transition, derive and lock, reorder | outbox | conditional and unconditional updates of one row. Rows name rows that are there, episodes follow their lifecycle, locked revisions stay |
| **Production** `modules/production` | projects, revisions, assets, audio, code videos, render jobs, edit decision lists | create, update, transition, derive, lock, activate | outbox; queue | as for studio |
| **Live record** `modules/live_record` | plans and their content, takes with events and segments, director sessions | create, edit, transition, derive, append, add segment | outbox | appends that race for one sequence number. Gapless events of a take |
| **Quality** `modules/quality` | datasets, evaluation runs and metrics, reports, comparisons | create, record, complete, verify, compare | outbox | a run written back whole without a version. Completion is earned |
| **Workspace** `modules/workspace` | workspaces with members, bindings, quotas, locks; snapshots | membership, quotas, acquire, release, archive, restore | outbox | versioned and unversioned writes of one row; fencing tokens |
| **Automation** `modules/automation` | table of tools, a registry in memory per process, executions | register, update, disable, execute | adapters; queue | registry and table are two stores of one thing; failure between execution and record. Records tell the truth |
| **Memory** `modules/memory` | records by scope and key, and by hash; expiry | save, supersede, deduplicate, delete, forget, evict | outbox | racing saves; reads that delete. Content never changes under its version |
| Kernel, configuration, observability, identity, HTTP API, CLI, scheduler, desktop, frontend, migrations | value types, settings, I/O | | | no behaviour of their own that the models would show |

`PROJECT.json` lists every part with its status. The hazards it lists (40, each at
its line) are what the properties are aimed at.

## 2. Modules and their correspondence to the code

### JobQueue, JobLifecycle (queue)

`JobQueue` has one row per submission (`job`), the uncommitted version of a locked
row (`tx`), and each submitter's call (`caller`). Row, ledger and outbox events are
one record, because the code writes them in one transaction. Each operation is an
action that locks a row with its new version (`Lock`), followed by `Commit` or
`Rollback`; so a crash between the statements and the commit is a behaviour.
Submission has two steps, because `_insert` looks for the key, inserts, and looks
again when the unique constraint fails.

Instants are stored as distances from the present and aged by `Tick`; a caller's
clock reading may be off by up to `Skew`. Timers stop at `Floor`, below which no
comparison of the code can tell values apart. That keeps the state space finite
without bounding the length of a behaviour.

Clients are as general as the interface allows: any envelope a claim ever returned
may be used again at any time. This covers late, duplicated and reordered calls
without a model of the network.

`JobLifecycle` is the abstract specification: a job starts at most `max_attempts`
times, ends once, ends cancelled when its cancellation was accepted while it was
alive, and every retry and end is announced once. `KeepsPromise` says that
`JobQueue` implements it (refinement mapping at the end of `JobQueue.tla`).

### WorkerRuntime (composes JobQueue)

The poll cycle of `run_once` and `_execute_claimed_job`, step by step between two
awaits that matter, on the actions of `JobQueue`, which it extends. `UsesQueue`
(every step is a step of `JobQueue`) makes the results about the queue hold for it.
Crash, stop, restart, missing handlers, timeouts and deadlines are modelled; `orphans`
is a history of the claims that processes held when they crashed. Telemetry is not; the outbox publishing of a cycle is module `Outbox`.

### Outbox

Producers (`Allocate`, `CheckKey`, `Record`: the reads of `record_next`, then the
insert under its unique constraints), and publishers (reclaim, scan, claim the batch,
deliver, mark, notify). `claim_batch` is two steps: `Scan` locks what it finds and
passes over what another scan has locked (`FOR UPDATE SKIP LOCKED`), `ClaimBatch`
flips the rows that are still pending and commits. A crash in between releases the
locks. Time is reduced to two facts, whether a lease has elapsed and whether
`available_at` has been reached: a record that failed waits for its back-off, and a
new one may have to wait too, because its producer's clock may be ahead of the
publishers'. `passed` is a history of the records that a scan could not see when it
took a later one of their stream. `RunsLoop` tells publishers driven by `run()` from
those that only call `publish_pending()`.

### RealtimeHub

One asyncio loop: a call of `publish` is one step up to the first full queue.
`asyncio.Queue` is external and modelled as it behaves: a get wakes the first
waiting putter but keeps no slot for it.

### EventBus, RateLimiter, ModuleLoader, ApiProcess

`EventBus`: a dispatch is one step per handler, as it waits for each; subscriptions,
handles and other dispatches move in between. `RateLimiter`: a check is one step with
what the middleware tells the client; instants are kept as ages up to the window, so
that behaviours are not bounded. `ModuleLoader`: the stages of the start and the passes
of `register`, each up to the first contribution a bus refuses. `ApiProcess` extends
`RealtimeHub` with the three, which share nothing but the event loop. `Filters` has the
comprehensions and the walk over leading items that hub, bus and limiter use, with a set
for the condition, so that the proofs can look into them.

### AgentLifecycle, AgentTasks, AgentRuns, AgentWorkflows, WorkflowGraph, AgentRuntime

`AgentLifecycle` holds the transition tables of `domain/lifecycle.py` and
`domain/delegation.py`. In the three command modules a command is two steps, what
it reads and checks, and its writes with the commit; any other command may commit
in between, and a command may be given up. A write has the effect of
`UPDATE ... WHERE optimistic_version = :read`. `WorkflowGraph` is the walk of
`validate_dag` over all small graphs. `AgentRuntime` puts the parts together.
Commands of different parts look into each other's tables only for whether a row
exists and whom it belongs to, so a behaviour exercises one part.

Abstractions: two of the nine budget counters are kept (one that only usage reports
change, one that delegations change too), and payloads, titles and timestamps are
left out. The retry and recovery heuristics (`domain/retry.py`,
`domain/recovery.py`), the context builder and the in-memory store are not
modelled.

### GatewayPolicy, ModelInvocations, RouteLocks, ProviderRegistry, ModelGateway

`GatewayPolicy` holds the decisions without state: which failures are retried or
failed over, the circuit breaker, cooldowns, the choice of an endpoint, the match of
a rule, the normal form of a model id. `ModelInvocations` is one request from its
route to its receipt: choose an endpoint (a transaction), call it (outside of any),
record the outcome (a second transaction, which reads the endpoint's state again and
saves it without a version), then fail over, fall back or raise; streams that break
after their first chunk are included. `RouteLocks` splits an operation where another
transaction may commit. In `ProviderRegistry` the secret store commits on its own, a
process may die between the two stores, and revocation is an `UPDATE` that sees what
is committed when it starts; that a provider exists is checked before the row under it
is inserted, in a step of its own. A discovery is four steps (`BeginDiscovery`,
`UpsertFound`, `ReadBindings`, `CommitDiscovery`), at READ COMMITTED: it marks
unavailable what was committed when it read the bindings, and the rows it wrote stay
locked until it commits. Several may be under way; `reported` is a history of what the
last one of an endpoint found, and of what others committed amid it.
`ModelGateway` puts the three together: a request reads
the registry and its route and writes neither, so a behaviour exercises one part.

What an adapter puts on the wire is a nondeterministic outcome among `Outcomes`
(answer, each class of failure, time-out). Prompts, usage and prices are left out.

### Transactions, the seven domain modules, DomainServices

All seven run a command in one `SqlTransactionScope`. `Transactions` gives that its
meaning once: `Begin` reads the rows and decides on a set of statements, `Commit`
applies them to whatever rows are there by then, and the command may fail instead.
A statement names the columns it sets and, if the code gives one, the version it
compares with; an `UPDATE` that finds no row does what the code does then (raise and
roll back, or go on). `Studio`, `Production`, `LiveRecord`, `Quality`, `Workspace`
and `Memory` each define the requests of their service as such commands over their
tables. `Automation` has steps of its own, because executing a tool is two
transactions with the adapter between them, and the registries are memory of a
process; after the commit of its record an execution reads the run again, and a failure
there is handled as one of the tool (`ReRead`). What it announces is `AnnouncedAs`, which
is not always the row's status. No command of one module writes the tables of another, and `DomainServices`
chooses one part (`Parts`) per behaviour.

The columns a statement sets are laid over those of the row that is there (`Over`).
`asked`, a column of episodes that the table does not have, remembers whether every
update of the row so far was for a request that stated a version.
Identifiers the service makes up are unused ones (`Unused` in `Memory`): the code draws
UUIDs.

Abstractions: all reads of a command happen at one point, so a command whose own
SELECTs see two different commits is not a behaviour of these modules. Texts, hashes
and scores are members of small sets. A hash is that of what it is computed from.

## 3. Runs

| Run | Instance | States | Shows |
|---|---|---|---|
| `job_queue` | two submissions under one key (three attempts and a deadline; one attempt), two workers, lease 2, clocks off by one tick | 39 000 | ledger, events, results, idempotency, frozen outcomes, live claims, refinement of `JobLifecycle` |
| `worker_runtime` | one job, two attempts, a deadline of 3 ticks and a timeout, lease 1; two workers, the second without a handler; two crashes or stops, one cancellation | 478 000 | reports are true, a clean stop leaves no live claim, every step is the queue's, every job ends if some worker stays up |
| `outbox` | two events of a stream, two publishers with `run()`, batch 2, two attempts, one crash, one lease that elapses under a live publisher | 555 000 | exclusive claims, true finalizations, dead letters notified once, every record ends |
| `outbox_streams` | three producers, two streams, two calls with one key, batch 1 | 1 390 000 | gapless numbering, one record per key, order within a stream but for records a scan could not see |
| `outbox_worker` (violation) | one event, publishers that only call `publish_pending()`, one crash | | see section 6 |
| `api_process` | hub: four calls, two subscribers of which one may leave, queues of 2, replay of 3; bus: two handlers, three handles, one dispatch; limiter: three clients of which two are tracked, two requests in three half-seconds; loader: all sets of two manifests with up to two commands | 225 000 | no position lost or doubled, every publish returns; handlers that stay are served once; true limits and headers; modules load as a whole |
| `agent_runtime` | one task, two approvals, a checkpoint; two runs, two delegations; a session, a two-node workflow; all graphs of 3 names and 4 edges; two commands at a time | 1 540 000 | moves along the transition tables, true events, approval binding, one decision, usage within budget, one step per node, DAG validation and order |
| `agent_tasks_terminal`, `agent_runs_released` (violation) | as above, one part | | see section 6 |
| `model_gateway` | two administrators, three credentials, one host; two callers on one scope with two rule contents; two requests (one streamed), two models on two endpoints, circuit threshold 1, two attempts | 1 170 000 | an active credential has its secret; the catalog is that of the last discovery, and of those that committed amid it; one active lock per scope, made from a committed rule; nothing answered is sent again; true receipts; every request ends |
| `domain_services` | nineteen parts of seven modules, two commands at a time, one or two rows per table, requests with a version and without | 1 190 000 | references, gapless events of a take, the lifecycle of episodes until a request without a version updates them, locked revisions, earned completion, true records of executions, versioned content |
| `workspace_locks` (violation) | one workspace, one resource, two users, one command after the other | | see section 6 |

**Why the bounds are enough.** The races of the code are between two actors on one
row: two workers, two publishers, two commands, and for the hub two waiting calls
overtaken by a third. Two attempts give a first one, a takeover or retry, and an
exhausted budget; `job_queue` adds a third so that an abandoned attempt lies
between two others. `LeaseLen = 2` with `Skew = 1` makes a lease live on one clock
and expired on another. A queue of 2 with four calls overflows while calls wait,
and a replay buffer of 3 with four calls drops its oldest entry. A third client is
what makes the limiter forget one, a third handle what subscribes a handler anew while
an old handle of it is still active, and a window of one and a half seconds makes the
rounding of the delay matter. Four edges on
three names contain every cycle, self-loop, duplicate and dangling edge pattern of
that size. `MaxVersion`, `MaxFaults`, `MaxCancels`, `MaxCrashes` and `MaxLate`
bound counters that otherwise grow for ever; one fault suffices for each single
recovery path, the two of `worker_runtime` for a crash during the recovery from another,
and TLC explores where they strike. The version bounds are per row:
one run is allowed the five updates that take it to RUNNING, to WAITING_CHILD and
back, one step its whole lifecycle, and the rows beside them move once. In
`domain_services` an episode may move five times, a plan, take or asset go through
its states, and the rows a part does not dwell on change once (`Bounds` in
`MCDomainServices`). In `model_gateway` the threshold of 1 opens a circuit at the
first failure, a clock of two seconds lets it half-open again, and three credentials
are what two racing rotations of a first one need.

**What the domain instance covers and leaves out.** `Unstated = {None}`: a request may
leave `expected_version` out, which is what the routes do unless the client names one.
An update is then unconditional, and TLC finds that it can take an episode off its
lifecycle; `LifecyclesKept` therefore speaks of an episode until a request without a
version has updated it, and of locked revisions always. `Named = {m1}`: callers may choose
the memory id `m1`, and save it anew after a deletion; `ContentVersioned` speaks of the
others, whose ids the service makes up. One tool execution at a time runs against one
command that changes the tools (`ToolCalls = {c1}`, one definition of a tool beside the
edits of it). One plan of an episode is made
(`MaxPlans = 1`): two commands race for its number and for the name of its take as they
would for those of a second. `workspace_locks` runs one command at a time, with room for the five
versions that create, acquire, release and acquire need (`LockBounds`). Members of
different sets share the names `x1`, `x2` and `y1`, `y2` in the cfg, so that one
permutation serves all parts; no definition compares members of two such sets.

Symmetry is used only in runs without liveness properties, over workers,
publishers, approvals, delegations, commands and values that no definition tells
apart. `CHECK_DEADLOCK FALSE` is set where the system may stop: all publishes
done, every request ended, or every bounded row at its last version. The queue and the outbox are
checked for deadlock.

Every property of a passing run has a mutant in `PROJECT.json`: a changed
definition, kept next to the one it stands for and marked `Mutant of`, under which
the property fails.

**Fairness.** `WorkerRuntime`: time passes; the loop of a live worker keeps running
(`run` loops until asked to stop); a handler returns or is given up (`asyncio.wait`
with the heartbeat interval, the timeout and the stop event end the wait); open
transactions of the API end. Nobody is obliged to submit, cancel, crash, stop or
restart, so `EveryJobEnds` is about the behaviours in which some worker is up from
some point on. `Outbox`: time passes,
a publisher that is up keeps polling, a crashed one is restarted; the transport
need never accept anything. `RealtimeHub`: the loop runs every task that is ready
and consumers keep reading (the websocket handlers loop on `next`). `ModelGateway`:
the event loop resumes a request whose wait is over, and a call of a provider
returns, fails or times out (the adapters set a timeout); administrators and callers
owe nothing.

## 4. What is proved

Each `*Proofs` module proves the safety properties of its component for every value
of the constants that satisfies the assumptions: all sets of jobs, workers, events,
publishers, commands, all budgets, batch sizes, lease lengths, clock errors and bounds
on versions and faults. The theorems whose property has a name are also checked by the
run of that component.

| Module | Theorem | Statement |
|---|---|---|
| `JobQueueProofs` | `TypeCorrect`, `QueueConsistent` | `TypeOK`, and the inductive invariant `IInv` |
| | `AttemptsWithinBudget` | no job is started more than `max_attempts` times |
| | `LedgerAgreement` | `LedgerAgrees`: the attempt ledger agrees with the row |
| | `EventsExact` | `OneEventPerOutcome`: one event for each outcome |
| | `CancellationFinal` | an accepted cancellation leaves a job running or cancelled |
| | `ResultSound` | `ResultOfLastAttempt`: a stored result is that of the last attempt of a succeeded job |
| | `SubmissionIdempotent` | `IdempotentSubmission`: one row per idempotency key, named by every receipt |
| | `OutcomeFinal`, `LiveClaimKept` | the action properties `TerminalFrozen` and `LiveClaimRespected` |
| | `PromiseKept` | `KeepsPromise`: the queue implements `JobLifecycle` |
| `WorkerRuntimeProofs` | `RuntimeInvariance` | the inductive invariant `RInv` of the processes over the queue |
| | `WorkersUseQueue` | `UsesQueue`: every step is a step of `JobQueue`, so what is proved of the queue holds of the runtime |
| | `ReportsAreTruthful` | `ReportTruthful`: what a worker reports of an attempt is in its ledger and its events |
| | `StopsAreGraceful` | `GracefulStopReleases`: a worker that was stopped leaves no live claim |
| `OutboxProofs` | `TypeCorrect`, `Invariance` | `TypeOK`, and the inductive invariant |
| | `StreamsAreGapless`, `KeysAreUnique` | `StreamsGapless`, `OneRecordPerKey`: numbering without gaps, one record per key |
| | `ClaimsAreExclusive` | `ClaimsExclusive`: one publisher holds a claim |
| | `FinalizingIsTruthful`, `DeadLettersAreNotified` | `FinalizedTruthfully`, `DeadLettersNotified` |
| | `NothingIsOvertaken` | `NeverOvertaken`: the order within a stream, but for records that a scan could not see |
| `AgentRuntimeProofs` | `TypeCorrect`, `Invariance` | types, and the inductive invariant |
| | `ApprovalsAwaited`, `DecisionsAreFinal` | `AwaitingWhileWaiting`, and the action property `DecidedOnce` |
| | `EventsAreTruthful` | `ToldTruthfully` |
| | `BudgetsAreKept` | `UsageWithinBudget` |
| | `NodesHaveOneStep` | `OneStepPerNode` |
| | `LifecyclesAreFollowed` | `AlongLifecycles`, an action property: tasks, runs, workflows, steps and sessions move along their transition tables |
| `AgentGraphProofs` | `GraphsAreOrdered` | `DagsOrdered`, for graphs of every size |
| `ModelGatewayProofs` | `Invariance` | the inductive invariant |
| | `RegistryIsSound`, `RoutesStayPinned` | `RegistrySound`, `RoutesPinned` |
| | `RequestsAreAnsweredOnce`, `ReceiptsAreTruthful` | `AnsweredOnce`, `ReceiptsTruthful` |
| `ApiProcessProofs` | `StreamsAreComplete` | `CompleteStream`: no position lost or doubled, for any capacities |
| | `EventsAreServed` | `EventsServed` |
| | `LimitsAreKept` | `LimitKept`, for every limit, window and bound on the keys |
| | `ModulesLoadWhole` | `LoadedWhole`, for every set of manifests |
| `DomainServicesProofs` | `RowsStayLinked` | `RowsLinked`: rows name rows that are there and theirs, events of a take have no gaps |
| | `LifecyclesStayKept` | `LifecyclesKept`, an action property, for requests with versions and without |
| | `RunsCompletedEarned` | `CompletedEarned`, an action property |
| | `ToolRunsTruthful` | `RunsTruthful` |
| | `MemoryContentVersioned` | `ContentVersioned`, an action property, for the identifiers that the service makes up, whatever is done with the others |

**Assumptions.** All are `ASSUME`s of the modules and evaluated by TLC on each run.
They are of three kinds: sizes the code requires to be positive (lease, attempts,
batch, threshold, capacities, limits); finiteness of the sets of jobs, records and graph nodes; and that
`None` is none of the values it stands beside (the `NullAssumption`s and their like),
which Python's `None` is not either. Three say more. `DelayAssumption`: the delays a
queue may be asked for include those the retry policy computes. In `ModelGateway` an
adapter does not report `same_model_endpoint_exhausted`, the kind the coordinator
itself raises when no endpoint is left. In `AgentRuntime` a workflow with nodes has
one without predecessors, which `validate_dag` makes sure of.

`DomainServices` has three: `None` is no row, version, event or truth value (`NoneAssumption`); the
tables of one module have different identifiers (`IdsAssumption`), as the model has one
function for all of them where the code has a table each; and `MaxEvents` is a number.

### The queue

None of the safety invariants is inductive. A commit replaces a row by the version
in `tx`, so everything said of rows has to hold of open versions too, and an open
version has to be a step ahead of the row it will replace. `IInv` is therefore
`RowConsistent` of every row and of every open version, where `RowConsistent` is

* `ClaimConsistent`: attempt counter, lease generation and ledger have one length,
  the n-th entry carries token n, only the last entry of a running row is open, and
  it carries the row's worker and token; a row that does not run has no token;
* `StatusConsistent`: status, cancellation flag, result and attempt budget fit;
* `EventsConsistent`: the attempts with an event are those that were finalized;

together with `TxConsistent` (only queued and running rows have an open version, and
a takeover still finds the lease expired when it commits) and `CallerConsistent` (what
a submitter's receipt names). The proof has one lemma per way to build a row (claimed,
finalized, recovered, cancelled, aged), one per action, and one that combines them
(`StepConsistent`). Finalization is the deepest case: `EnvelopeCurrent` shows that a
call which passes `_owns_live_claim` carries the attempt number of the row, whatever
envelope it was made with, so the event it records cannot collide with an earlier one.

The refinement follows from `IInv`: it shows for every committed row which step of
`JobLifecycle` it is, and all other steps leave the mapped variables alone.

### The workers

`RInv` adds to the queue's invariant what each worker remembers. `WorkerSound` says
for every place of the poll cycle how the envelope and the open transaction relate to
the row; `LocksExclusive` that no two workers have one row open; `ClaimsByWorkers` and
`ClaimsHeld` that a claim is in the hands of the worker it names, or of nobody since
that worker crashed (`orphans`), or its lease has run out on some clock. `Histories`
(an open version only adds to the ledger and events of its row) is what keeps a report
true after the row has moved on. Stopping gracefully needs all of them: a worker gives
up a claim only by a call of the queue, and a call that is refused means that the
claim is no longer its own.

### The outbox

`Numbered` is why the numbering has no gaps although it is read before it is written:
numbers of a stream are different and below its length, and a call that has read one
read at most today's length; so an insert that passes the unique constraint is the
next in the stream. `RowsSound`, `ClaimsSound` and `HeadSound` tie the columns of a
row to the tokens handed out and to the batch of the publisher that has them, `Told`
the dead letters to the calls of the hook. `LocksSound` says that an open scan locks
pending rows, and no row twice; `ClaimedInOrder` is the inductive form of
`NeverOvertaken`, over rows claimed and rows locked: behind a record that is neither
claimed, nor in the same open batch, nor among those `passed`, nothing is.

### The agent runtime

A command is checked against the row it read and written against the row it finds.
`CommandsTrue`, `RunCommandsTrue` and `RowCommandsTrue` say that the two are one as
long as `optimistic_version` is the same, and what the command checked of it;
`RowsGrow` and its like that no step changes a row under its version. With that,
every conditional update is one of the lifecycle. Beside it stand `ApprovalsBound` (a
request that was made belongs to a task) and `StepsPlaced` (a step that was inserted
belongs to a workflow that is there). `RowsAlong` goes through the commands on workflows,
steps and sessions: each writes a state that its table has after the one it replaces
(`RowMove`), the two moves at once of a draft that is scheduled included. `GraphInv` is the invariant of
Kahn's algorithm: the counter of a node is the number of its incoming edges from nodes
not yet visited, and the queue holds the nodes where it is zero. That a walk which
stops early has met a cycle is a descent along predecessors that cannot end in a
finite graph.

### The model gateway

`RequestsInv` says of a request at each stage of the failover loop how it got there:
every attempt behind it failed in a way that may be retried and before a first chunk.
`RoutesInv` carries the snapshots an operation holds between its transactions, and
that no two locks of a scope are active in the store or about to be. In
`CredentialsInv` two operations never insert one credential, and none deletes the
secret of a credential that another is about to insert: what an operation deletes is
gone, revoked, or among those that it revokes first. `BindingsInv` says of a discovery
under way that its rows carry ids it found under their canonical name (`Upserted`), and,
once it has read the bindings, that each active one is its own, or to be marked, or
was committed amid it (`Scanned`); so its commit leaves what `DiscoveryKept` allows
(`PairSound`).

### What an API process keeps

Four invariants, one per part; a step of one part leaves the others alone.

* Hub, `HubInv`: the replay buffer holds the last positions; the listing of the queues
  has each live subscriber once; a waiting call has different queues to serve, the
  first of them crowded and none of them new. The equations of `CompleteStream` (which
  positions there are, and how many) are then inductive: publish adds a position to the
  queue or to the calls of each live subscriber, a resumed call moves its position from
  the one to the other, and a new subscriber is in no call. That nobody was ever
  crowded means that no call waits, which gives the order.
* Bus, `BusInv`: the handlers served by a call and those it has still to serve are
  different, and together they include all who stayed subscribed.
* Limiter, `LimiterInv`: the instants of a window are in order, the requests let through
  are those of the window that are not yet old, and what a client was told agrees with
  its window at every age, though windows are forgotten.
* Loader, `LoaderInv`: nothing is registered before the set is valid, and each pass
  starts without a key of its kind, so that none can be refused.

`Only`, `Leading` and the concatenation of contributions are recursive or count; their
laws (`OnlyKeeps`, `OnlySuffix`, `LeadingItems`, `FlattenTyped`) are proved by least
counterexamples, from the well-foundedness of the naturals.

### The domain modules

A command decides on its statements, and other commands commit before it does. So each
invariant says of the commands under way what their statements may rely on, in a form
that no commit of another command takes away.

* Linked rows (`LinkedInv`, one definition for studio, production and live record, over a
  description of their tables: columns, settable columns, links). Rows have their columns;
  what a row names is there and names it in return. Of a statement: it takes no row away,
  it sets only settable columns, and each row it names is there, or is inserted by the
  same command as a statement that must succeed (`Promised`). That is enough since rows
  are never deleted and the column by which a named row names its owner is not settable
  (`OwnedStays`, `PromiseKept`). It holds with and without versions, because links do not
  depend on them.
* Lifecycles (`VersionedInv`). An `UPDATE` of an episode is either of a request without
  a version, and says so in `asked`, or it sets a later version than it was made for;
  the row has the version it was made for only as long as it is the row that was checked.
  A commit that finds its version therefore does what may be done to the row (`MayWrite`).
* Locked revisions (`LockInv`). An open revision has version 0 and a locked one version 1,
  since locking is all that is done to one: every `UPDATE` of a revision sets both, for a
  request with a version or without, so one that is locked stays what it is.
* Events of a take (`LiveInv`). A command that appends number n has found events with all
  numbers below, and tells n; of two with one number the primary key refuses the second,
  so the numbers end at the last that was told. In the part with director sessions there
  are no events, and what is told of a take is its move.
* Evaluation runs (`RunsInv`, `ReportsInv`). Every record a command will write has
  earned its verdict, and a command that announces completion writes the very records
  that it judged.
* Executions (`AutomationInv`). `RunSound` ties the row of a run, its last event and what
  happened to the tool to the stage of the execution.
* Memories (`MemoryInv`). Every `UPDATE` is for a version and writes a later one, with
  a later revision if the content changes; an identifier that was used is not inserted
  again.

`CommitApplies` says once what a commit does to a row; the lemmas `...Begins` and
`...Step` go through the commands one by one, and `StudioStep`, `ProductionStep` and
`LiveStep` put them together.

### Model-checked only

Liveness (`EveryJobEnds`, `EveryRecordEnds`, `PublishReturns`, `EveryRequestEnds`):
fairness is outside what the prover handles. The four violations of section 6 are
counterexamples, and stay with TLC too.

## 5. What the code does not keep

Where the code does not keep what one would want, no property can hold. The main
ones carry a note among the hazards of `PROJECT.json`; all are described here, and
the models show them.

**Agent runtime** (`modules/agent_runtime/application/services.py` unless named)

* `resolve_approval` ignores the result of its task update and records
  `task_transitioned` even when the update lost its race (`:1244`); the approval is
  then decided while the task keeps waiting for it (`:1237`). `ToldTruthfully`
  leaves the streams of such tasks out.
* Checkpoint numbers are compared with a SELECT only, so two concurrent checkpoints
  get one number; `create_checkpoint` numbers per run and task and
  `insert_checkpoint` refuses per run, so the first checkpoint of a second task of a
  run is refused (`infrastructure/repository.py:491`).
* A usage report that exhausts a budget fails a run that has already completed or
  was cancelled (`:507`).
* Concurrent delegations exceed `max_child_agents`, because a lost update of the
  parent's counter is ignored (`:1316`). `delegate_run` does not narrow the child's
  limits to the parent's (`:1300`); only `create_run` with a parent does.
* Of two settlements of a delegation the later one wins; `update_delegation` has no
  version (`infrastructure/repository.py:636`).
* `schedule_workflow` moves a workflow without nodes to RUNNING (`:938`), which
  `transition_workflow` refuses.
* Deciding a superseded approval releases a task that waits for a newer one; FAILED →
  RETRY_WAIT → RUNNING by `transition_task` does not count an attempt;
  `complete_task` on a completed task replaces its output; a READY workflow moved to
  RUNNING by `transition_workflow` gets no steps and can no longer be scheduled;
  steps may leave BLOCKED before their predecessors have completed; the FAILED →
  RETRY_WAIT entry of the step table cannot be reached; a run with all its children
  delegated fails at its next usage report.

**Outbox.** Records of a stream may be delivered out of order by two publishers, or by
one: the scan skips rows that another open scan has locked (`outbox.py:324`), and
passes over a record whose `available_at`, stamped by its producer's clock, has not come
on the publisher's (`:242`). `NeverOvertaken` names the two cases.

**Realtime hub.** A subscriber that leaves with a full queue strands the publisher
that waits for it, and after a wait a later call can overtake an earlier one.

**Event bus and rate limiter.** `InProcessEventBus.unsubscribe` leaves the handle active,
and a handle cancelled later takes off a subscription made since. A client that was
forgotten at the limit of tracked keys starts with a fresh window (`ratelimit.py:103`).
`ModuleLoader.validate` knows module ids of an earlier `bootstrap`, not its commands; the
process calls it once.

**Model gateway.** Endpoint state is saved from a stale read: a failure may be lost, a
cooldown shortened, a circuit closed that another request opened
(`coordinator.py:272`). The attempt id has a resolution of a second, so two requests
on one endpoint may collide on it after the provider has answered, and the second
gets no receipt (`:280`). A fallback lock is not stored while the primary one is
active, though its caller is told it was (`route_locks.py:155`). Rules are upserted
without a version. Superseded secrets may stay in the store after racing rotations,
a crash, or `delete_provider` (`registry.py:256`). Two discoveries of one endpoint that
overlap do not see each other's rows, so what either found stays available
(`registry.py:532`, `infrastructure/repository.py:391`). An endpoint may be inserted after
its provider was deleted.

**Studio.** The routes leave `expected_version` out unless the client names one, and the
update is then unconditional (`routes.py:115`, `:140`; `infrastructure/repository.py:280`):
an episode may be moved from a state its lifecycle does not allow. The awaited checkpoint of an episode is never cleared. A change of title
overwrites a metadata patch (`services.py:287`). The `create_*` commands ignore a lost
update of their parent and leave orphans. Updates of characters and the world are
unconditional. Deriving moves the pointer of a locked episode. `reorder` accepts
duplicate panel ids (`storyboard.py:61`).

**Production.** Moves of assets, code videos and render jobs are unconditional, so two
of them may leave the lifecycle. `update_edl` ignores its `expected_version`. A change
of title and metadata without a new status raises `KeyError`. The handler of render
jobs does not update the row.

**Live record.** The routes that move a plan pass no `expected_version`, and the update
is then unconditional (`infrastructure/repository.py:134`): a frozen plan can be moved
back by a command that read it before. Editing the content keeps the old hash. Takes
are counted per plan but named after the episode.

**Quality.** Evaluation runs are saved without a version: a metric recorded by a slow
command reappears after the verdict, or erases another one; a failing metric that is committed
after `finalize` has read the run is erased by it and the run announced as completed
(`CompletedEarned` is about the metrics that remain). A suite without gates
passes. Creating with an existing id overwrites.

**Workspace.** Creating with an existing id overwrites and keeps the owner. The
unconditional saves defeat the versioned ones, a lock of someone else included
(`services.py:396`).

**Automation.** The registry is changed before the commit and in one process only
(`services.py:229`, `:284`, `:343`): a tool that was disabled or redefined runs as it
was from another process or after a rollback. An execution that succeeded is recorded
as failed when its record cannot be written (`:541`); `RunsTruthful` says what the
record still tells. So is one whose record was written and whose row could not be read
again (`:478`). A run that requires approval is announced as `automation.tool.denied`
(`:531`). A crash leaves it pending, and a retry of the job executes again.

**Memory.** No constraint makes a record the only one of its scope and key, so racing
saves make two. Under an id that the caller chose, a record that was deleted and
saved again may get other content under its old version. Deduplication ignores scope, project and session, and may wipe the
mark of a superseded record. A read that meets an expired record deletes by id, a
refreshed one too. `save_many` drops `expected_version` and swallows failures.

## 6. Findings

* `outbox_worker`: the worker drives the outbox with `publish_pending()` only, and
  nothing calls `run` or `reclaim_expired_claims`; a record claimed by a publisher
  that died stays `publishing`. The store's comment and
  `docs/migration/PHASE_6_EVENTS_OUTBOX.md` say that it becomes claimable again.
* `agent_tasks_terminal`: `resolve_approval` with DENIED or EXPIRED writes FAILED
  over COMPLETED and CANCELLED. `docs/migration/PHASE_13_AGENT_RUNTIME.md` calls
  those terminal and says that every transition is validated.
* `agent_runs_released`: two delegations that end at the same time each see the
  other open, or the update of the parent is lost and ignored; the parent stays in
  WAITING_CHILD. The same document says the last one unblocks it.
* `workspace_locks`: a lock granted after a release starts again at token 1
  (`modules/workspace/domain/models.py:313`; in the run: create, acquire, release,
  acquire), so a holder from before has a token as
  good as the new one. `docs/migration/PHASE_WORKSPACE.md` calls the tokens monotonic.

## 7. Plan

Done: queue, worker, outbox, what an API process keeps in memory, agent runtime, model
gateway and the seven domain modules; the theorems of all safety properties.

Next, in order:

1. Units of work entered twice, and the advisory locks.
2. The retry and recovery decisions of the agent runtime as operators checked
   against their documentation.

## 8. Not modelled, and why

Provider transports, the render pipeline, ffmpeg, OBS, HTTP routing, serialisation,
migrations, the command line and the frontend are I/O or generated structure over the
state that is modelled. The in-memory stores stand in for the SQL ones in tests.
Kernel value types, settings, telemetry and the empty `identity` and `scheduler`
packages have no behaviour to check. Authentication, policy and audit are look-ups and
adapters without state of their own.

## 9. Running

In this directory: `tlc -config MCJobQueue.cfg MCJobQueue` (and so on for each run of
`PROJECT.json`), and `tlapm JobQueueProofs.tla` (and so on for each module with theorems).
