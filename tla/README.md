# TLA+ specifications of the AGI platform

The platform (`src/`) is a FastAPI service of twelve "levels". Most levels format
answers of external services; the ones below keep state that several requests, threads,
replicas or workers share, and that is what these modules are about. Each module is
written from the code it names; `PROJECT.json` maps every definition to its lines.

## 1. Inventory

| Component | State | Operations | What is hard | What makes it correct |
|---|---|---|---|---|
| Durable memory (`memory/core.py`, `database.py`) | SQL tables tenants, memories, memory_versions, memory_evidence, audit_events | store, update, rollback, records.clear | sessions read, decide and commit later, without row locks; primary keys and unique constraints are the only arbiter; crashes | complete numbered history per memory, matching audit trail, one evidence row |
| Task leases (`orchestration.py`) | table workflow_tasks: status, lease_owner, lease_expires_at, attempts | lease_next_task, mark_task_succeeded, recover_expired_leases | workers die, leases expire, late commits overwrite newer rows | lease columns agree with the status; no task is stuck; a task has one worker |
| Workflow engine (`orchestration.py`) | tables workflows, workflow_tasks, workflow_checkpoints, workflow_events | plan, execute, recover, each ending in upsert_workflow | documents read long before they are saved; identifiers counted per tenant but unique over all tenants | the four tables agree; gapless events; tenants do not touch each other |
| LLM gateway (`llm/core.py`) | spent_by_tenant, ProviderHealth per provider | complete | threads share plain Python objects; retries, fallback, circuit breakers, budget | requests end; open circuits are respected; budget |
| Distributed lock (`security.py`) | one Redis key per lock | acquire, release, run_once | commands that time out at the client and reach the server later; expiry | the holder keeps the lock for its ttl; acquire ends |
| Rate limiter (`security.py`, `api/main.py`) | one Redis counter per scope and window | check | clock skew between replicas and server, key expiry, Redis failing after counting | limit per window over all replicas |
| Access control (`api/main.py`, `security.py`) | API keys, audit trail, request.state | production_controls middleware, tenant_context | several tables that must agree; behaviour without any key | guarded handlers run only when authorized, governance is audited |
| Governance, knowledge graph | lists and dicts in the process | propose, review; upsert_entity, relate | handlers run in threads and are not atomic | risky decisions approved by review only; edges within a tenant |
| Memory guardian (`guardian/core.py`) | versions, audit and reviews, in the process | version, validate, rollback, called by store_memory and validate_memory | numbers read before the append; the candidate is stored before it is compared | every audited version can be rolled back to; verdicts mean what they say |
| Research, Chinese hub, GitHub, self improvement | lists and dicts in the process | report, ingest, index_repository, evaluate | external calls fail in the middle; ids read before the append | ids name entries |
| Telemetry (`telemetry.py`) | counters and histograms | increment, observe, timer | error paths | totals, latencies and counters account for the work done |
| Sandbox (`sandbox/core.py`) | child processes, a temporary directory per call, runs | execute | processes that outlive the command and hold its pipes, timeout against exit, removal of a directory in use | the child is dead, output is complete, the call ends |
| Outbound client (`outbound.py`) | one call's URL, redirect count, deadline | request | redirect chains, DNS that changes between hops, slow servers | nothing forbidden is requested, bounded requests |
| Domain model (`domain.py`) | state and version of Workflow and Task | transition_to | actors with stale views | events replay to the entity; final states are final |
| Code analysis, readiness, tool registry, catalog, config | none, or static tables | | | see section 7 |

How they interact: a request passes `production_controls` (rate limiter, authentication,
policy, audit) on the event loop, then a handler in a worker thread calls one component.
Handlers of several replicas meet in the SQL database and in Redis; handlers of one replica
also in the Python objects of `PlatformService`. The LLM gateway, research and GitHub
clients reach the network through the outbound client. Nothing in the repository calls
lease_next_task, mark_task_succeeded, recover_expired_leases, memory update and rollback,
RedisDistributedLock or the domain model but its tests: their models assume callers that
use them as the tests do, only concurrently.

## 2. Modules

| Module | Models | Notes |
|---|---|---|
| `MemoryStore` | DurableMemoryStore | sessions as processes: one action per SELECT, one for flush and commit |
| `VersionedMemory` | what the store promises | abstract specification; `MemoryStore` refines it |
| `MemoryStoreProofs` | | theorems about `MemoryStore` |
| `TaskLease` | lease protocol | workers, sweepers, clock |
| `WorkflowEngine` | WorkflowEngine, WorkflowStateStore.upsert_workflow | extends `TaskLease`: handlers replace the rows workers lease |
| `LLMGateway` | LLMGateway, CostPolicy, ProviderHealth | threads of one process |
| `RedisLock` | RedisDistributedLock | clients, server, late commands |
| `RateLimit` | RedisRateLimiter.check | replicas with clocks of their own |
| `AccessControl` | production_controls, PolicyEngine, audit trail, tenant_context | the middleware is one step |
| `PlatformService` | the handlers: governance, graph, guardian, research, hub, GitHub, self improvement, telemetry | extends `AccessControl`: handlers interleave at every call |
| `Sandbox` | SandboxLab.execute, subprocess.run | threads, processes, pipes, clock |
| `OutboundClient` | SecureHTTPClient.request | one call against servers and DNS |
| `DomainLifecycle` | Workflow and Task.transition_to | actors with stale views |

`WorkflowEngineProofs` (with the lemmas about `TaskLease`), `LLMGatewayProofs`,
`PlatformServiceProofs` (with `AccessControl`), `DomainLifecycleProofs`,
`OutboundClientProofs` and `SandboxProofs` hold the theorems about the modules they are
named after; `RedisProofs` holds those about `RedisLock` and `RateLimit`, which is why the
names of the two do not overlap.

`MC*` modules hold constants for TLC. Operators commented "Mutant" are variants of the
definition below them with a plausible fault; no specification uses them. Each shows that
a property of a run can fail: put in the place of the original, TLC reports the violation.

### Conventions and abstractions

- SQL (read committed; SQLAlchemy without `with_for_update` or `version_id_col`): a session
  reads, other sessions run, then flush and commit are one step, because the first written
  statement takes the row lock or key entry and holds it until commit. The ORM's UPDATE
  names the row by primary key and writes only the columns that differ from what was loaded
  (`Flushed`, `FlushedRow`). A violated constraint or an UPDATE that matches no row raises
  and rolls everything back. A crash is a rollback.
- Python threads may be preempted at calls; code without a call in between is one step.
- SHA-256 digests are collision free, uuids are fresh.
- In `PlatformService` the durable memory is the set of its rows; `MemoryStore` has its
  transactions. External services answer or raise. Two contents have a similarity above 0.9
  or not (`Similar`), a risk score is at least 0.5 or not.
- In `PlatformService` a graph node is keyed by the pair (tenant, entity id). The code joins
  them with a colon, which is the same as long as tenant ids contain none.
- Texts, embeddings, timestamps that are only stored, metrics and logging are left out.

## 3. Correspondence of state and actions

`MemoryStore`: `tenants`, `memories`, `versions`, `evidence`, `writes`, `changes` are the
tables (audit rows split by action); `session[s]` is the program counter and the loaded
columns of a call. store = EnsureTenant, AddTenant(Conflict), StoreRead, StoreInsert |
StoreConflict | StoreTouch; update = UpdateRead | UpdateStale | NotFound, UpdateCommit;
rollback = RollbackRead, RollbackFind | RollbackNotFound, RollbackCommit; a lost race is
ChangeConflict, a vanished row ChangeStaleData.

`TaskLease`: `tasks` is workflow_tasks. lease_next_task = LeaseRead, LeaseCommit;
mark_task_succeeded = MarkRead | MarkRefused, MarkCommit; recover_expired_leases =
SweepRead, SweepCommit | SweepUndone. `worker[w].expires` is what the worker believes.

`WorkflowEngine`: plan, execute, recover compute a document (Plan, Execute, Recover) and
continue in upsert_workflow = UpsertRead, UpsertCommit | UpsertClash.

`LLMGateway`: `thread[r]` walks through complete: Admit, Select | NoProvider, then per
attempt ClientError, ServerError, CallError, CallRaises, Answer | AnswerOverBudget, and
after an answer CommitRead, CommitStore, Recovered, Succeed. CostPolicy.commit is two steps;
`usage` is the sum over the usage log.

`RedisLock`: `lock` is the key, `late` the commands whose client gave up. `RateLimit`:
`counters` are the keys, `admitted` is history for the property. `OutboundClient`:
`blocked` is the environment's DNS.

`AccessControl`: `req[r]` is request.state and the point the request has reached; a request
is let through (CallNext) or answered in one step of production_controls. `PlatformService`:
`service` holds the attributes of the components, a field each; a handler that computes
something and appends it later is two actions (Propose, ProposeAppend and so on), and the
value in between is `req[r].local`. A timed operation ends in TimerEnds, then Finally.
memory_store = StoreMemory | StoreRaises, VersionRead, VersionAppend, VersionAudit,
CountMemory; guardian_validate = StoreMemory | StoreRaises, Validate, ValidateAppend,
CountReview.

`Sandbox`: `call[c]` walks through execute: Denied | Execute, Popen | PopenFails,
EndOfOutput, Completed | Undecodable | TimeOut, Record | Raise | CleanupFails. `child`,
`kids` and `pipes` are the processes of the command: Spawn, ClosePipes and Exit are theirs.

## 4. Runs

| Run | Shows | Bounds, and why they are enough |
|---|---|---|
| memory | histories complete, snapshots, audit, evidence, embedding state, progress of conflicts; refinement of VersionedMemory | 2 sessions (one degraded), 2 contents, versions to 3: every pair of operations races on one memory, with a third version so that a rollback can be overtaken |
| memory_clear | no version row without its memory | the same with records.clear() at any time |
| engine | tables agree, gapless events, steps observed once, foreign rows untouched, lease columns agree with the status, every running task becomes visible to the sweep | 2 handlers of any of 2 tenants, 2 workers, 1 sweeper, plans of 1 and 2 steps, 4 events, leases that expire with the next tick, max_attempts 1: plan, execute, recover and execute again with a second handler between any read and its flush, and late sweeps and leases that meet a row that was leased, finished, replaced or deleted. While a worker is busy `EarlyLeases` keeps the sum of busy workers (counted twice), open handlers and events at 5 or less: two workers and a handler race on a first plan, or one worker and two handlers on a saved workflow |
| lease_shared (violation) | two workers hold one task | 2 workers |
| gateway | open circuit only met by stale lists, two requests exceed the budget by one answer at most, charges covered by the usage log, every request ends | 2 threads, 2 providers, one tenant that is admitted until its usage passes 2, so that a request follows a lost update, threshold 2, one retry, an answer as dear as the whole budget, cooldown 2 with the clock to 2: a circuit opens, stays open for a tick and closes again |
| gateway_fail_closed (violation) | over-budget answer is retried | 1 thread |
| lock | holder keeps the lock for its ttl, acquire ends | 2 clients with 2 calls each, so that late commands of an earlier call meet a later one; the clock outlasts two ttls |
| rate_limit | limit per window | 2 replicas, one ahead by the grace period, two windows and the edge between them |
| lifecycle | replay, exact version check, final states | 3 actors, 4 transitions: the longest shortest path to a final state plus stale attempts |
| outbound | nothing forbidden sent, requests bounded, responses at most one hop after the total timeout | 3 URLs, max_redirects 3 as in the code, hops that take a tick, total timeout 2: the time runs out in every hop |
| service | guarded handlers authorized, governance audited, approvals, ids, edges, guardian audit and verdicts, telemetry | 3 concurrent requests of 2 tenants, 3 keys (expiring, revoked, legacy "*"), all headers, with and without keys. `Workloads`: requests that run together ask for routes whose handlers share state, every other route is asked for alone; handlers of different workloads touch different fields of `service` and the counters of different operations, but for chat with completion and search with retrieve, which change nothing else. 2 contents, similar to each other, 2 entities, 2 decisions, one rollback of the guardian |
| sandbox | child dead, output complete, workspace_cleaned true, every call ends | 2 calls, each with a process besides the child, timeouts 0, 1 and 3 with a maximum of 2 (denied, granted, cut), the clock to 3: one call starts when the other times out |

The type invariants of modules with proofs are proved and, but for TypeOK of `MemoryStore`,
not part of a run.

Deadlock checking is off where clocks or requests are bounded and the system may stop.

### Disagreements between code and documentation

1. `lease_shared`: lease_next_task takes no lock, so two workers can share a lease
   (`tests/test_durable_workflow.py:24` says they do not).
2. `gateway_fail_closed`: the budget error after an answer counts as a provider failure and
   the request is retried (`docs/SECURITY_LLM_GATEWAY.md:3`: "Budget failures fail closed").

### Other behaviour of the code worth knowing

- A TIMED_OUT task is leased again, so its attempts grow past max_attempts (`LeaseRead`).
- A late sweep may turn a SUCCEEDED task back into PENDING (`SweepCommit`).
- CostPolicy.reserve only compares, so two requests may overspend the budget together;
  `OverspendBounded` says by how much. A lost update in commit may hide part of it. With
  three requests the excess can be more than one answer for each of the other two: with
  answers of 1, 3 and 4 and a budget of 4, TLC finds 13 charged. One request reads its sum
  late, another one stores a sum that was read early, the budget is open again, and the
  late sum is then added to.
- Answers 5xx and 429 are not recorded, so they never open a circuit (`ServerError`).
- validate_memory stores its candidate before comparing, so MemoryGuardian.validate always
  finds a duplicate of the same content and never says "approve" (`CandidateFindsItself`);
  it also compares with the rows of all tenants.
- Two stores of one content may get the same version number from the guardian; its
  rollback then finds the first entry only.
- After a timeout the sandbox kills only its direct child. What that started goes on,
  outside of any limit of time, although setsid gave the command a group of its own.
- A process that is left may make the removal of the workspace fail: the call raises and
  no run is recorded (`CleanupFails`). Output that is not UTF-8 raises a ValueError, which
  the API reports as "Sandbox command denied" although the command ran (`Undecodable`).
- Storing a content again after its memory was updated finds the row by the digest of the
  old content and returns another content than was stored (`StoreTouch`).
- run_once does not renew its lock: fn may run twice once it outlives ttl_ms.
- The total timeout of the outbound client is compared only before each hop, and the read
  timeout of httpx holds between two reads: a server that sends its answer in small pieces
  can hold a call as long as it likes. `ReturnedInTime` assumes a longest hop (`HopTime`).
- Two plans of a tenant may choose the same checkpoint number, and the later one replaces
  the earlier; likewise two governance proposals may get the same id.

## 5. Fairness

`LLMGateway`: weak fairness of the work of each thread, because the OS schedules threads
and every provider call ends by the timeouts of the outbound client; no fairness of new
requests. (The timeouts bound each read; that a server does not send an endless answer is
an assumption.) `Sandbox`: weak fairness of the clock and of the thread of each call, which
waits for nothing but output, the child or the deadline; processes have none and may run
for ever. `RedisLock`: weak fairness of the clock and of the loop of acquire, because each
command ends at the latest with the socket timeout; fn, release and late commands have
none. All other specifications are safety only.

## 6. Proofs

`MemoryStoreProofs` proves for all finite or infinite sets of sessions, tenants, kinds and
contents, and all bounds (assumptions: `DegradedAssumption`, `BoundAssumption`):

- `TypeCorrect`: `Spec => []TypeOK`.
- `HistoryAlwaysComplete`, `SnapshotsStayInHistory`. HistoryComplete is not inductive: that
  CommitChange writes the content the row ends up with depends on what the session loaded.
  The inductive invariant is `HistoryInv == TypeOK /\ HistoryComplete /\
  SnapshotsInHistory`. The core is `FreeMeansCurrent`: when version seen + 1 is free, the
  memory is still at the version and content the session loaded, since the history is
  1..version and contains the snapshot. So the unique constraint does the work of the row
  lock the code does not take. `ExtendHistory` then adds one version at the end.
- `ConflictsMeanProgress`: the action property, from HistoryInv; the only steps that raise
  after the read are ChangeConflict and ChangeStaleData (`RaisingSteps`), and the second
  is impossible since rows are never deleted in `Spec`.
- `AuditAlwaysAccounts`, `EvidenceAlwaysOnce`: with `AuditInv`, which adds both to
  HistoryInv; a rollback's target is in the history by SnapshotsInHistory, and stays there.
- `EmbeddingAlwaysAudited`: with the types; no step takes a write event away, and the step
  that writes a row's embedding state writes the event too.
- `ClearLeavesNoOrphans`: `SpecWithClear => []NoOrphans`. records.clear() may take the rows
  of a snapshot away, so HistoryInv is not kept and the invariant is the types and NoOrphans
  alone: a session that loaded a row clear has removed raises at its UPDATE
  (ChangeStaleData), and a commit that does go through writes a memory together with the row
  of its version.
- `StoreImplementsVersionedMemory`: the refinement. The mapping (`History`) takes the
  length of a history from the memory's row and the contents from the version rows
  (`Height`, `ContentAt`); under
  HistoryInv StoreInsert is a Create, UpdateCommit and RollbackCommit are a Change that adds
  one version on top, and every other step leaves both alone.

`WorkflowEngineProofs` proves all six properties of the engine run for any number of
handlers, workers, sweepers, tenants, workflows and plans, and any length of a lease
(assumptions: `NullAssumption`, `LeaseAssumption`, `PlanAssumption`):

- `LeaseColumnsAlwaysAgree`, `RunningAlwaysExpires`. Every step
  of `LeaseNext` keeps `LeaseInv`: the types, both properties, and `ReadInThePast`: a lease
  about to be committed was timed no later than now. Both hold because each commit writes
  both lease columns together with the status, over whatever the row holds. The rows that
  upsert_workflow inserts are never RUNNING, which needs the statuses of documents (`IsDoc`).
- `TablesAlwaysAgree`, `ForeignRowsAlwaysUntouched`, `AlwaysObservedOnce`: from `EngineInv`,
  which adds to LeaseInv that open handlers and checkpoints carry documents some plan,
  execute or recover built (`HandlersOK`, `RowsOK`), and that the task rows are those of the
  documents (`TasksMatch`). The core is `CommitIsOwn`: a commit that does not clash is one
  of the workflow's own tenant, because every document has a first step (PlanAssumption)
  and its task identifier would be taken. Nothing else in the code keeps tenants apart here.
- `EventsAlwaysAccount`: from `EventInv`, which adds that every event belongs to the tenant
  of its workflow, so that the tenant's log is the whole log (`CommitAppends`), and that no
  handler has read a version beyond the length of the log.

`RedisProofs`: `LockTypeCorrect`, `HolderAlwaysKeepsLock` for any clients, ttl and timeout
(assumptions: `TimeAssumption`, `FreeAssumption`). The invariant `LockInv` adds
`KeyNamesHolder` (the key holds the value and the expiry its holder counts on) and
`LateIsOver`: a command its client gave up on belongs to a call that is over, so it names
another owner than any call that holds the lock.

And in `RedisProofs`: `RateTypeCorrect`, `LimitHoldsPerWindow` for any replicas, rules, windows and
limits (assumptions: `LimitAssumption`, `ClockAssumption`, `SkewAssumption`, the last one
being that two clocks differ by no more than the grace period). The invariant adds
`KeysOutliveWindow`: a counted key outlives its window by the clock of every replica
(`SameWindow`), so no count is lost, and `AdmittedCounted`.

`DomainLifecycleProofs`: `LifecycleTypeCorrect`, `LogAlwaysReplays`, `VersionCheckExact`,
`FinalAlwaysStays` for any actors and versions (assumption: `VersionAssumption`); the
invariant adds that no actor has seen a version ahead of the entity's.

`OutboundClientProofs`: `OutboundTypeCorrect`, `NothingForbiddenEverSent`,
`RequestsAlwaysBounded`, `AlwaysReturnedInTime` for any URLs, redirect limits and timeouts
(assumptions: `UrlAssumption`, `NumberAssumption`). The invariant adds `UrlValidated` (the
next request has been validated), `Counted` (redirects and requests sent agree at every
point of the loop) and `OnTime` (one deadline for all hops, the open hop began before it).

`SandboxProofs`: `ChildAlwaysDead`, `OutputAlwaysComplete`, `CleanedAlwaysTrue` for any calls,
processes and timeouts. The invariant adds `ChildWaitedFor` (the child runs only while
subprocess.run waits for it), `OutputStaysEnded` (nobody opens pipes again that all have
closed) and `RecordedIsDone`.

`LLMGatewayProofs` proves the three safety properties of the gateway run for any threads,
tenants, providers, models, prices, budgets and circuit breaker settings (assumptions:
`PolicyAssumption`, `ThreadAssumption` (finitely many threads), `TokenAssumption`,
`ProviderAssumption`):

- `OpenCircuitAlwaysOnlyStale`: `CircuitInv` says of every provider a request still has in
  its list, not only of the one it is calling, that a circuit that is open now was opened
  after the list was made (`Fresh`). A failure moves open_until to the present plus the
  cooldown, a success to zero, and time only closes circuits (`FreshKept`).
- `AlwaysChargedForUsage`: `ChargedInv` adds that a sum which commit has read and not yet
  stored is covered too. CommitRead adds the cost to the open answers before it is stored
  anywhere, Succeed moves it to the usage log. This needs facts about MapThenSumSet: that
  the fold is well defined (`SumsExist`, `BillSums`), and that a term can be taken out of it
  in any order (`SumsTakeOut`). They are shown by induction over finite sets in the form of a
  minimal counterexample (`MinimalSet`), which needs no operator as a parameter.
- `OverspendAlwaysBounded`: `OverInv` describes one commit (`Single`) and two of the same
  tenant (`Pair`): of two answers being paid one is within the budget, and of two sums being
  stored each is within the budget or no more than the other plus its own cost. With two
  threads there is nobody else to lower the sum in between (`TwoThreads`). The bound is
  stated for two threads because it does not hold for three (section 4).

`PlatformServiceProofs` proves all eight properties of the service run for any requests,
tenants, keys, memories, entities and limits (assumption: `RowAssumption`). What each group
of handlers may touch is stated once (`Moves`, `Quiet`), so that every invariant is argued
about its own handlers only:

- `HandlersAlwaysAuthorized` from `AccessInv`: a handler is entered only through
  production_controls, which lets a request through with the tenant and permissions of its
  key (`Entitled`).
- `GovernanceAlwaysAudited` from `AuditInv`: the events of a request are those of its
  decision, at most one (`AuditRight`), on top of `RouteInv`, which ties the points handlers
  wait at to their routes.
- `RiskyApprovalAlwaysReviewed` from `ReviewInv`: GovernanceInv, and that the reviews and the
  requests that can still add one are no more than the allowed approvals in the audit trail.
- `EdgesAlwaysWithinTenant` from `GraphInv`: the nodes an edge about to be appended was
  checked against are still there.
- `IdsAlwaysResolve` from `GovernanceInv`, `HubInv` and `GuardianInv`: an id computed before
  the append is at most the length of the list plus one, and lists only grow.
- `AuditedVersionsAlwaysExist`, `CandidateAlwaysFindsItself` from `GuardianInv`, which says
  what a request knows at each point of version and validate (`GuardianLocal`).
- `TelemetryAlwaysAccounts` from `TimerInv` and `CountInv`: equations between a counter, the
  requests that have yet to count, and what they count.

So every invariant and safety property of a passing run is proved. Only model-checked, and
out of the prover's reach, are the liveness properties EveryRequestEnds, AcquireEnds and
ExecuteEnds: they need fairness and ENABLED.

## 7. Not modelled

- Code analysis (patterns on text), readiness, catalog, competitive and tool registry
  (static tables), configuration: no state that changes.
- Of the self improvement engine the thresholds, of research, Chinese hub and GitHub what
  the services answer, of telemetry the counters of tokens and cost and the rendering.
- Of the sandbox the token filter (one bit, `allowed`), the resource limits, which end
  processes earlier or keep them from starting, and the truncation of output.
- Memory search and consolidation, graph search: they read.
- LLM embeddings: one call without state.
- Of the domain model the entities without operations; the in-process RateLimiter,
  which the API does not use.

## 8. Plan

Written in this order, the most important first: MemoryStore with its proofs, TaskLease,
WorkflowEngine, LLMGateway, RedisLock, RateLimit, DomainLifecycle, OutboundClient,
AccessControl, PlatformService, Sandbox; then the proofs about MemoryStore, WorkflowEngine
with TaskLease, RedisLock, RateLimit, DomainLifecycle, OutboundClient and Sandbox; then the
refinement of VersionedMemory, PlatformService and LLMGateway. Next:

1. What the liveness properties rest on, as far as it is safety: that the measure by which a
   request of the gateway and a call of the sandbox come to an end decreases with each step.
2. A bound on overspending for any number of threads.

## 9. Running

    tlc -config MCMemoryStore.cfg MCMemoryStore
    tlc -config MCWorkflowEngine.cfg MCWorkflowEngine
    tlapm MemoryStoreProofs.tla
    tlapm WorkflowEngineProofs.tla

and likewise for the other configurations; `PROJECT.json` lists module and configuration
of every run.
