# Tectonic in TLA+

Tectonic is an agentic-AI platform: 34 Python services under `src/modules/`,
each a FastAPI process with its own Postgres schema, talking to the others over
HTTP and to Kafka. This project specifies in TLA+

- the **Workflow Engine**, which everything else hangs on: the scheduler that
  executes workflow graphs with human approvals, and the transactional outbox that
  reports what happened;
- **Human Oversight** and its round trip with the engine, the one place where two
  services change each other's state;
- the core of nine more services that keep state others rely on: tenants, quotas
  and allocations, invoices, evidence packs, the audit chain, circuit breakers,
  secrets, conversations, rollouts.

TLC checks the modules on small instances; TLAPS proves their safety properties for
every instance. Section 4 says under which assumptions, and what is not proved.

Paths below are relative to `src/`; `WE/` stands for
`modules/workflow-engine/src/workflow_engine/`.

## 1. Inventory

### Workflow Engine

| Part | Code | State | Operations |
|---|---|---|---|
| Instance API | `WE/api/routes_instances.py` | `workflow_instances` rows | start, pause, resume, terminate, approval callback |
| Scheduler | `WE/core/scheduler.py`, `human.py`, `replanner.py`, `router.py` | the row's status and frontier (`current_step_ids`), `step_executions`, `approval_requests`; in memory the request's copy of the row and the tasks of a batch | `start`, `resume_after_approval`, `_run`, `_execute_step`, `_fail` |
| Outbox | `WE/db/repository.py:313-407` | `event_outbox`: status, attempts, lease, created_at | enqueue, claim, mark published, requeue, fail exhausted, expire leases |
| Relay worker | `WE/core/outbox_worker.py`, `main.py` | the claimed event, the Kafka producer | `poll_once`, `recover_stuck_events`, start-up and shutdown |
| Parser, definitions API | `WE/core/parser.py`, `api/routes_definitions.py` | `workflow_definitions` | validate, create, publish |
| Step executors | `WE/core/symbolic.py`, `neural.py` | none | one step: a rule, or calls to LLM Gateway, Guardrails, Tool Orchestration |

How they interact. An HTTP request creates an instance and *runs it itself*, in
its own database session, until it completes, fails or waits for a human.
Waiting ends the request: the row says `paused_for_approval`. Human Oversight
later calls back, and that request runs the instance on. So an instance has no
owner, no lock and no version: concurrent requests (callbacks, repeated
callbacks, operators) meet only in its row. The steps of a batch run as asyncio
tasks over one shared session. Three events (started, completed, failed) are
written with the row in one commit; one worker per process relays them to Kafka.

What is hard: every await between a read and a write of the row; callbacks that
arrive early, twice, or about another step; a request that dies and leaves the
row `running`; tasks that outlive their batch; leases that run out under their
holder; a crash between Kafka's acknowledgement and the commit that records it.

What makes it correct: an event exists exactly when its transition is committed,
is delivered at least once or given up only after its attempts; an approval gate
is passed only by an approval of that execution; no branch of the graph is lost
over pauses and reroutes; a running instance is being run by somebody; an
outcome is reported.

### The other services

They have one design: a request handler reads a row, checks it, calls repository
methods that commit one by one, and answers. What distinguishes them is what
stands between two requests that do so at once (a version, a lease, a lock, an
atomic upsert, a unique constraint, or nothing) and what a request that dies
half-way leaves.

| Service | State and operations that carry logic | Correct when | Module |
|---|---|---|---|
| Human Oversight | tickets: enqueue, claim, decide; callback to the requester, retried | what the requester acts on is what a reviewer decided | `HumanOversight`, `ApprovalRoundTrip` |
| Regulatory and Compliance | evidence packs: leased jobs like the outbox, whose generator commits results itself | failed only after its attempts; settled at last | `EvidenceQueue` |
| Tool Orchestration | circuit breaker and reliability score: read, call the tool, save | a tool that works again is used again | `CircuitBreaker` |
| Multi-tenancy | tenant, workspace, environment statuses, cascades; quota counters; allocations | deleted means deleted, all the way down; no window above its limit; one decision per allocation | `TenantHierarchy`, `QuotaCounter`, `ResourceAllocation` |
| Billing and Metering | invoice per tenant and period: generate, finalize | total and completeness are one metering's unless two saves cross; a generation alone leaves its own lines; finalized is final | `InvoiceService` |
| Auditability | per-tenant hash chain under an advisory lock; verifier | one unbroken chain; damage shows, except the loss of the last rows | `AuditChain` |
| Conversational Engine | session status, turns, refusal counter, handoffs, resume from a workflow | handed off means somebody has it; refusals counted; escalations answered once | `ConversationSession` |
| Deployment Strategy | canary, active, superseded: deploy, promote, roll back | one active deployment per target | `RolloutService` |
| Secrets and Credential Management | secret row and versions: create, rotate, revoke | the row names a stored version; the last rotation is served | `SecretLifecycle` |
| LLMOps | model rollouts | as Deployment Strategy, whose shape it has | not modelled |
| Short-Term Memory, A2A | a buffer saved whole; delegated tasks | no message lost | hazard listed |
| Agent Cards, Marketplace, Data Source Plugins, FinOps, Identity and Access, Knowledge Base, Long-Term Memory, MCP, Observability, PromptOps, SDK, Sentinel Agents | request and response over their own tables | | not modelled |
| Agentic RAG, Context Engineering, Evaluation, Graph DB, Guardrails, Intent Detection, LLM Gateway, Multi-modality, Vector DB | computation over models, documents and indexes | | not modelled |

`PROJECT.json` lists every component, and under `hazards` each place where this
code can go wrong in a way a unit test would hardly reach.

## 2. Modules

| Module | What it is |
|---|---|
| `EventDelivery` | what the outbox promises: an announced event is delivered or abandoned, once and for all |
| `EventOutbox` | outbox queries, relay workers, leases, start-up, faults; refines `EventDelivery` |
| `EventOutboxProofs` | proofs about `EventOutbox` |
| `MCEventOutbox` | its instances for TLC |
| `InstanceLifecycle` | what the scheduler promises about status and reports |
| `WorkflowScheduler` | all requests about one instance; refines `InstanceLifecycle` |
| `WorkflowSchedulerProofs` | what holds of `WorkflowScheduler` for every graph and every race |
| `ApprovalGateProofs` | double execution, the lifecycle and the gate, where one step at a time waits |
| `FrontierProofs` | no branch is lost; one gate; workflows whose steps follow each other |
| `MCWorkflowScheduler` | the graphs TLC checks |
| `HumanOversight` | tickets, decisions and callbacks of Human Oversight |
| `ApprovalRoundTrip` | `WorkflowScheduler` and `HumanOversight` joined by their two HTTP calls |
| `RoundTripProofs` | proofs about `ApprovalRoundTrip` |
| `MCApprovalRoundTrip` | a graph of two gates |
| `TenantHierarchy`, `QuotaCounter`, `ResourceAllocation` | Multi-tenancy |
| `InvoiceService`, `EvidenceQueue`, `AuditChain`, `CircuitBreaker`, `SecretLifecycle`, `ConversationSession`, `RolloutService` | one service each |
| `TenancyProofs` | proofs about `ResourceAllocation`, `QuotaCounter`, `InvoiceService`, `TenantHierarchy` |
| `ServicesProofs` | proofs about `AuditChain`, `ConversationSession`, `RolloutService`, `SecretLifecycle`, `EvidenceQueue` |
| `FoldLemmas` | what the proofs need of the recursive library operators `FlattenSeq`, `FoldLeft`, `MapThenSumSet`, `Max` |
| `MCServices` | these ten modules side by side, for TLC: the first state chooses which one runs |
| `MCTenants`, `MCInvoices` | `TenantHierarchy` and `InvoiceService` alone |

A definition whose comment begins with `Bug:` belongs to no specification. It is
the neighbouring definition with a plausible mistake (a dropped guard, an
off-by-one, a missing event), kept to show which property notices it:
`PROJECT.json` pairs each property with one, under `mutants`.

### EventOutbox

One action per query, because each query is one transaction at READ COMMITTED.
`phase[w]` is where worker `w` is in `poll_once` (`poll` before
`fail_exhausted`, `claim` after it, `publish`, `mark`, `requeue`), `claimed[w]`
its event. `status`, `attempts`, `lease` and `created` are the columns. Time is
only what the code compares a lease with: `none`, `live`, `expired`. `Boot` is
`lifespan`: the producer starts if the broker answers *now* and never again, then
the recovery sweep expires every lease, of every process. `publish` may succeed,
fail, or succeed with the answer lost. `QueryFails` is a database error at any
query, `Crash` the death of a process at any point. The instances that enqueue
are reduced to one run each: absent, created, running, completed or failed.

### WorkflowScheduler

One instance, its HTTP requests `1..MaxRequests`, and the tasks of each
request's batch. `row` is the instance row, `execs` the executions in order of
insertion with their approval request and the decisions received, `pc` where each request
is, `my` what it has read, `batch` its tasks.

| Actions | Code |
|---|---|
| `CreateInstance`, `Start` | `start_instance`, `ExecutionScheduler.start` |
| `Refresh` | the loop head of `_run`, on the row as read back |
| `BeginStep`, `CompleteStep`, `FailStep`, `RequestApproval`, `StoreReference`, `AwaitApproval` | `_execute_step`, `request_approval`: one action per commit |
| `Advance`, `BatchRaises`, `SaveFailed`, `SaveCompleted` | the end of a batch and of `_run`, `_fail` |
| `ReadForPause`, `ReadForTerminate`, `Override` | pause and terminate: read, then save the copy |
| `ReadForResume`, `Decide`, `ReadForCallback` | resume; the callback: store the decision, then read the instance |
| `FindExecution`, `ApproveStep`, `RejectStep`, `NothingToResume`, `SaveResumed` | `resume_after_approval` |
| `StepErrs`, `RequestErrs`, `Crash` | errors no handler catches, death of a process |

Writes of a row. `update_instance` selects the row, assigns every column from the
caller's copy, commits, then reads the row back. `Save` is the first three and
`Refresh` the last. The ORM leaves out of the UPDATE the columns that equal what
was selected, and nothing locks the row between the two. So each *column* is left
as it would be by a save of the whole copy, at the UPDATE if it is written and at
the SELECT if it is not; but when another request commits in between, the status of
one may stand beside the frontier of the other. `Save` is atomic and leaves that
mixture out. What it means for the runs:

- In `approvals`, and under the hypotheses of `ApprovalGateProofs` and
  `FrontierProofs`, one request at a time works on the instance (`Baton`), so no
  commit comes in between.
- In `controls` saves may cross. Its properties are about the status, who runs the
  instance and what was reported with the status in one commit, for any frontier:
  a mixture is to them a status with some other frontier.
- The traces of `terminated`, `redelivery` and `branch_first` have no commit between
  a SELECT and its UPDATE.

Abstracted: contexts and outputs (a conditional edge may hold or not, a neural
step may be confident or not); the retries inside a step, which write nothing;
compensation steps, whose result is dropped; best-effort events and metrics;
requests answered with 404, 409 or 422, which change nothing. A graph is any
that satisfies `GraphIsValid`, weaker than what `parse_and_validate` demands.

### HumanOversight and ApprovalRoundTrip

`ticket` is `oversight_requests`, `decisions` and `overridden` are the decisions
and override tables, `call[c]` is where an API call is, `posts` the attempts of
callbacks that are on the network. `ReadForDecision`, `StoreDecision`,
`LogOverride`, `SettleTicket` are `DecisionCapture.capture`, one action per commit;
`CallbackTimesOut` and `CallbackAnswered` the dispatcher with its retries. Nothing
ever takes a post off the network but its arrival, so it may come late, after its
successor, or never. `sweep_expired` has no caller in the code, so no ticket expires.

`ApprovalRoundTrip` replaces the two places where `WorkflowScheduler` leaves the
other side open. `RequestApproval` stores the approval, `AskArrives` is its POST
(a first attempt, or a repetition at any later time, which makes a second ticket),
`AskAnswered` stores the reference. `CallbackArrives` is `Decide` with the verdict
and the approval that the post carries; an override is answered with 422
(`CallbackRefused`).

### The service modules

Each has one action per commit and per remote call; a request that dies does so
between any two. Saves of a copy write as the engine's do: the columns that differ
from the row just selected, without a lock.

- An invoice has two columns that a property relates, and two generations of a draft
  may change both, so `InvoiceService` models the SELECT and the column-wise UPDATE as
  two actions: crossed saves leave one call's total with the other's completeness.
- A tenant's and a ticket's status, a session's, a deployment's stage, a score and a
  pack's outcome are single columns here: a save that crosses another leaves what it
  would leave at its UPDATE, or, when it writes nothing, at its SELECT.
- A secret's row has a status and a current version, which only a revocation and only a
  rotation changes; `CurrentIsStored` is about the second alone, and
  `LastRotationServed` is about calls that nothing runs beside.
- Requeuing a pack resets its status and its lease; a lease is looked at only while the
  pack is `generating`.
- Workspaces, environments and allocations are compared and swapped, quota counters are
  upserted by one statement, claims lock their row, and the breaker's state is a value of
  a store that is set whole.

| Module | Variables | Actions |
|---|---|---|
| `TenantHierarchy` | `tenantStatus`, `node` (status, version), `hreq`: what each request has left to do | `RegisterNode`; `ReadTenant`, `SaveTenant` (no version); `GetNode`, `SwapNode` (compare-and-swap); `CountRows`, `ListRows`: the two queries of a page of the cascade |
| `QuotaCounter` | `quotaLimit`, `window`, `counter`, `quotaCall` | `SetLimits`, `WindowMoves`; `ReadQuota`, `Consume`: the two commits of `check_and_consume` |
| `ResourceAllocation` | `allocation`, `activations` in order of `updated_at`, `review` | `RequestChange`, `CreateAllocation`; `AskReview`, `ReadForReview`, `SwapReview` |
| `InvoiceService` | `usage`, `usageRecords`, `invoice`, `lines`, `billing`, `savesCrossed` | `ReadForInvoice`, `MeterResource` per resource, `SkipResource`; `CreateInvoice`, or `SelectForDraft` and `UpdateInvoice`; `DeleteLines`, `InsertLines`; `ReadForFinalize`, `SelectForFinalize` and `UpdateInvoice` |
| `EvidenceQueue` | `pack` (status, lease, attempts), `packWorker`, `overrun` | `QueuePack`; `RecoverStuckPacks`, `FailExhaustedPacks`, `ClaimPack`, `SavePack`, `RequeuePack`; `PackLeaseEnds`, `PackErrs`, `PackWorkerDies` |
| `AuditChain` | `chain`, `chainWriter`, `damages`, `brokenAt` | `LockAndReadLast`, `InsertEvent`, `ChainWriterDies`; `PayloadChanged`, `RowLost`, `RowsExchanged`; `ChainBreaks` is `verify_chain` |
| `CircuitBreaker` | `breaker`, `score`, `caller`, `toolUp` | the steps of `invoke` (`CallerStep`); `WindowEnds`, `ToolGoesDown`, `ToolComesUp` |
| `SecretLifecycle` | `secret`, `versions`, `secretCall` | `CreateSecret`, `StoreFirstVersion`; `ReadSecret`, `StoreVersion`, `SaveRotated`, `SaveRevoked` |
| `ConversationSession` | `session`, `messages`, `handoffs`, `refusals`, `instances`, `chat` | a turn on either path (`Inbound` to `SaveSession`), `RequestHandoff`, `CloseSession`, `Resume` to `Relay`; `StateExpires` |
| `RolloutService` | `stage`, `rollout`, `overlapped` | `Deploy`; `ReadForPromote`, `CheckHealth`, `FindActive`, `Supersede`, `SaveActive`; `ReadForRollback`, `SaveRolledBack` |

## 3. Runs

| Run | Question | Instance and bounds |
|---|---|---|
| `outbox` | Is every event delivered at least once, at most once per claim, or given up only when it has earned it? Does the outbox implement `EventDelivery`? | 1 instance (2 of its 3 events arise), 2 workers, `MaxAttempts` 2, 1 fault |
| `outbox_outage` | Does the backlog drain when the broker comes back (`main.py:107-112`)? *No* | 1 worker, no fault but the broker's initial state |
| `outbox_exhausted` | Is an event never tried more than `max_attempts` times (`outbox_worker.py:19-22`)? *No* | 2 workers, no fault |
| `approvals` | Are gates respected, steps not executed twice at once, branches not lost? Does the scheduler implement `InstanceLifecycle`? | a graph with a gate, two branches, a join, a conditional edge, fallbacks; 2 parallel steps, 5 requests, one answer per approval, 2 faults |
| `controls` | Under any race of operators and repeated callbacks: is a running instance run, does it settle, is its outcome reported? | a chain with a human and a neural step; 3 requests, 2 answers per approval, 2 faults |
| `terminated` | Is terminated final (LLD, `docs/module-01-workflow-engine-lld.md:187`)? *No* | the chain, 3 requests, no fault |
| `redelivery` | Is double execution avoided (LLD :384)? *No, when a callback is repeated* | the chain, 3 requests, 2 answers per approval |
| `branch_first` | Is no branch lost, as long as one step waits at a time (`scheduler.py:15-18`)? *No, when a sibling comes before the gate* | the graph of `approvals` with the gate last |
| `round_trip` | Across both services, is what the engine acts on what a reviewer decided, and is the reviewer heard? | two gates in a row, 3 engine requests, 2 tickets, 2 calls, 2 attempts per callback, crashes of Human Oversight, posts delayed and lost; tickets and calls are symmetric |
| `services` | Twenty properties of the ten services | one service per behaviour, see below |
| `invoice_reopened` | Is a finalized invoice final (`invoice_service.py:49-50`)? *No* | 3 calls, 1 resource |
| `cascade_retry` | Does a cascade that died converge when it is repeated (`tenant_registry_service.py:137-141`)? *No* | 2 workspaces of 1 environment, 2 requests, either of which may die |

`round_trip` has about 517,000 distinct states, `services` 409,000 (two to three minutes).
The state space of `services` is the sum, not the product, of the ten: the first
state chooses one and the others stay as they start.  The calls of a service are
alike, and TLC's symmetry is unsound beside the liveness properties of this run, so
`MCServices` numbers them: quota and billing calls in the order in which they begin,
tenancy requests in the order of what they ask. Any behaviour is one of those after
renaming its calls, and no property tells one call from another by its name.

Why the bounds are enough to be interesting. Two workers are what every race of
the outbox needs (claim against fail_exhausted, lease against late answer);
`MaxAttempts` 2 distinguishes the last attempt from an earlier one; one fault is
a crash, an outage or a lost answer at any point, and lease expiry is not
counted as a fault. Rank `created` makes one instance's events compete for the
oldest place. In the scheduler five requests are one start and four callbacks,
enough for the gate, the neural steps on either side of it and a rejection that
reroutes; three requests in `controls` let two of them race on the row while a
third runs it; two faults let a process die after another request has failed.

In `round_trip` two gates tell an answer about the first from one about the second;
two calls let two reviewers decide one ticket, or each one of two tickets about the
same approval; with two attempts per callback both may arrive, either first.
In `services`:

- tenants: 1 workspace with 2 environments listed a page at a time, so that a
  registration can shift a page under a cascade; 2 requests, either of which may die at any step;
- quotas: 3 calls of 1 or 2 units against limits of 0, 2 and 3 that change, 2 windows;
- allocations: 2 allocations, 2 reviewers, capacities within and beyond the 20 % that
  the policy approves;
- invoices: 1 resource, 3 calls, usage that grows while they meter: one call leaves a
  draft, and two generations, or a generation and a finalization, race over it;
- evidence packs: 2 packs, 2 replicas, 2 attempts, 1 fault, 3 claims of a pack
  (one more than `PackMaxAttempts`);
- audit: 4 appends of 2 payloads, 1 damage: enough for a damaged row with rows on
  either side, and for a lost last row whose number is used again;
- breaker: 2 callers, 2 attempts each, an outage, 4 score levels of which 2 trip it;
- secrets: creation and 3 calls; rollouts: 2 deployments, 3 calls; conversations: 2
  requests, 2 refusals, with and without workflow routing.

What the violated runs show is recorded under `findings`. They are behaviours of
the code that a comment or document beside it rules out:
an outage at boot loses the backlog; one attempt too many; a run overwrites a
termination; a repeated callback executes the next step twice; an approval
lands on the step at the head of the frontier instead of the one that asked; a
generation under way makes a draft of a finalized invoice; a repeated suspension is
refused and its cascade left undone.

Deadlock is checked for the outbox, whose workers poll for ever. It is not for
the others: an instance that has ended, or waits for a human who never
answers, has no next step, and the services have a bounded number of requests.

Limits of the passing runs, each a fact about the code. `GateRespected`,
`NoDoubleExecution` and `NothingSkipped` are checked without operator requests
and with one answer per approval: a manual resume *is* an approval of the
frontier's head, and repeated callbacks are the subject of `redelivery`. The
graph lets one step at a time wait, the assumption `scheduler.py:15-19` states
and nothing enforces; with two human steps in one batch, a decision about the
second completes the first. `ReviewerIsHeard` says that the verdict is
*recorded*: one that arrives before the pause is saved resumes nothing.
`RunningIsOwned` and `RunsSettle` hold as long
as no request has died: nothing recovers a `running` row after a crash.

Several properties of the services have a condition. Each is a fact about the code
too: without the condition TLC finds a counterexample (for `EveryPackSettles`, which
the bound on claims would hide, see the last column).

| Property | Holds | Otherwise |
|---|---|---|
| `DeletionReachesAll` | unless a registration shifts the pages (`PagesShifted`) | the cascade counts the rows, then lists a page by offset, newest first: a registration between the two pushes a row off the last page, and it stays active |
| `PackFailureIsEarned` | before a first crash or error | a worker that dies between `failed` and the requeue leaves it failed early |
| `LeaseKeepsApart` | for packs whose lease has not ended under a worker (`overrun`) | two workers generate one pack, and the last one's outcome is saved |
| `EveryPackSettles` | unless the pack gets to `MaxClaims` | two replicas, each past `fail_exhausted` when the other requeues, can hand a pack to each other for ever: the code bounds no claims, the model does |
| `LastRotationServed` | while no call dies or runs beside another (`undisturbed`) | two versions with one number, or one the row does not name, which is served |
| `RefusalsHandOff`, `EscalationsAnswered` | while requests come one after the other (`calm`) | a refusal is lost; an answer is relayed twice |
| `OneActive` | until two promotions overlap | both find the same active deployment and both become active |
| `LinesAddUp` | for a generation no call ran beside | lines of both calls |
| `InvoiceIsOneMetering` | total and completeness are one call's until two saves cross (`savesCrossed`); each is always what some call metered to the end | two regenerations of a draft select it before either updates it; each writes only the columns that differ, and the total of one stands beside the `complete` of the other. "Metering accuracy is a real flag on every invoice" (`modules/billing-and-metering/README.md:49-52`) is then not so |
| `DamageShows` | for every damage but the loss of the last row; for that one the property says the opposite | the chain that is left verifies as valid, and the next event takes the lost number. `hash_chain.py:9-11` ("Altering, deleting or reordering any entry breaks every subsequent" hash) and `docs/module-20-auditability.md:15` ("A single altered, deleted, or reordered row breaks the chain") say otherwise: nothing outside the rows says how long the chain was |
| `GateBackedByHuman` | until an approval is answered twice | a second answer completes another step than the one it is about |

### Fairness

`EventOutbox`: weak fairness of each worker's poll step and of booting (an
asyncio loop that never ends, restarted by its supervisor), of each lease
running out (time passes), and of the broker coming back. None is assumed of
instances starting or ending, and none of a publish *succeeding*. Liveness is
checked with unbounded requeues but finitely many faults.
`WorkflowScheduler`: weak fairness of each accepted request and of its tasks (the
event loop runs them, clients have timeouts, retries are bounded). Nothing makes a
human decide or an operator intervene.
`EvidenceQueue`: weak fairness of each worker's loop, its restart included, and of
each lease ending. `CircuitBreaker`: agents go on calling and calls go on (the tool
client has a timeout), and retry windows end; the tool coming up is a hypothesis of
the property, not an assumption. The other modules are checked for safety only.

## 4. Proofs

Theorems are about `Safety == Init /\ [][Next]_vars` of the outbox and the scheduler,
`RoundTripSpec`, or a service's whole specification (`ChainSpec`, `RolloutSpec`, ...),
for every value of the constants that satisfies the named assumptions:

- finite sets of instances and workers, a positive attempt limit; a valid graph, a
  positive parallelism, bounds that are numbers;
- packs are numbered; `NoDeployment` is no deployment; finitely many quota calls, and
  amounts, limits and windows that are numbers; `UnitPrices` is a sequence of
  resources; a page has at least one row; there is a conversation request at all,
  and `MaxRefusals` is positive (`repeated_refusal_threshold`, whose default is 3: at
  0 every turn hands off, but a conversation without a turn is active).

### The outbox

`EventOutboxProofs`. The inductive invariant is `OutboxInv`. `RetriesBounded`
is not inductive: an event that has used its attempts may be claimed again by
workers already past `fail_exhausted`. `LateClaimsBounded` counts them: once
a pending event has `MaxAttempts` attempts, its attempts and the workers in phase
`claim` together stay below the bound, since each such claim moves a worker out
of that phase and nobody enters it without failing the event first.
`DeliveriesHaveClaims` needs the same kind of counting, of publishes under way,
because a lease can run out under any of them; `HeldRowsExist` ties what a worker
holds to the table. From it follow `NoDualWriteHolds`,
`DeliveriesHaveClaimsHolds`, `RetriesBoundedHolds`, the action property
`GivingUpIsEarnedHolds`, and `ImplementsDeliverySafety`: every step maps to a step or
a stutter of `EventDelivery`. Two counting lemmas (a worker enters or
leaves a set of workers) rest on the library's cardinality theorems.

### The scheduler, for every graph

`WorkflowSchedulerProofs`. `TypeCorrect` carries what later proofs need: a task
that executes points at an execution of its own step. `RunningIsOwnedHolds`: a
request stops owning the instance only in the action that saves another status
or has just read one, so the property is inductive given the types.
`OutcomesReportedHolds` needs `StartedFirst`: until workflow.started is queued
every frontier is empty, so no racing resume or termination can reach an outcome
before it. Both theorems include operator requests, repeated callbacks and
faults, on any graph.

### The scheduler, as `scheduler.py:15-19` means it to be used

The properties of `approvals` are false of the code in general: the runs
`redelivery` and `branch_first` are counterexamples, and a manual resume is an
approval. So their theorems have hypotheses, which say what the code relies on and
does not enforce: no operator requests (`Controls = {}`), and as state
predicates that are to hold throughout

| Hypothesis | Says | Without it |
|---|---|---|
| `OneWaits` | of one batch at most one step waits for an approval (`scheduler.py:15-19`) | an answer about the second completes the first |
| `AnsweredOnce` | an approval is answered once | the run `redelivery` |
| `WaitsInFront` | what runs in a pause is an execution of the frontier's first step | the run `branch_first` |

They are predicates on the state because they are about graph, answers and
timing together. On the graph of `approvals`, where a step of the middle of the
graph asks for an approval beside two branches, and the steps before and after it
may ask too, they hold. Three theorems then remove them:

- `OneGateSuffices`: if only one step of the graph can ask at all, and the environment
  answers an approval once (`MaxAnswers <= 1`), the first two follow, and with them
  `NoDoubleExecution` and `ImplementsLifecycle`.
- `SequentialWorkflows`: if every step has at most one successor, all follow, and with
  them all four properties, with any number of gates, fallbacks, crashes and errors.
- `SequentialRoundTrip`: for such workflows `GateBackedByHuman` holds without a
  hypothesis even about the number of answers.

`ApprovalGateProofs`. The inductive invariant `Baton` says that one request at a time
works on the instance and how it hands the work on: only by saving a pause,
after which either one approval is open, or one callback about it is being
handled, or one request has taken the work up (`AnswersOK`). A request works from its
read of a running or paused row to the end of its run, so the row's status at each
place (`StatusOK`) says who may take over. `NoDoubleExecution` follows, since a task
executes only under a request that works. With `Baton`, the outbox follows from where
the one request is (`OutboxOK`), and each action maps to a step or a stutter of
`InstanceLifecycle`. For the gate, `GateInv` adds who owns an execution that runs: a task of
the batch, or in a pause the one approval that waits or is being answered
(`BatchRunsOK`, `PauseRunsOK`), so that the execution that
`resume_after_approval` finds by the frontier's first step is the one the decision is
about.

`FrontierProofs`. `Owing` follows the branches: whatever an ended execution is
due (its unconditional successors, or its fallback) has been executed after it, or
is in the frontier, or is queued in the batch, or hangs on a task of the batch that
has ended; at a pause what is due is behind the frontier's head, and at completion
nothing is. The step from a batch to the next frontier needs what the fold
contains that joins the tasks' continuations and drops repetitions:
`FoldLemmas` proves it of the library's `FlattenSeq` and `FoldLeft`. For `SequentialWorkflows`,
`SingleFile` (frontiers and batches of one step) is inductive and gives `OneWaits`, and
`WaitsInFront` follows with `Owing`.

### The round trip

`RoundTripProofs`. The engine's actions and those of Human Oversight are taken apart:
a step of the engine leaves the tables of Human Oversight alone and only adds to
the executions (`RecordsGrow`), a step of Human Oversight leaves the engine alone.
`RoundTripInv` says that a call's decision is its own and stored (`CallOK`), that
posts and requests carry decisions that are stored (`PostOK`, `CarriesOK`), and
that tickets are about executions that exist. `AnswersOnRecordHolds`,
`DecidedOnRecordHolds` and `ReviewerIsHeardHolds` need no hypothesis: they hold for
any graph, operator requests, lost and repeated posts and crashes.
`GateBackedByHumanHolds` joins them with the gate: every step of the pair is a step
of the scheduler or leaves it unchanged, so `Baton` and `GateInv` carry over for as
long as no approval has been answered twice, which is the condition the property
itself has.

### The services

Each proof is of an inductive invariant that says what a copy that a request holds
has to do with the row it was read from.

| Theorem | The invariant, and why it is needed |
|---|---|
| `ChainAlwaysVerifies`, `AppendsNeverRefused` | `ChainInv`: while a chain is undamaged its numbers count up (`Ordered`), at most one writer is between its read and its insert (`OneInserts`), and what it read is still the last row (`ReadIsLast`) |
| `DamageAlwaysShows` | `Shown` carries damage through later appends: what is before the damaged row still verifies and the row itself does not; after the loss of the last row what is left is an undamaged chain, and stays one (`NoneShows`). The hash is injective because an entry's hash *is* the tuple of what it covers |
| `OneActiveHolds` | until promotions overlap, at most one is under way (`OnePromotes`), and what it has found is what is active, or nothing is (`FoundIsActive`) |
| `HandedOffHasEventHolds` | a request that will save `handed_off` comes after a handoff event (`CopiesHaveEvents`) |
| `RefusalsHandOffHolds`, `EscalationsAnsweredHolds` | `CalmInv`: while requests come one after the other, the conversation satisfies at each place of the one that is under way what its messages ask for: the stored count, or the copy that will be stored, is the number of refusals since the last other reply (`RefusalsFit`), and relays equal escalations, or are one behind (`RelaysFit`) |
| `CurrentIsStoredHolds` | a number that a call will save is one that is stored (`CopiesAreStored`) |
| `LastRotationServedHolds` | `ServedInv`: while nothing disturbs, one call runs, its copy is the row, and the highest version is the row's current one, or the next while a rotation is saving |
| `LeaseKeepsApartHolds`, `PackFailureIsEarnedHolds` | `LeaseInv` ties a worker to a live lease as long as the pack's has not overrun, `FailureInv` a failed pack to its attempts or to the worker that is about to requeue it |
| `AllocationDecidedOnceHolds`, `PolicyFollowsReviewerHolds` | a copy is never ahead of its row, and while it is level the row still waits for its decision (`ReviewsBehind`), so of the reviewers one decides (`OneDecides`); the policy approves only when something is active, and the first that ever was, a reviewer made so (`FirstByReviewer`, `ApprovedAfterFirst`) |
| `AllowedWithinLimitHolds` | `QuotaInv`: the counter of a window holds at least the sum of what its callers were allowed (`AllowedIsCounted`), and the caller that was allowed last had a limit that covers that sum (`LimitCoversAll`) |
| `InvoiceIsOneMeteringHolds`, `LinesAddUpHolds` | `InvoiceInv`: each column of the row, and of every copy of it, is what some call has metered to the end, and all of them one call's until saves cross (`RowsSourced`); until then, one call at a time is between its SELECT and its UPDATE and has selected the row as it still is, so that the UPDATE leaves its whole copy (`OneSaves`); a call that ran alone knows what the lines and the row are at each of its steps (`AloneKnows`) |
| `DeletedStaysDeletedHolds` | `HierarchyInv`: whatever a request has still to do, a node was listed with a version it has or had, and where it still has it the check that was made is still true (`Fine`) |
| `DeletionReachesAllHolds` | `CoverInv`: of a deletion that runs, each covered node is deleted, or shifted by a registration (`Excused`), or named by something still to do (`Reaches`): a check or write of the node itself, or a count or a page of rows whose numbers take in the node or the workspace above it. That needs covered sets to hold older siblings with a node (`Closed`), so that the position of a row in a page is its number, and counts to be right unless a row has come since (`CascadeRows`) |

`FoldLemmas`. The library defines `FlattenSeq`, `FoldLeft` and `MapThenSumSet` by
recursion, and its induction theorems take an operator as a parameter, which the
provers cannot instantiate. `SetInduction` is the way round: induction with the *set* of the
numbers for which a formula holds, from the well-foundedness of `<`. `Sums` builds
the functions that satisfy the recursion of `MapThenSumSet` and shows that any two of
them agree, so what `CHOOSE` picks is the sum.

### Only model-checked

- Liveness, which is out of the prover's reach: `EveryEventSettles`, `RunsSettle`,
  `EveryPackSettles`, `BreakerRecovers`, and the liveness half of
  `ImplementsDelivery` (`ImplementsDeliverySafety` is its steps).
- What a hypothesis excludes is shown by a run, not by a theorem: `redelivery` and
  `branch_first` for the scheduler. The runs that expect a violation are about
  single behaviours, and need no proof.

Every other property of a passing run is stated by a theorem: the scheduler's under
the hypotheses above, the others under none, beside the guard that stands in the
property itself (section 3 says why it is there).

## 5. Not modelled, and plan

Not modelled: the workflow parser and step executors (pure, or calls to other
services); `LLMOps`, whose rollouts have the shape of `RolloutService`; the outbox of
Multi-tenancy and the audit-pack worker, which repeat the Workflow Engine's outbox and
the evidence worker; the buffer of Short-Term Memory, one unguarded
read-modify-write; expiry of tickets, which nothing calls; the services that are
tables behind an API or computations over models. In the services modelled in part,
`PROJECT.json` says what is left out. The modules cover the code that changes shared
state; most of the repository's lines are routes, schemas, clients, metrics and
computations that none of the properties here is about.

Next, in this order:

1. An abstract job (queued, then completed or failed for good) that `EvidenceQueue`
   implements while nothing overruns, and its refinement.
2. Identity and Access: tokens and grants; A2A: delegated tasks.
