# Forge Engineering Fabric: formal models

TLA+ specifications of the parts of the platform whose correctness depends on
concurrency, retries, ordering, crashes and partial failure, the TLC
configurations that check them, and TLAPS proofs of the properties that matter
most.

The repository is about forty services (Go and Python), packages they share, a
portal, a CLI and policies. Almost every service keeps its state in memory behind
one mutex or in Postgres, and talks to the others over HTTP or CloudEvents. A
request does its work in several steps (a lock, an SQL statement, an HTTP call),
and other requests can come between any two of them: that is what the models are
about.

```
  webhook   cron   bus   mail        symptoms (probe, metrics, logs, ci, webhook)
     |        |     |     |                        |  Symptoms
     v        v     v     v                        v
  +-----------------------------+        +------------------+   +----------------+
  | trigger-router              |        | symptom-triager  |-->| alfred         |
  |  TriggerRegistry/Sources    |        +------------------+   |  AgentSession  |
  |  TriggerDispatch (retries)  |        +------------------+   |  AlfredLoop    |
  +--------------+--------------+        | healing-engine   |   +---+----+-------+
                 | POST /v1/executions   |  HealingEngine   |       |    |
                 v                       +--------+---------+       |    v
  +-----------------------------+                 |                 | gateways
  | workflow-runtime            |<----------------+                 |  Gateways
  |  TriggerLanes (admission)   |                                   v
  |  WorkflowEngine (execution) |   approvals, overrides, audit: Approvals,
  +-----------------------------+   policies, gates: PolicyOverrides, AuditLog, PolicyGates
                 ^
                 | documents      +--------------------+   +----------------------+
  WorkflowLint, WorkflowRegistry  | deploy-orchestrator|   | registry, stores     |
                                  |  DeployOrchestrator|   |  AssetRegistry,      |
  control plane and delivery:     +--------------------+   |  ArtifactStore,      |
   ControlPlane, Applications, SpecMigration,              |  Marketplace         |
   Specifications, Onboarding, SDLCOrchestrator,           +----------------------+
   RuntimeRegistry, Incidents, PlatformOps, Traceability, AssetMetrics
```

Sections: 1 inventory, 2 modules and code, 3 plan, 4 runs, 5 proofs, 6 where the
code and the documents differ, 7 hazards without a property, 8 not modelled.

## 1. Inventory

M modelled, P partly modelled, - not modelled (section 8 says why). `PROJECT.json`
lists the source files of each part.

### The automation core

**workflow-runtime, trigger lanes** (M, `TriggerLanes`, promise `LaneService`).
State: holder counts per (workflow id, trigger id), a mutex and a condition
variable. Operations: Acquire (refuse for `drop`, wait for `queue`, enter for
`overlap`), Release with Broadcast. Hard: the wake-up, the re-check after it, starts
with different policies in one lane (versions of a workflow may differ). Correct
when counts are exact, exclusive starts are serial, nobody parked is forgotten, every
pending start is dealt with.

**workflow-runtime, execution engine** (M, `WorkflowEngine`, promise `Saga`). State:
the `Execution` of the goroutine, its published clone, completed outputs, the
compensable steps, a signal channel of capacity 8, the audit log. Operations:
StartWorkflow, run, runStep (pinning, attempts, backoff), awaitHITLSignal,
compensate, SignalWorkflow, CancelWorkflow, context cancellation. Hard: retries
against permanent errors, signals that arrive before a gate opens, the timer against
the decision, compensation order and completeness, events that share a step id and
attempt number. Correct when it is a saga, attempts are numbered and bounded, events
are closed, decisions are audited, and it ends. Nothing survives the process.

**trigger-router, dispatch** (M, `TriggerDispatch`). State: nothing that outlives a
firing but the dead-letter sink. Operations: Fire, StartExecution with up to
MaxAttempts posts. Hard: the client gives up on a request that the runtime still
serves; answers are lost; attempts of several firings are in one lane. Correct when
every firing ends in one event that agrees with the answers it had.

**trigger-router, registry, cron, event bus, email** (M, `TriggerRegistry`,
`TriggerSources`). State: subscriptions by key, an index by type, cron
entries with captured subscriptions, bus handlers with captured positions, `lastSeen`
per subscription. Operations: IngestWorkflow, RemoveWorkflowVersion, both Refresh,
Tick. Hard: followers are only as good as the last comparison; captured values go
stale; messages arrive during a batch.

**healing-engine** (M, `HealingEngine`). State: envelopes, actions (mutated in place
by a promotion), kill switch, rate buckets, suggestions, decisions. Operations:
Trigger with five paths (L1 notify, L2 suggest, L3 ask, L4 act, L5 act, verify, roll
back), propose-fix, approve/reject, PromoteAction, the setters. Hard: an approval wait
of up to 30 minutes between the checks and the act; pointers to objects that others
mutate; a verification and a rollback that fail; a sliding window.

**deploy-orchestrator** (P, `DeployOrchestrator`). State: deployments with their
revision history and idempotency index, approvals, overrides. Operations: Deploy
(preflight, policies, image verification, apply, verify, notify), automatic and manual
Rollback, approvals. Hard: every request is a goroutine and only the store's methods
are atomic, so statuses and "the previous revision" are stale when used. The event
stream to SSE listeners and the asset recorder are left out.

**workflow DSL** (P, `WorkflowLint`) and **workflow-registry** (M,
`WorkflowRegistry`). Parse migrates deprecated shapes, the schema and the linter
decide, the registry compares a publication with the latest version and decides which
number it may have. Hard: the linter and the engine each have their own notion of a
dependency; only neighbours are compared while a reference to a major version may
resolve to any later one. `checkTargets` and warnings are left out.

### Agents

**alfred, agent-mode sessions** (M, `AgentSession`). State: the session row (status,
plan, revision) and the step rows in Postgres, what each run has loaded of them.
Operations: start, follow-up, plan, dispatch, pause for approval or budget, resume,
replan, cancel, restart. Hard: a run never re-reads the status that cancel and
follow-ups write; several runs of one session; where to go on is computed in three
places.

**alfred, wizard loop** (P, `AlfredLoop`). State: the trace of an intent, the counters
of the guardrails. Operations: run_intent (propose, permission, policy, invoke,
record), the hourly trip count. Hard: permission and policy are two awaits old when the
tool is invoked. Dialogue proxies and token checks are left out.

**approvals** (M, `Approvals`). Requests in memory, written as one file after each
change, events published after that. Hard: a write that fails or is cut short, a crash
in between, two approvers and the expiry sweep. **policy-engine** (M,
`PolicyOverrides`, `PolicyGates`): overrides that are used, revoked or expire, with
events emitted after the mutex; rules that are loaded in any order and combined by
priority and decision, freeze windows over the end of the week, and the gates of the
software life cycle by criticality. The policies of deploy-orchestrator, which combine
rules and freezes for one request, are in the same module. **audit** (P,
`AuditLog`): consumer replicas, a table whose trigger chains rows, verify.

**gateways** (P, `Gateways`). The gates of a call, the rate limit, the signing keys and
their rotation, the relay of an event stream through a bounded channel.

### Autonomous operations

**symptom emitters** (M) and **symptom-triager** (P), `Symptoms`. A state that turns
before its event is published, publications that only log their failure, a bounded
buffer, a consumer that commits one batch behind, restarts of both. The triager's
circuit breaker has no caller.

**incident-detection** (M, `Incidents`). Incidents by signature with a window; the
clock is read before the lock and the event emitted after it.

**platform-ops** (P, `PlatformOps`). Noise rules with pull requests and webhooks, and
the checks in front of mutations. A handler reads a rule, talks to GitHub and updates
the row by its id alone.

### Assets and delivery

**registry** (M, `AssetRegistry`). Versions with a lifecycle, promotion gates, gateway
publication, mirroring, drift. A request is several SQL statements with HTTP calls
between; an UPDATE names the id and never the state that was read.
**artifact-store adapter** (M, `ArtifactStore`): look, upload, sidecar, each of which
may fail or succeed with its answer lost. **marketplace and evolution** (M,
`Marketplace`): listings under one mutex, reviews under none.
**runtime-registry** (M, `RuntimeRegistry`) and **sdlc-orchestrator** (M,
`SDLCOrchestrator`): a store that hands out copies and takes whole copies back.
**asset-observability** (P, `AssetMetrics`): counters, a series with its rollups and the
drift of one asset, fed by events in any order.

**application** (P, `Applications`; **specification migration**, M, `SpecMigration`).
Applications with a slug index, bootstrap, deletion, design-system swaps by pull
request; a dry run, a confirmation and an execution of it. **openspec** (M,
`Specifications`): documents with version files and dialogues that become documents;
handlers are atomic but a write is several files. **traceability** (M, `Traceability`):
a graph fed by events and backfills in any order, and the view of each specification,
which a handler rebuilds after it has linked. **app-onboarding** (P,
`Onboarding`): a pipeline of stages with a stream of events to a viewer.

**control-plane** (P, `ControlPlane`). Rows in Postgres and, written afterwards one by
one and never retried, the OpenFGA tuples that decide who may do what.

## 2. Modules and code

The models name states, operations and variables after the code. The `map` of
`PROJECT.json` gives the lines behind every definition, and a comment in front of
each operator says what it stands for. Values that no property tells apart are
members of small sets.

### The automation core

**TriggerLanes.** Acquire and Release run under the tracker's mutex, so their
critical sections are atomic; `Cond.Wait` splits Acquire into `Park` and a later
`Acquire` or `Park`. `pc` is where each StartWorkflow call, or the goroutine it
launched, stands; `holders` is the map of the code. The policy is per start, since two
versions of a workflow can declare different policies for one trigger. **LaneService**
is the promise: a start is pending until admitted or refused, and exclusive starts
enter an empty lane only. It has no counter and no mutex, and promises no order of
arrival, because the code keeps none. `ImplementsLanesFairly` maps each location to a
stage.

**WorkflowEngine.** One execution: executions share only the map of clones. An action
is what the goroutine does between two points where somebody else can see or influence
the execution (an activity call, a signal wait, a backoff, the update of the published
clone). `exec` is the goroutine's object, `stored` the clone that readers get;
`UndoRefused` is where they differ. A workflow is a record with what the engine reads
of the AST. Values that flow between steps are sets of marks (a result, a decision, a
note, edited inputs, the compensation marker), since the properties only ask where a
value came from. **Saga** is the promise: steps are done once each and after their
dependencies; the execution commits when all are done; after a failure what was done
and can be undone is dealt with, last first; it is given up only between two steps.

**HealingEngine.** One capability and environment; several criticalities, each with an
envelope or none. A `Trigger` call is Match, Decide (or Suppress), the path of its level
and SaveDecision, with other calls and administrators between any two. `objects` are
the Action objects in order of registration, which a promotion mutates in place;
`catalog` is the one the store points to; a call holds a pointer (`action`) and a copy
of the envelope. A workflow call that returns an error may have had its effect
(`lost`). A call takes its time before it enters the limiter (`readAt`), and others
may enter and prune the bucket in between; `passedAt` is the time of those let through.

**TriggerDispatch** composes the client loop with `TriggerLanes` by INSTANCE: each
attempt is a start. `GiveUp` is the client's timeout, a lost answer or a 5xx, after
which the runtime keeps serving the request (`context.WithoutCancel`). The runtime's
handler is a parameter: as built it rejects trigger-originated starts, so the model
also considers handlers that accept them, with the 409 that dispatch.go expects for a
refusal and with the 400 that `writeError` would give it.

**TriggerRegistry** has the registry with its index, the two Refresh functions and
`ChannelBus`, where a subscription is cancelled by the position it had when it was made.
The router's Refresh reads the registry once (`BusRefresh`) and then cancels and
subscribes one key after the other, in any order, since it goes over maps. `shifted` has
the topics on which a handler other than the newest was cancelled: from then on the
positions of that topic are those of other handlers.
**TriggerSources** adds one subscription of the email poller, which reads the same index;
the mailbox follows the `Mailbox` interface (messages since a time, in any order, possibly
again).

**DeployOrchestrator.** One asset in one production environment, the unit of the
revision history and of approvals. A deployment is its position in the history. The
policies other than the approval are an arbitrary decision; signatures are the set
`Signed`; the connector may fail at every call. A request (`Bodies`) declares an image and
perhaps a digest, which the gates look at, and its manifest may name another image, which
is what Apply renders (`Handed`). An approval may name a digest or none, and is compared
only with a request that names one too. `runtime` is the deployments the connector was
asked to run and may have run, in order. The model takes the service with a runtime
provider and a resolver of metadata; `cmd/main.go` sets neither, so that the shipped binary
fails every deployment at its preflight and never comes to the other stages.

**WorkflowLint.** A document goes through Parse (both parsers migrate legacy event
steps), the schema, every rule of the linter that rejects, and then the engine's
scheduler, so that a property can compare what is accepted with what runs.
**WorkflowRegistry** compares versions by inputs, outputs, triggers and steps the way
`DiffWorkflows` does and has version numbers with pre-releases.

### Agents and governance

**AgentSession.** A run is one activation of `execute_session` (the task of a start or a
follow-up, or the request that resumes); each await is a point where requests and other runs
come between. A run's copy of the plan is its own. **AlfredLoop** is one intent, a step and
an await at a time, and the process's guardrails with the trips of the last hour. **Approvals** has
memory, file and told events; a write may fail, and the process may die before, within or
after it. **PolicyOverrides** changes a state under the mutex and emits later, from a
pointer. **PolicyGates** evaluates requests against a list of rules, a list of freeze
windows and the gates, as functions; its state is the hour of the week, the rules that are
loaded, the approval held for each environment, and whether there is an external engine to ask
(`engine`: the service may be built without one, as the shipped binary is). Digests are
compared only where the approval and the request both name one. **AuditLog**: polls, inserts, commits and
deaths of several replicas; an insert's trigger sees the rows that were committed when it
began. **Gateways**: one call with its gates, the fixed-window limiter, keys and rotation,
the relay with its channel; the two relays and key rings are the same code twice.

### Operations, assets, delivery

**Symptoms** joins emitters and triager over one topic partition: probes, metric
thresholds, log patterns with their buffer, webhook and CI receivers; failed
publications go to `missing`. **Incidents** separates reading the clock, the locked
upsert and the emission. **PlatformOps** separates reading a rule, GitHub's calls and
the UPDATE; webhooks and merges come at any time, and a webhook need not tell of a merge
where no secret is configured (`signed` is FALSE).

**Traceability** keeps the nodes and links, the view of every specification and where each
handler of an event stands. **AssetMetrics** has the invocations and installs of one asset
and answers with a series, its totals, percentiles and rollups, and the drift of the scores.

**AssetRegistry** has the version rows, the shared endpoint row, the package table, and
every request as a sequence of statements and calls. (The re-verification reads stored
hash and endpoint in one step.) **ArtifactStore** has one version, clients with the four
drivers, each request with success, failure, or success with its answer lost. The store may
be publicly readable (`open`); only GitHub's driver asks, the others report that they are not
(`IsPublicStorage`). **Marketplace** has listings, whose visibility is one of the four tiers or
something else, since nothing validates it, installs and proposals, each acceptance of which
makes a change. **RuntimeRegistry** and
**SDLCOrchestrator** give each operation its copy (`Get`) and let it overwrite the row
(`Update`). **Applications**, **SpecMigration**, **Specifications**, **Onboarding** and
**ControlPlane** follow their handlers, cut where they call others, release the lock,
await, or may die. **Applications** checks the design system of a creation or a change only if
the service has a resolver (`resolves`; `cmd/main.go` sets none); a swap goes through a service
of its own that always has one. In `ControlPlane`, `writing` holds the tuples that a handler still
has to write; a write may fail, and nobody retries.

What a deployment of the service fixes (`open`, `engine`, `resolves`, `signed`, the handler of
TriggerDispatch) is a variable or constant that is arbitrary at first and never changes.

`MC*` modules give the constants their values where a `.cfg` cannot: `MCWorkflowEngine`,
`MCWorkflowLint` and `MCServices`. `HealingEngine` and `DeployOrchestrator` have the small sets of
their instances at their end.
The services that share no state are instantiated side by side: **Oversight** and **Delivery**
have those that theorems are about, and name what the theorems assume of the constants;
**MCServices** extends both and adds the others. A behaviour of MCServices is one of any of
the services (`part`), and the variables of the others stand still at `Off`, so that one run
checks them all and evaluates the assumptions. **MCWorkflowLint** has the documents that are
linted. `*_proofs` hold the proofs.

## 3. Plan

Done, in this order: `TriggerLanes` and `LaneService` with proofs; `WorkflowEngine` and
`Saga`; `HealingEngine`; `TriggerDispatch` composed with the lanes; `TriggerRegistry` and
`TriggerSources`; `DeployOrchestrator` with proofs; then `AgentSession` and `Approvals`,
the governance services, the registry and its stores, the delivery services, the control
plane, symptoms and incidents, the workflow DSL, policies, traceability and metrics. The
proofs about the automation core came first; then those about the services, one after the
other in `Oversight_proofs` and `Delivery_proofs`, each taken to the specification of the run in
`Services_proofs`.

Left:

- the parts of `AppsSound` that no recursion stands behind (applications, migration,
  specifications, views and metrics);
- the listeners of the deployment event stream, which join and leave while events are
  appended, composed with `DeployOrchestrator`; the archiver and legal holds of audit;

## 4. Runs

| run | module, specification | instance | distinct states |
|---|---|---|---|
| `lanes` | TriggerLanes, FairSpec | 3 starts, 2 lanes, every assignment of 3 policies | 30 thousand |
| `engine` | MCWorkflowEngine, FairSpec | 6 workflows of up to 4 steps, 3 client messages, channel of 2 | 380 thousand |
| `healing` | HealingEngine, FairSpec | 2 calls, 2 criticalities, 3 envelopes, 2 actions, 1 request, 2 hours | 1.13 million |
| `healing_limit` | HealingEngine, Spec | 4 interchangeable calls, a limit of 2 in an hour of 2 ticks, clock to 4 | 142 thousand |
| `dispatch` | TriggerDispatch, FairSpec | 2 firings of 2 attempts into one lane, 3 handlers | 118 thousand |
| `deploy` | DeployOrchestrator, Spec | 2 deployments, 1 rollback, 1 request id, 4 kinds of request over 2 images, 2 admin steps | 4.6 million |
| `services` | MCServices, Spec | 26 parts, below | 2.33 million |
| `engine_stale_signal` | MCWorkflowEngine, Spec | the workflows of `engine`, 2 messages | violation |
| `healing_kill` | HealingEngine, Spec | 1 call, 2 requests | violation |
| `trigger_bus_shift` | TriggerRegistry, Spec | 2 versions on one topic, 5 changes | violation |
| `agent_cancel` | AgentSession, Spec | one run, plans of 2 and 3 entries, 1 disruption | violation |
| `lint_deadlock` | MCWorkflowLint, Spec | the 6,564 documents of the module | violation |

**lanes.** `HoldersExact`: the count of a lane is the number of executions in it.
`LaneSerial`: `queue` and `drop` exclude each other, also when `overlap` starts come
between. `NoLostWakeup`: a parked start has an execution left to wake it.
`ImplementsLanesFairly`: the tracker refines `LaneService` with its liveness. Three
starts are the least with which one holds a lane while two compete for it, and two lanes
let Broadcast wake a start of the other lane.

**engine.** `AttemptsInOrder` (numbering, bound, never after a success),
`NoEventLeftOpen` (an event that is running or waiting is the last one and its attempt is
under way, although compensations repeat step ids and attempt numbers), `SagaReverse`
and `CompensatedBeforeEnd` (which steps are compensated, in which order, before the
end), `GatesAudited` (a passed gate has its one audit entry with the inputs it passed
on), `ImplementsSaga`, `EventuallyOver`. The six workflows take every path of the code:
retries with a step that is its neighbour's compensation, two gates in a row with all
timeout policies, a gate as a compensation, steps outside the pinned assets, unresolvable
dependencies, an unbound trigger. The channel has room for 2 of 3 messages, so it fills.

**healing.** `OutcomeTruthful` relates the saved decision to what the workflow did to the
system, errors of execute and rollback included. `UndoneWasReversible`: nothing is rolled
back whose action was not registered as reversible, whatever is registered or promoted
while the call runs. `EveryTriggerSettles`. Two calls with a limit of one meet at both ends of
the window (`Hour` is one tick, the clock has two); one administrative request can be placed
anywhere between their steps, and a promotion is two steps of its own.

**healing_limit.** `RateLimited`: of the calls that read the clock and enter the bucket within
one hour no more pass than the limit. The code reads the clock before it takes the bucket's
lock, so a call may come to the bucket after one with a later time has pruned what it should
have counted, and three calls stamped within an hour may pass a limit of two; what does hold
bounds the calls whose reading and entry both lie within the hour. Four calls, a limit of two
and an hour of two ticks are the least with which such an overtaking happens next to a full
window.

**dispatch.** `EventsFollowAnswers`: one event per firing, `fired` only if an execution
exists, `dropped` only if an attempt was refused, `failed` exactly for the dead-lettered,
and not before the last attempt unless the runtime said so. `EveryAttemptServed`: an attempt
that waits in the lane, given up by its client or not, is served or refused in the end, so
that nobody waits for ever behind one that nobody listens to any more. `EveryFireReported`. Two attempts are enough for an abandoned first
attempt to meet its own retry and another firing's in the lane.

**deploy.** `RequestAppliedOnce`: requests with the same id run at most one deployment.
`RunsOnlyCleared`: whatever the connector was ever asked to run declares an image and a digest
that a forward deployment took through the approval and the signature check (or was exempted
from it), rollbacks included, although a rollback passes neither gate; digests are compared as
the code does, where both sides name one, and a rollback hands over that very image.
`RolledBackWasReplaced`: a deployment marked rolled back was replaced by the image and digest of
another. Two deployments and a rollback are the least with which the history has something to
restore and to undo while a third request changes it; two administrative steps approve and
override, approve twice, or approve and expire. Requests are of a signed image with and without
its digest, of an unsigned one, and of one whose manifest names another image; permutations of
the requests are a symmetry. What the property cannot say is in section 6: an approval lets an
image without a digest through whatever it is of, and what runs may be the manifest's image, which
nothing verified.

**services.** One behaviour is of one part; each property speaks of the parts named.

| property | part (module): bounds, states of the part alone | what it says |
|---|---|---|
| `CatalogSound` | `registry` (AssetRegistry): 2 versions, 2 requests; 147 k | a published version had been approved above T0; a skill's row agrees with the package table when two publications meet; drift deprecates what was approved with another manifest |
| | `marketplace` (Marketplace) | an install of a listing of one of the four tiers is still what a search would show there; each change has an acceptance of its own behind it though two reviews met |
| `StoreSound` | `artifacts` (ArtifactStore): 2 jobs, 2 digests, 1 delete; 21 k | what was acknowledged is what Get returns and is acknowledged once; the sidecar tells the bytes' digest; a store that reports itself public receives nothing |
| `AppsSound` | `applications` (Applications): 2 calls, 2 applications, 2 pull requests; 217 k | slugs and applications agree; where the service resolves design systems, only ones approved at some time arrive, and by a swap always, late merges included |
| | `migration` (SpecMigration): 98 | only what the dry run called an orphan is purged |
| | `specifications` (Specifications): 254 k | a document's history is whole but for one number a crash cut, and tells of one review; a dialogue becomes one document unless a crash came between |
| | `lint` (WorkflowLint): 6,564 documents; 18 k | accepted workflows deadlock only where a top-level step names a nested or on_failure one; colours find exactly the cycles |
| | `traces` (Traceability) | the view of a specification has what the events handled so far said of it, and after a backfill all that its events say within four steps |
| | `measures` (AssetMetrics) | rollups add up to the samples of a range, the filter by source and the drift of a range and of its sources agree, and an install counts once and under one version |
| `OnboardingSound` | `onboarding` (Onboarding): 3 of the 9 stages; 67 k | stages run once each and in order; a viewer that saw the end saw every event it was owed |
| `GatewaysSound` | `gateways` (Gateways): 287 k | the window's limit, signatures over two rotations, no credential for a denied call, events in order without a gap |
| `GovernanceSound` | `approvals` (Approvals): 2.7 k | one outcome is told across crashes and failed writes |
| | `overrides` (PolicyOverrides): clock to 3; 8 k | an override ends once and every event tells that end |
| | `audit` (AuditLog): 47 k | nothing behind the offset is missing unlogged; verify accepts a chain exactly when each insert ended behind the row its trigger saw |
| | `policies` (PolicyGates): lists of rules in every order, freezes around the week's end | the answer does not depend on the order of the rules; what reaches production has an approval that has not expired and names no other image where both name one, is outside every freeze, and no rule of the engine, where there is one, speaks against it; a more critical change passes at least the gates of a less critical one |
| `AccessSound` | `control` (ControlPlane): 3 subjects, 1 of each row; 8 k | what a subject may read or do follows from a role or from a row naming it |
| | `platform` (PlatformOps): 24 k | an active or promoted rule has its own pull request, merged if promoted and webhooks are signed; a revoked one stays so unless an approval was on its way; nothing is done over the classifier's refusal |
| `OperationsSound` | `sdlc` (SDLCOrchestrator): 109 k | no phase is passed over that was neither passed, overridden nor left out by the plan |
| | `runtimes` (RuntimeRegistry): 21 k | a revoked runtime is not usable again unless an operation overlapped the revocation; what passes the preflight does not fail the verification on the same summary, and a report is of the row's own kind of runtime |
| | `incidence` (Incidents): 2 alerts, window 1, clock to 3; 4.7 k | every alert is evidence of one incident of its signature |
| | `workflows` (WorkflowRegistry): 4 versions; 3.3 k | every version of a major line serves what was built on an earlier one |
| `SymptomsSound` | `symptoms` (Symptoms): 2 events, 1 stop; 161 k | a probe is down exactly after its last failures; every event is somewhere once; what is committed was decided |
| `AgentsSound` | `agent` (AgentSession): 2 runs, 4 rows, 1 disruption; 336 k | a session left alone calls its plan in order and nothing twice; a paused one can be resumed |
| | `loop` (AlfredLoop): 2 iterations, 3 trips; 34 k | no tool runs unpermitted or after a halt; security is paged at the right trips |
| `IndexComplete` | `bindings` (TriggerRegistry): 2 versions, 5 changes | every subscription is in the index of its type, whatever types its version had before |
| `KeysFollow` | `bindings` | after a refresh the cron entries and the cancel functions are those of what is registered, nothing kept for a version that is gone; on the bus, as long as no handler but the newest of a topic was cancelled, handlers and cancel functions are one to one, each at its captured position, and never are there fewer handlers |
| `NothingOverlooked` | `triggers` (TriggerSources): 2 changes, 3 messages, 2 polls | a matching message is fired, returned again, or its dispatch failed |
| `ServicesTypeOK` | all | the types of each, buffers within their size |

Permutations of the requests, of the application ids and of the pull requests are a
symmetry: no property or constant tells the members apart, and the run has no temporal
property. `MCServices` starts every part in the initial states of its own module, and no
action of one part changes another's variables, so the run is the union of the 26. Five changes let
two versions subscribe to one topic, leave it and come back while a refresh is under way.

**Violations.** Each is a sentence of a document, a comment or an assertion that the code does
not meet; the finding in `PROJECT.json` quotes it.

- `engine_stale_signal`: an approval sent twice passes the next gate as well.
- `healing_kill`: the kill switch is tested once, when a call comes in; a call decided at L5,
  where no approval is asked, runs its workflow after the switch was set. (At L3 the same window
  is as long as the approval wait.)
- `agent_cancel`: the executor does not read the status which cancel writes, goes on and completes.
- `lint_deadlock`: the engine's deadlock guard "should not happen if lint passed", but lint accepts
  a dependency on a nested or on_failure step.
- `trigger_bus_shift`: ChannelBus cancels by position, and a cancellation behind an earlier one
  removes the handler of another subscription.

Where the code loses something in one kind of overlap, the passing property leaves exactly that out
(`overlapped` in RuntimeRegistry, `overtaken` in PlatformOps, `jumped` in SDLCOrchestrator,
`shifted` in TriggerRegistry) and says what holds in all other behaviours; section 6 says what is
lost.

`CHECK_DEADLOCK FALSE` stands where behaviours end when every request was answered and
the bounds are used up; TriggerLanes and WorkflowEngine have an explicit final step
instead, and are checked for deadlock.

**Bounds.** All are guards of environment actions (how many requests, messages, ticks,
crashes); none limits what the code itself does. `SignalCap` is 8 in the code,
`MaxAttempts` 4 in the router's binary, `BufSize` of the log emitter and the relay's
channel are larger: the instances take the smallest value at which the limit is reached
with one more message to come.

**Fairness.** Only what the scheduler and the timeouts of the code justify. A goroutine
that can take a mutex takes it; an activity returns by its deadline, a gate has a timer
(24 hours by default), so `run` returns; statements that follow each other follow. Hence
WF for each step of a goroutine in `TriggerLanes`, `WF_vars(Goroutine)` in
`WorkflowEngine`, WF for the steps of an accepted call in `HealingEngine`
(`Approvals.Wait` has a TTL), WF for the client (its timeout is 10 seconds) and the
runtime in `TriggerDispatch`. Clients, administrators and the environment owe nothing.
`LaneService` asks for strong fairness of admission; `TriggerLanes` provides it with weak
fairness because each instance has finitely many starts: with an unending stream a parked
one could be overtaken for ever. The other modules state safety only.

## 5. Proofs

Eight modules of proofs hold for every value of the constants, under the assumptions
named; the runs evaluate the assumptions of the modules and check the same properties.
Five are about the automation core; `Oversight_proofs` and `Delivery_proofs` have the services
one by one and `Services_proofs` takes their results to the specification that the run
`services` checks.

**`TriggerLanes_proofs`** (any finite set of starts, any lanes): `LanesTypeCorrect`,
`CountsAreExact`, `LanesAreSerial`, `NoWakeupIsLost`, and `LanesRefinement`, that the
tracker implements the safety part of `LaneService`. The inductive invariant is the
conjunction of the four properties. `LaneSerial` needs the counts (a free counter means an
empty lane); `NoLostWakeup` needs them too (a start parks on a busy lane, so the lane has an
execution). Counts are cardinalities of `InFlight`, which Acquire and Release change by one
element. Assumption: `StartsFinite`.

**`TriggerDispatch_proofs`** (any firings, lanes, attempts, handlers):
`DispatchTypeCorrect` and `EventsAgree` (`EventsFollowAnswers`). The invariant adds, per firing, that an attempt not yet made is
unknown to the runtime (`NotYetPosted`) and that a firing has its event and its dead letter
exactly when it is over (`OnItsWay`). A step of the tracker takes each start only onward
(`TrackerStep`): what was created stays created, and a refusal stays one.
Assumptions: `AttemptsAssumption`.

**`WorkflowEngine_proofs`** (any workflows, signals, channel): `EngineTypeCorrect`,
`NoEventIsLeftOpen`, `EngineIsSaga` (`ImplementsSaga`, step simulation included),
`AttemptsAreInOrder`, `CompensationsAreReverse` (`SagaReverse`), `NothingEndsHalfUndone`
(`CompensatedBeforeEnd`) and `GatesAreAudited`. `IInv` says that the execution is over exactly
at the end (`Ended`), has no final status before (`Alive`), where compensation is under way
(`UndoPlaces`), that the step at hand is pending with its dependencies done (`CurrentStep`) and
is the last event's (`LastEvent`), which is why markStep marks the right event (`MarksLast`).
`AInv` counts attempts: the marker of compensations is in the inputs of compensations only
(`OutputsPlain`, `InputsTell`), a step still to come was never attempted (`Unattempted`) and the
attempts of the current one are as many as its number, failed but for the last (`Counted`).
`Kinds` sorts every step of the engine into those that leave the events alone, open one or mark
the last. `CInv` relates three lists that the code keeps apart: the events,
`successfulCompensable` and the compensations recorded. As many places of `comp` have a
compensation as finished events do, and the place with i - 1 such places behind it holds the
step of the event with i - 1 behind it (`Matched`); compensate has recorded, in order, those it
has passed (`Unwound`); what it runs is one of them (`Found`). That the ranks are counted from
the end makes an append shift all of them alike, and so needs no induction. An execution that is
over for a reason has passed them all (`EndsWell`), because one that did not fail has none
(`Reasoned`). The audit needs that the event of the step at hand is still open (`LastOpen`), so
that it is passed once. Assumptions: `WorkflowsTyped`, `NoStepFresh`, `BoundsTyped`.

**`HealingEngine_proofs`** (any calls, levels, registrations): `HealingTypeCorrect`,
`HealingTruthful`, `HealingUndoesReversible`, `HealingRateLimited`. `SInv` says for each
place of a call what its workflow has done so far and that the action it holds exists;
objects keep their reversibility when a promotion mutates them. `RInv` says that a call
passes once, not before it read the clock and not in the future, and what a bucket still
remembers; the window argument then compares the calls that lie within an hour, reading and
entry, with the bucket at the last of them to enter.
Assumptions: `EnvelopesWellFormed`, `ActionsWellFormed`, `CriticalitiesKnown`,
`BoundsPositive`.

**`DeployOrchestrator_proofs`** (any requests, images, approvals): `DeployTypeCorrect`,
`OnlyClearedImagesRun`, `RequestsRunOnce`, `RollbacksReplace`. `RunsOnlyCleared` is not
inductive: the image handed to the connector was cleared several steps earlier, by another
request in the case of a rollback. `IInv` carries the fact along: a valid approval was given
(`ApprovalsGiven`), an inserted forward deployment is one (`ForwardInserted`), its digest is
covered by an approval past the policies (`ImageApproved`), it is cleared from the apply stage on
(`GatedCleared`), what a rollback is about to restore is cleared (`PreviousCleared`) because
completed deployments are (`CompletedCleared`). The history only grows and keeps what was
verified (`HistoryStep`). `EInv` adds that a caller's deployment is its own
(`OwnDeployments`), has not been run before its stage (`NotRunYet`) and runs once
(`RunOnce`), that an id has one deployment (`OneDeploymentPerRequest`), and that what a
rollback restores is not what it undoes (`OtherRestored`). Assumptions: `BodiesAssumption`,
`MaxAdminAssumption`, `CallersAssumption`; `RequestsRunOnce` assumes that no client sends
the absent id.

**`Oversight_proofs`** and **`Delivery_proofs`** have one section for each service: an inductive
invariant, the lemmas about the operators it needs, one lemma per handler, and a lemma `*Always`
that the invariant holds at first, is kept by every step and implies what the service promises.
Of the specifications of single services they have the theorems `ControlAccessSound` (any
subjects, roles, owners and numbers of rows), `RegistryIndexComplete`, `RegistryKeysFollow` and
`MailNotOverlooked`. Why what is promised is not inductive, and what is added:

- `JInv` (control-plane): every tuple that is written, or that a handler has yet to write, is
  justified by a row, rows only grow, and the last change was made by somebody a role or a row
  allows. That tuples are lost can then only take access away.
- `ApprovalInv`, `OverrideInv`: what is told is what stands, in memory and in the file; an event
  still to be emitted names the state its override ended in.
- `AuditInv`: what a consumer has handled is in the table, or its loss was logged (`AuditOrder`,
  `AuditNumbers`); an insert leaves a valid chain exactly when it is serial (`InsertChains`).
- `PlatformInv`: the branch of a rule and purpose is made once, so of two handlers only one goes
  on to the pull request, and a handler that approves read a draft (`BranchesOnce`).
- `PolicyInv` is only a type; the work is in the operators. `OrderDoesNotMatter` compares two
  permutations of a list of rules by the number of rules that stand before each (`BeforeCounts`,
  by well-founded induction), `WindowsWrap` steps round the week.
- `GatewayInv`: keys and what was signed with them (`KeysKept`), and that what a relay has sent,
  holds and has still to read are the numbers of the stream in order (`Relayed`).
- `OnboardInv`: how far a submission is, by its log (`Progress`), and that a viewer's channel
  holds the last events sent and it has seen those before (`ViewerSound`).
- `StoreInv`: an upload without a look before it is of a store that cannot refuse one
  (`Blindly`), jobs that were answered found their bytes (`Answered`, `Once`).
- `SDLCInv`: the phases before the current one are earned in the row and in every copy that an
  operation holds, and stay so as long as nobody set a phase by hand.
- `RuntimesInv`: a copy is of a row that exists and of its mode and type; a revoked row stays
  revoked while no copy from before the revocation is held.
- `IncidenceInv`: an alert is evidence of at most one incident (`Evidence`); and, unless a clock
  reading came to be used after a later one, open incidents of a signature lie further apart than
  the window (`Spaced`).
- `WorkflowsInv`: `MajorLineServes` is inductive once a publication is numbers (`NextVersion`,
  `LaterServes`): a new version serves the latest of its line, which serves all before it.
- `RegistryInv`: a request is about a row that is stored, and one that is about to publish is about
  a row that was approved above T0 (`RegistryRequests`); a row and the package table tell one digest
  because a version is inserted once (`RegistryPackages`); what was approved before the drift pass
  read its rows was approved with the hash it read, and what it has let stand has the hash of the
  live endpoint (`RegistryScan`: the approvals that come during the pass are `later`).
- `MarketInv`: a gated listing that is pending is not installable, so that a decision on it takes
  away no install's ground (`OffersVetted`); a review said what it said before it makes the change
  (`OpinionsCount`).
- `SymptomsInv`: the streak of a probe counts the failures at the end of its history, and no
  further back than its last success (`StreaksCounted`); an event has one place, the topic, the
  buffer or the missing (`EventsPlaced`), and the log emitter's stand on the topic before those in
  its buffer (`LogsInOrder`); an event the triager has not reached has no decision, one it has
  passed has, and what it was given in sessions beyond one is no more than the stops
  (`EventsTriaged`).
- `LoopInv`: a tool that ran has its iteration behind it with a record in the log, or is about to
  (`RunsRecorded`); one that ran without the delegation leaves no way to another
  (`OneUndelegated`). The window of trips is the end of all trips and what is before it is old
  (`TripsKept`), so that its length is the number of trips within the hour (`TripPages`).
- `AgentInv`: while no request or failure has met a run, the rows are the first entries of the plan,
  all but the last ended (`Aligned`), however often the plan was numbered again (`Numbered`); a run
  goes on behind the rows or at the one that waits (`Onward`), which is where the three
  computations of the index agree; calls are those of the rows in their order (`CallsOrdered`); and
  a session at rest is completed with every entry done, or waits at its last row (`Rests`).
- `TriggersInv`: a refresh brings the followers in line whatever they had captured, because the
  index by type is complete although it keeps entries of old types, and because what the router
  read is current as long as nothing changed since (`ReadIsCurrent`); a handler of a topic nobody
  shifted stands where its cancel function says, and each cancellation takes one handler away at
  most. `MailInv` adds to
  `NothingOverlooked` that every message older than one in the batch at hand has been answered or
  is in the batch (`OlderAnswered`), since the poller moves its time to that of the message it
  handles.

**`Services_proofs`** is about `MCServices` and its `Spec`, for any constants. It extends
MCServices and the two modules above; a lemma `*Kept` for each service says that the part keeps
its invariant in every behaviour in which it is the part that steps. The theorems state twelve
of the fourteen invariants of the run: `GovernanceHolds`, `AccessHolds`, `CatalogHolds`,
`StoreIsSound`, `OnboardingHolds`, `GatewaysHold`, `OperationsHold`, `SymptomsHold`,
`AgentsHold`, `IndexStaysComplete`, `KeysAlwaysFollow`, `MailHolds`. The assumptions stand in
`Oversight` and `Delivery`:

- finitely many versions, matching messages are messages (`VersionsCounted`, `MessagesCounted`):
  the maps of the code are finite;
- the absent value is none of the values: `DigestsNamed`, `RequestsNamed`, `RuntimesAreNamed`,
  `AlertsNamed`, and in `SubjectsNamed` the absent subject; the code writes an absent value as an
  empty string or nil, which is no id. `SubjectsNamed` also keeps tenants and units apart, as the
  prefix of the type does in OpenFGA;
- `StagesListed`, `PhasesListed`: the two lists of the code are not empty; assets are registered
  last and after the repository was made; each phase is listed once (the literal lists in the
  source are such);
- `EventsTimed`, `RulesReadable`, `WindowsReadable`, `VersionsAreNumbers`, `CallsLimited`,
  `ProbesDebounce`, `TripsCounted`, `RunsCounted`: the types of the code: events have times, rules a priority and one of three
  decisions, a window starts and ends in an hour of a week, a parsed version is three numbers and
  perhaps a candidate, a debounce is at least one (a zero stands for two), windows and queues
  have a length.

Only model-checked: all liveness (`EventuallyOver`, `EveryTriggerSettles`, `EveryFireReported`,
`EveryAttemptServed`, the fairness of `ImplementsLanesFairly`), which the prover does not do; `AppsSound`, whose part
about the linter rests on recursive operators; and `ServicesTypeOK`, whose types are in the
invariants of the services as far as their proofs need them.

## 6. Where the code and the documents differ

Those that have a violating run are listed in section 4 and quoted in `PROJECT.json`. The others
were met while modelling and have no run. The models follow the code.

- *Lanes.* workflow-runtime/spec.md:77 has queued firings start in arrival order; the
  condition variable wakes all, and a new caller can overtake them.
- *Engine.* An execution that compensated ends with whatever status its last step left:
  `compensating`, `running` after a passed gate, or `waiting`. CancelWorkflow never leads
  to `cancelled`. Inputs edited by an approver reach the audit entry and the event but not
  the later steps (human-in-the-loop-steps/spec.md:27). `escalate` fails the execution
  (:38). The pinning check knows the family `sub_workflow` while the AST writes
  `sub-workflow`, so an unpinned sub-workflow is invoked. A cancellation to a full channel
  is dropped.
- *Healing.* The list of levels of an action can raise the level above the envelope's cap.
  An incident whose criticality has no envelope uses that of another. The limiter reads the clock
  before its lock, so more calls than the limit may be stamped within one hour. The kill switch is
  not read again after the approval wait. Promotion to L5 does
  not ask for reversibility. A suggestion that failed the safety evaluation can be approved,
  and an approval does not start anything.
- *Triggers.* `POST /v1/executions` (http.go:70) reads neither field that trigger-router sends, so
  every firing is answered 400 and fails at once, where workflow-runtime/spec.md:53 has the runtime
  accept it. With a handler that accepts starts: a firing whose accepted attempt was
  abandoned can be reported `dropped` when its retry meets its own execution, and a lost
  answer makes two executions under `overlap` or `queue`. A cron trigger published again
  with another expression keeps the old entry. On the bus, cancelling by captured position
  can remove another subscription's handler; the next refresh repairs the keys. A version published
  again with another type stays in the index of the old one (registry.go:78): a cron entry goes on
  firing though "Refresh re-syncs scheduled entries with the registry" (cron.go:50). An email
  whose dispatch failed is passed over once a newer one succeeds. Messages are not
  deduplicated by id, and one with the time of the newest is fired again.
- *Deployments.* An approval and a request are compared by digest only if both name one
  (policy.go:187), and nothing requires a request to: one without `image_digest` passes on the
  approval of another image ("MUST be tied to the specific revision_id"). The connector renders the
  client's `req.Manifest.Image` when it is set (service.go:163-170), which neither the policies nor
  cosign looked at ("Before `Apply`, the orchestrator MUST verify the Cosign signature of the target
  image"). A rollback evaluates no policy and verifies no image. Rolling back a
  deployment that is not the newest restores a newer one; the minikube connector (minikube.go:78)
  undoes the last rollout whatever it is asked to restore, and may bring back what was to be
  replaced. A deployment waiting for approval
  is never resumed. An automatic rollback that fails is still answered
  `rolled_back_after_verify_failure`. A manual rollback does not look at the status of what
  it undoes. The binary leaves the runtime client nil, so that the preflight of every
  deployment fails as wired; the model takes the service with its client.
- *Workflow DSL.* Steps nested two levels deep are not linted. A legacy workflow whose steps
  depend on its event-trigger step gets `dangling_dep` after the migration, although a
  deprecation "does not block publish". Two triggers that steps read are accepted though a
  run binds one. A new required input counts as MINOR, where diff.go:18 speaks of optional
  ones; step bodies, nested steps and on_failure are not compared. After a pre-release the
  same release needs a higher patch. After a restart a published number may be given to other
  content. `ApplyCatalogMigrations` is called nowhere.
- *Alfred agent mode.* The approvals service always answers "pending", so a gated step that
  is resumed asks again and pauses again; a rejection never aborts. A follow-up on an aborted
  or completed session restarts it. Postgres does not keep params, summary, trigger source,
  actor and revisions. An idx supplied by the model is kept by `_normalize_steps`; the model
  takes plans numbered from 0. An in-memory session that is not a human's fails on an
  unbound `params`, is taken for recoverable and replans without end.
  `missing_expected_outcome` pauses as paused_for_budget. A restart leaves a session
  "running" with no run, and resume refuses it. The autonomy preset of a start is not read.
- *Alfred loop.* Permission and policy are two awaits old when the tool is invoked (loop.py:311): a
  delegation revoked meanwhile does not stop it (delegated-permissions/spec.md:16). A halted intent "will resume once an approver decides", and nothing resumes
  it. A failure of the policy engine allows, one of permissions denies. Sessions stay "open".
  An exception of the model or the store ends the run with a tool possibly invoked and
  unrecorded. Every trip above the threshold pages again. Two concurrent starts of an intent
  both miss the deduplication.
- *Approvals, overrides, audit.* A decision on a decided or expired approval publishes
  `approval.decided.v1` again; decide reads neither `expires_at` nor `required_approvers`; a
  torn file makes the start fail; expiries whose write failed are never announced. Consume
  does not look at the expiry; a final event can come before that of the grant; Consume,
  Revoke and IsActive have no HTTP route. Late, redelivered or concurrent inserts make verify
  report an invalid chain for good; failed inserts lose their events though the offset is
  committed; the outcome of a row is always 'success'.
- *Gateways.* "emits on every MCP invocation, regardless of outcome": denials by policy, rate
  or budget emit nothing. An event that the upstream did not end with a blank line is dropped
  at EOF. Rate limit and budget fail open. Up to twice the limit passes around a window's
  boundary. Keys are per replica.
- *Registry.* The publish hook reads the version and asks for access before its transaction, whose
  UPDATE names only id and version: a version retired in between is published, where
  ai-asset-registry/spec.md:105 has it done atomically. A transition is checked against the state read and written whatever it is by
  then (retired becomes approved; a deprecated version is published; nothing unpublishes).
  createAsset accepts approved as the initial state while its event says proposed. Internal
  assets other than design systems can never be approved later. One endpoint row for all
  versions lets a sibling launder drift. The sync worker mirrors versions that have no row.
  Mirror stores no bytes; cascadeAppArchive is wired nowhere; an mcp publication may store a
  digest with no package.
- *Artifact stores.* "a second Put MUST return version_immutable" rests on the repository's
  own write policy for Nexus and Artifactory. A digest mismatch leaves the wrong bytes stored
  and the version burnt. A Put whose answer is lost leaves a version that Stat calls not
  found and a retry calls immutable. After a Delete that failed half-way a stale sidecar may
  describe other bytes.
  GitHub's "draft release" is not a draft. The public probe is made once, and by one driver: the
  others report `IsPublicStorage: false` unasked (nexus.go:344, artifactory.go:298,
  codeartifact.go:347), so that a store open to everyone is written to (binding.go:88).
- *Marketplace, evolution.* No visibility is validated: one that is none of the four tiers needs no
  approval (service.go:46), installs anywhere and is found by no search. Two reviewers that accept
  one proposal make two changes of it (evolution service.go:97). Publishing again makes a new listing each time (no "moves up the
  ladder"), a rejected one included. Installs are never revoked. Two reviews of a proposal may
  leave it rejected with a change made; a failed CreateChange leaves it accepted for good.
- *Applications.* Creation and Patch check the design system only if the service has a resolver,
  which `cmd/main.go` never sets (service.go:117, 289): any reference is persisted, where
  application-entity/spec.md:120 has it validated. Two overlapping swaps leave two open pull requests where a comment promises
  one. A superseded one whose merge was read as open still applies. The target is not
  validated again at the merge. Patch checks approval but not visibility. Update shares the
  Targets map, so the `before` of events shows the new targets. A second OnWorkspaceCreated
  gets a slug conflict though documented idempotent. A migration executes stale reports, and
  its token is not tied to one.
- *Onboarding.* requires_approval ends as failed. The key of a failed request can never be
  used again; the repository stays, without compensation. "terminal" may carry the status
  running, the stream may end with events still in the channel, and a viewer that subscribes
  between the last event and the status write waits for ever. After a restart a resubmission
  fails at create_repo.
- *Openspec.* An abandoned draft can be committed and a committed one abandoned. A patch that
  fails validation still changes the shared audit object. Ids that differ only in characters
  the slug folds share change files. A torn file keeps the service from starting.
- *Control plane.* By tuples only platform administrators can administer tenants or units; the
  role tenant-admin is not scoped to a tenant. UpdateWorkspace changes the row only. Tuple
  writes that fail are swallowed. Owners given by user name get tuples no subject matches.
  Archived workspaces can be changed and connected. Without a StoreID everything is allowed
  (not modelled).
- *Policies.* The default rule for production goes on asking for an approval whatever approval
  the orchestrator holds; an approval of another revision makes the deployment denied rather
  than asked for again.
- *Traceability, metrics.* The alias of prompt for prompt templates counts as what serves a
  specification. A percentile is the sample at `int((n-1)*p)`, so that of two samples p99 is the
  smaller. A difference of scores of exactly 0.05 is left to floating point, and not modelled.
  Any agent-mode event without latency that is not completed marks the session paused for a
  human; a drift event is emitted at every GET; installs out of order move the pointer back.
- *SDLC, runtimes.* Overlapping completions lose each other's progress. "regress" accepts later
  phases (service.go:304), "done" too, and leaves a required gate that failed behind. An invalid override is an error only where a gate failed. A preflight of
  a revoked or destroyed runtime sets it "ready"; an overlap undoes a revocation (service.go:280), where
  byo-runtime-onboarding/spec.md:49 has it disable further deploys at once.
- *Incidents, symptoms.* Alerts with "resolved" or "closed" are ignored; a Loki alert with nil
  labels panics; a resolution told twice emits twice, and may come before the detection.
  Decide of the triager consults neither breaker, noise rules nor playbooks, though its
  comment lists five rules; a redelivered event opens a second session; a failed publication
  loses the transition (prober.go:72). The Linear, PagerDuty, Slack and CI emitters use signals and
  severities that validator.go:22 does not know; metrics events as configured, and recoveries, do
  not pass it either.
  gRPC probes always fail. After SIGTERM the triager's loop does not exit.
- *Platform operations.* The file of an approval has only the approved rule although the
  comment says all active ones. An approval that overlaps a revocation reactivates the rule
  (noise_rules.go:208). Without GITHUB_WEBHOOK_SECRET webhooks are not verified (:338).
  A failure after the branch was made leaves a rule that can never be approved. Scale,
  migrate, flag, secret, code fix and breaker reset do not ask for approvals; a rollback
  consults no policy.

## 7. Hazards without a property

`PROJECT.json` lists the hazards that the runs cover, and two that they do not (a revocation of a
runtime under a preflight, runtime service.go:280; a probe's transition that is not published,
prober.go:72). These are real too and covered by none, because the code loses the property
(section 6) or because what is lost leaves no state:

- woken starts and new callers compete for the mutex (concurrency.go:61); the final status
  of a compensated execution (inmemory.go:614); a cancellation to a full channel (:183);
  executions lost with the process (:27);
- PromoteAction stores back what it read (healing-engine service.go:303); blocked triggers
  count towards the limit (types.go:266); a promotion that gives an action its only level
  (service.go:297); approvals and rejections in any order (http.go:212);
- a lost answer that repeats an execution (dispatch.go:78);
- an image approved by nobody or verified by nobody (deploy policy.go:187, service.go:167), and a
  rollback of the cluster by `rollout undo` (minikube.go:78);
- signals and severities that the triager does not know (validator.go:22); a handler that does not
  know the router's body (http.go:70);
- two reviewers of one proposal (evolution service.go:97) and a visibility nobody names
  (marketplace service.go:46); a store that became public (nexus.go:344); a service without a
  resolver (application service.go:117);
- a deployment rolled back by hand while it is verified (deploy service.go:225) and sends to
  listeners that have left (types.go:293; the same at onboarding types.go:330): the send
  panics the process;
- a granted approval that is never looked up (executor.py:376); a version retired while it is
  published (gateway_publication.go:145) and a transition written over a state that has moved
  (registry main.go:938); a rule revoked under its approval (noise_rules.go:208); two swaps that supersede each other
  (design_system_service.go:125).

## 8. Not modelled

- **Activities, LLM steps, HTTP surface of workflow-runtime**: an activity is an arbitrary
  outcome of an attempt; what the handler does to a trigger's start is `handler`.
- **Deployers, cosign, connectors, identity and token services**: used
  through their interfaces; every call may fail, and one that fails may have had its effect.
- **diagnosis, incidents-kb, postmortem, eval-harness-adv, finops, finops-advisor, iac-drift,
  rag-ingest, rag-query**: sequential pipelines, similarity and numbers, no protocol.
- **permissions, model-gateway and the rego policies**: pure decisions, arbitrary in the models.
- **prompt registry and templates, scaffolder, webhooks, SDLC skills, skill packager, MCP
  servers and shims, CLI, portal**: rendering, archives and adapters without state that steps
  could interleave over.
- Of the modelled services: listings, metrics, audit records that are written and never read,
  the audit archiver and holds, partner enrolment, feature flags, repository caches, the
  deployment event stream, the counters of created nodes in traceability, the failing steps and
  the health page of asset-observability.
