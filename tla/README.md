# OpenClaw Secure: a TLA+ verification project

OpenClaw Secure is an agent gateway. Clients create sessions and tasks over
HTTP, an agent runtime drives a model, and every tool call the model asks for
goes through one broker, which consults a policy engine, may wait for a human's
approval, runs the tool in a worker and keeps an audit trail. Tasks may delegate
to child tasks, which may be bound to local models that a scheduler hands out.

This directory models the parts of it that keep state and make decisions, checks
them with TLC on small instances, and proves about some of them, with TLAPS,
what the checks show, for every instance. `PROJECT.json` says, definition by
definition, which lines of the source each one stands for.

## 1. Inventory

The process is single-threaded JavaScript over synchronous SQLite: a handler runs
to its next `await` without interruption, so what lies between two awaits is one
step, and everything hard happens across awaits, across processes (the CLI opens
the same databases) and across restarts.

| Component | State | Operations | Talks to | Hard part |
|---|---|---|---|---|
| Model scheduler `core/scheduler.ts` | pool; `activeLeases`; a queue per model (memory) | acquireLease, releaseLease, releaseByTaskId | gateway | promises settled by other callers' releases; order; slots |
| Task store and routes `core/session.ts`, `core/gateway.ts` | task table (disk) | POST /tasks, PATCH state, delegate, cancel, tree, release | scheduler, audit | the delegate route awaits between its checks and its write |
| Session store `core/session.ts` | session table (disk) | create, PATCH, decrementBudget | broker, agent | several writers of one budget; callers keep old copies |
| Tool broker `core/broker.ts` | registry, workers | dispatch | policy, approvals, workers, audit, artifacts, sessions | two awaits; eight ways to end |
| Policy engine `core/policy.ts` | list of rules (memory) | evaluate, explain, filterVisibleTools, setRules | broker, editor | first match wins; rules change under a waiting dispatch |
| Agent runtime `core/agent.ts` | history; a copy of the session | process | provider, broker | budget written back from an old copy |
| Approvals inbox `core/approval.ts` | approval table (disk) | createRequest, listPending, resolve | broker, gateway, CLI | gateway and CLI are two processes, and each resolves by reading and then updating |
| Policy editor `core/policy-store.ts`, routes | rule table (disk) | upsert, delete, reset, import, export | engine | store and engine must agree; store is not loaded at start |
| Lifecycle `core/lifecycle.ts` | `user_version` (disk) | runMigrations, recoverSessions, prune..., validateArchive | all stores | a stop between two statements; calls in flight; releases old and new on one database |
| Audit log `core/audit.ts` | table (disk), pruned by lifecycle | write, queries | everything | ties in the order by time; records of a call are written apart |
| Replay `core/replay.ts` | none (pure over the stores) | buildReplayPack, diffReplayPacks, validateReplaySequence, checkAuditIntegrity, validateExportBundle | audit, sessions, artifacts | must make sense of overlapping and cut-off calls |
| Artifact store `core/artifacts.ts` | table (disk) | store, list, prune | broker, lifecycle, replay | artifact, charge and record are three writes |
| Plugins `core/plugin-store.ts`, routes | table (disk) or map (memory); principals (memory) | install, enable, disable, remove, invoke | policy, sessions, audit | plugin and record are two writes; principals are forgotten at a restart |
| Workers `workers/*.ts` | none | execute | broker | one timer over request and body; redirections; host checks |
| Memory store, channels, provider, UI, paths, CLI | rows, or none | | | I/O and conversion |
| Run planner `app/core/*.py` | none | build_plan, scan | | pure algorithm, a separate tool |

What makes each correct:

* scheduler: slots are never exceeded nor idle while somebody waits, waiters are
  served in order, nobody is lost, everybody is answered;
* delegation: delegated children have no more than their parents (capabilities,
  budget, count, depth), cancelling ends a whole subtree, a bound task has a lease
  and a lease has somebody who can release it;
* broker: nothing runs without the capability, approval, elevation and rules it
  needs; the trail says what happened; the budget is charged exactly once;
* policy: the rule that matches first is the one the documentation promises;
* editor: what is written to the store is in force, order decides, an export can
  be restored;
* approvals: one answer, and the inbox tells it;
* plugins: the trail tells what is installed, and what acts was enabled in the
  version that acts;
* lifecycle: the version tells the schema, recovery settles what was interrupted,
  no half of a session or of a call is left;
* fetches: what is recorded was done, charged and kept, a page comes only from
  where it may, and every fetch ends; replay: exports, comparisons and checks
  mean what they say of any trail that can come about.

The hazards are in `PROJECT.json`, each at its line.

## 2. Modules

| Module | Models | Kind |
|---|---|---|
| `LeaseService` | what a scheduler promises | abstract specification |
| `ModelScheduler` | `core/scheduler.ts` | component |
| `Delegation` | task routes of `core/gateway.ts`, task table of `core/session.ts` | composes `ModelScheduler` |
| `PolicyEngine` | `core/policy.ts` | operators |
| `PolicyContexts` | every question the engine can be asked | component |
| `Broker` | `dispatch()` of `core/broker.ts`, the session row | composes `PolicyEngine` |
| `PolicyEditor` | `core/policy-store.ts`, policy routes of `core/gateway.ts` | component |
| `AgentTurn` | `process()` of `core/agent.ts`, the session's budget | component |
| `Approvals` | `core/approval.ts`, its routes and CLI commands | component |
| `Plugins` | `core/plugin-store.ts`, plugin and principal routes of `core/gateway.ts` | composes `PolicyEngine` |
| `Lifecycle` | `core/lifecycle.ts` over sessions, tasks, audit and artifacts | component |
| `BrowserWorker` | `execute()` of `workers/browser.ts` | component |
| `Replay` | `core/replay.ts` | operators |
| `DocFetch` | the doc-fetch route, with broker, worker and stores | composes `BrowserWorker`, `Replay`, `PolicyEngine` |
| `ModelSchedulerProofs`, `DelegationProofs`, `AgentTurnProofs`, `PluginsProofs`, `LifecycleProofs`, `DocFetchProofs` | theorems about the module each is named after | proofs |
| `BrokerProofs` | theorems about `Broker` and `PolicyContexts` | proofs |
| `OperatorProofs` | theorems about `PolicyEditor` and `Approvals` | proofs |
| `MC...` | instances for TLC | |

### ModelScheduler

`activeLeases`, `queues` and `promise` are the two maps of the class and what has
become of the promise each call returned. A method of the class has no await, so
it is one action: `AcquireFree`, `AcquireQueued` and `AcquireUnknown` are the
three ends of `acquireLease()`, `ReleaseLease` and `ReleaseByTaskId` the two
releases, each with all the `drainQueue()` calls it makes. `drained(gone, m)`
says how many waiters of a model these calls serve in total; `releaseByTaskId()`
collects the leases before it releases any, then drains after each, and only then
filters the queues, and `ReleaseByTaskId` keeps that order. A call names its
lease, as `newLeaseId()` never repeats one within a process. Pool order, tiers,
reserved roles, events and `getStatus()` are left out: nothing depends on them.

`LeaseService` has no queue and no promise: a call is fresh, waiting or holding,
slots are not exceeded, nobody waits in vain. `ModelScheduler` is shown to
implement it by `ImplementsLeaseService`.

### Delegation

`tasks` is the task table, a task's id its place in the order of creation. The
delegate route is the one task handler that awaits. It is modelled as
`DelegateRefused` (400), `DelegateUnbound` (no lease asked for: checked and created
in one step), and `DelegateBound` followed by `DelegateResume`: the first checks
and asks the scheduler for a lease, the second creates the child from `snapshot`,
which is what the handler read before it waited, and checks nothing again, as in
the code. The continuation of a granted promise is a microtask, so no other
request is handled between the grant and the creation; `MicrotasksDrained` is the
guard that says so. `Cancel` is `cancelSubtree()`, which walks below ended tasks,
and passes every task it cancels to `releaseByTaskId()`; the scheduler knows the
leases by the placeholder `'pending-' + now` instead, hence `Placeholder`.
The walks up (`Lineage`) and down (`Cancellable`) the tree are what every set
that is closed under a step of the walk has: that is what the loops of the code
collect, and it can be reasoned about without an induction over the walk.
`Restart` loses the scheduler and the requests in flight and keeps the tables.
`HasScheduler` never changes; it is FALSE for the gateway `app.ts` starts.

A lease is asked for only when a request names both a provider and a model. One
that names only one of the two (`Halves`) is checked and created at once, goes
around the scheduler, and is recorded as bound all the same: it is a case of
`DelegateUnbound`, and `LeasesAndTasksAgree` is about tasks with both names.

`POST /tasks` hands its whole body to `createTask()`, which takes `parentTaskId`,
`delegationDepth`, `budgetCap`, the capabilities and the model from it. `PostTask`
therefore creates a task with any of `PostBodies` under any task or none, without
comparing anything. So there are two kinds of links, and the properties tell
them apart: `Delegated(t)` holds of the tasks a delegate request has made, and
`Line(t)` is `t` and what the delegations that lead to it come from, up to the
task that was posted. `CapabilitiesNarrow` and the depths of `TreeWithinLimits` are
about such lines, that is, about what the delegate route enforces; that a child
*of any origin* is narrower than its parent, which the trust document has readers
verify, is not so (section 3). The counts and sums of
`TreeWithinLimits` are over all children, posted ones included, since the route
counts them all, and are claimed of every request that is answered without a wait,
with a scheduler or without: what a waiting request does to them is
`ChildrenWithinLimit`, and fails.

Assumptions: a crash falls between two steps, not inside one; the ids that
delegate, PATCH and cancel name exist (a 404 changes nothing); a parent that
`POST /tasks` names is an older task or none (an id that no task has is as none);
titles, owners, deadlines, sandbox classes and events are data no property looks
at.

### PolicyEngine and PolicyContexts

A rule's `match` is a function on the matchers the rule has; a matcher it lacks
is not in the domain, which is the code's `undefined`. A context names what each
matcher looks at. `Evaluate` takes the least index that matches; there is no
RECURSIVE operator. Ids, descriptions, reasons and traces are left out, and with
them `explain()`, whose decision is `evaluate()`'s. In `PolicyContexts` a state is
one context and a step changes one respect of it, so that an action property can
compare two contexts. `PolicyContexts` and `Approvals` have names of their own for
their parts (`ContextsInit`, `InboxNext` and so on), since each shares a module of
proofs with another component.

### Broker

Each `dispatch()` has its program counter and its local variables `request`,
`decision` and `approvalOutcome`. `request.session` is the copy of the session
the caller read at `Call`. What lies before the first await is one of
`DispatchUnknown`, `DispatchExhausted`, `DispatchIncapable`, `DispatchDecided`,
`DispatchUnapprovable` and `DispatchAsks`; between the awaits, one of
`ApprovalRefused`, `ApprovalThrows` and `ApprovalGranted`; after them,
`WorkerReturns`. `Conclude` is the common part from the last decision to the
start of the worker, or the denial, or the missing worker. `auditLog` has the
records of each dispatch, in the order written. The session row is changed by
`decrementBudget()` and by clients' PATCHes, one field at a time; `SetRules` is
the policy editor's effect on the engine. `ledger` is a history variable, for
`BudgetAccounted`.

`wiring` never changes either: the optional collaborators the broker was
constructed with, none of them in `app.ts` and the CLI.

Resolver and workers are external: the resolver gives any outcome or throws, a
worker gives a receipt or throws. Statements on the databases succeed.

`AuditTellsWhatHappened` is about the records of tools, items 1 to 4 of
`SECURITY_MODEL.md` 7: neither a start that was none, nor an end without a start,
nor a run that an audited decision left untold. Of a dispatch whose resolver threw
it asks only that there is no trace of a start. Items 5 and 6, the records of
approvals, no code writes: the gateway sends WebSocket events of these names
(`gateway.ts:985`, `gateway.ts:1001`), and that is all.

### PolicyEditor

`table` is `policy_rules`, in the order in which rows were inserted; `engine` is
the engine's list. Every route is synchronous and is one action: `Post`,
`Delete`, `Reset`, `Export`, `Import`; `Restart` makes a new engine. A reset and a
restart set the engine to the default rules and leave the table, so that engine
and table differ until the next write: `WritesAreInForce` says that a write brings
them together whatever was before, and that nothing else moves the engine;
that what is listed decides, after a reset or a restart too, is
`ListedRulesAreActive`, and fails. `Sorted` is
the `ORDER BY rule_order, created_at` of the queries. Rows written within one
millisecond share `created_at`, and SQLite then lists them as they were inserted;
the clock is assumed not to run backwards. `hasStore` never changes; without a
table the routes edit the engine's list in place, where an imported id may occur
twice. Of a rule's contents only their identity is kept, and requests that fail
validation, which is done before anything is changed, are left out.

### AgentTurn

A turn is a call of `process()`, with its place in the loop, the rounds it has
taken and the tool calls it has left. `copy` is `budget` of the `Session` object
a runtime was constructed with, which all its turns share; `budget` is the row.
`Answer` charges a model call to the copy and, if callers do as `onBudgetUpdate`
asks them (`stores`), writes the remainder to the row. A dispatch is what
`process()` sees of `Broker`: it is let in while the row has budget, and ends
later with a charge to the row, without one, or with an exception. `read` and
`used` are history variables. Messages, tool lists and events are left out.

### Approvals

`inbox` is `approval_requests`. `resolve()` reads the row and then updates it, and
nothing awaits between the two: within the gateway they are one step, but a
command of the CLI is another process on the same file, so `ResolveReads` and
`ResolveUpdates` are two actions, and `ProcessFree` keeps the gateway to one
handler at a time. The UPDATE asks only for the id, so two processes that both
read "pending" both succeed. `resolvedBefore` and `existed` are history variables.
Nothing expires a request, and nothing in the program makes the inbox the broker's
resolver; `Broker` takes a resolver's answers as any.

### Plugins

A route that changes a plugin writes the plugin and then the record, to two
databases; `Changes` is the first write and leaves `owed`, `WriteRecord` the
second, and `Restart` may come between. `hasStore` never changes: without a
`PluginStore` the plugins are a map in memory and end with the process, as
`principals` always do. The record of an installation has the plugin's id, its
version and its risk class (`ParamsOf`), not its capabilities; the others have the
id. `sessions` has of each row what rules look at, the mode and the elevation
state, which `PatchSession` changes, and an invocation is judged by them, by the
principal's type, trust and policy group, and by the plugin and capability as the
tool. `EffectivePrincipal` is the principal the route makes up
for a session whose principal it does not know. The route judges by
`approvalState: 'approved'` and heeds only `deny`, so that `sandbox_only` and
`host_elevated_only` let a plugin act as `allow` does. `PluginRegistry` is not
used by the gateway; only the shape of a manifest is taken from it. There is no
comparison of versions: an older manifest replaces a newer one, although
`OPERATOR_DOCS.md:653-655` and `CHANGELOG.md:24` speak of a 409. `acts`, `since`,
`untold` and `gone` are history variables; `untold` has the plugins a change of which
a stop has cut off from its record, until an installation or a removal is
recorded anew. `TrailTellsPlugins` and `UpgradesAreEnabledAnew` are about the others:
a lost record never confuses the trail of another plugin, and is mended. That
every change has a record (`OPERATOR_DOCS.md:802`) is not so of a process that stops
between the two databases.

### Lifecycle

A job is the list of the rows it has left of what it listed when it began, in an
order that is open, as no property depends on the order of a query. `JobStep`
executes one statement: `SettleTask` of a recovery, `DeleteTask` and `DeleteSession`
of a pruning, which deletes a session once the loop over its tasks is done, and
`DeleteRecords`. `Stop` may come between any two. `Start`, `ApplyMigration` and `BeginRecovery`
are a start-up: the column and the version of a migration are one transaction.
Which release starts is open, so that an older program can meet newer tables;
releases only ever add migrations at the end, as `lifecycle.ts:52` asks. Calls are
there to leave records and artifacts, and last at most `MaxCall`, as workers have
timeouts; retention periods are at least that (`LifecycleAssumption`): they are
days, calls are seconds. `Violates` is the foreign key from tasks to sessions.

What the code does and the model has, since documents might lead one to expect
otherwise: a session without tasks counts as closed; records of sessions that
were pruned, and of `system`, are never pruned; `retentionClass` is ignored for
records; the doc comment of `classifyOne()` (`lifecycle.ts:87-90`) has a task
without retries fail, while the code abandons and cancels it; and nothing in
the program but the tests calls `LifecycleManager` or `runMigrations()`.  The order of
a start-up is that recovery is called "once on startup before accepting new work"
(`lifecycle.ts`, `recoverSessions()`), on tables that are as the release wants them.

### BrowserWorker, Replay and DocFetch

`BrowserWorker` is one `execute()`: `Execute` makes the checks of a URL, in their
order, and sends the request; `Responds`, `Redirects`, `ConnectionFails` and
`BodyArrives` are what a server does; `TimerFires` is the abort, from either of the
two waits. A host is its labels and a kind; reading the kind off the characters
is left out. `Replay` has the functions of `replay.ts` as operators over
sequences of records. A query's ORDER BY is by place, the number of rows that
come before (`Place`, `Listed`): rows of one key come as they were written, which
is the order SQLite's sort leaves them in, though SQL does not promise it. `DocFetch` puts them together: the route, `dispatch()` as
the route calls it (no approval resolver; with an artifact and a session store,
as the tests construct it, or with neither, as `app.ts` and the CLI do: `wired`),
the worker, and after it the three writes `StoreArtifact`, `Charge` and `WriteEnd`,
between which the process may stop. Handlers are not interrupted between these
writes by one another, as nothing awaits: `Quiet`. A write that throws is a
stop too: nothing catches the rejected promise of the handler (Express 4).

What the model has and the documents leave open or say otherwise: an abort
while the body is read is recorded as `tool.error`, not `browser.timeout`
(`OPERATOR_DOCS.md:736`, `REPLAY_SPEC.md:227`); two calls that start
in one millisecond hide each other in the integrity check; a redirection, which
`fetch()` was told to take for an error, makes Node's `fetch()` reject with
"fetch failed", which the test for "redirect" (`browser.ts:296`) does not find, so
that it is recorded as `browser.network.error` and never as
`browser.redirect.denied` (`OPERATOR_DOCS.md:733`, `TRUST_AND_VERIFICATION.md:187`);
`lastKnownBudgetRemaining` goes by the order of starts, so it may tell
more than is left; and the route does not ask whether its task is of its
session, so a task that two sessions share puts the artifacts of one into the
other's export.

`IntegrityKnowsOpenCalls` says what the integrity check does: of the last call of
a task, tool and principal, that it is not reported when `tool.finished` or
`tool.error` closes it, and is when nothing tells its end. Of a failure under a
`browser.*` type it says nothing, as `REPLAY_SPEC.md:290` says there is none, and of
the earlier calls of a key neither, as a later start takes their place.
`DiffTellsOutcomes` says what the comparison tells of events, tools, tasks and
outcomes, which is all it compares.

## 3. Runs

| Run | Instance | Shows |
|---|---|---|
| `scheduler` | 4 calls, 2 tasks, a model with 1 slot, one with 2, one unknown | slots, order, bookkeeping, answers; refinement of `LeaseService`, which also says that no slot is idle while a call waits for it |
| `delegation` | with and without scheduler; 2 delegate requests of 4 kinds (one names half a model, one a model that is not in the pool), 2 posted tasks of 2 kinds, one with a depth, a cap and a model of its own, under any task; one slot, one PATCH of a state, one restart | capabilities, depths, children, budgets; cancellation, leases, answers |
| `broker` | with all collaborators and with none; 2 dispatches, 6 tools (one per kind of rule, one without worker, one beyond the task's capabilities, one unknown), 3 rulesets, budget 2, one change of session or rules, one restart; and the default rules, with all classes, trust levels, modes, elevations and approvals | broker safety, answers; table of risk classes A to E, elevation for F, monotonicity, hidden tools |
| `operator` | a rule table and none; 4 edits on two built-in rules and one custom, two contents, three orders, two bundles and every exported one, one restart; and 2 requests for approval, 2 approvers, 3 calls, two at the gateway and one from the CLI, with stops | what writes put in force; order; restore; one answer unless processes race; inbox against answers |
| `agent` | callers that store and callers that do not; 2 turns on 2 runtimes, 2 rounds, up to 2 tool calls an answer, budget 3, one patch | charges; turns end |
| `plugins` | with the table and without; one plugin in 2 versions (classes A and D), one principal of medium trust in a group of its own, one session that may be elevated, 2 rulesets of which one asks for elevation, 5 records, one restart | trail against plugins; upgrades; forgotten principals |
| `lifecycle` | 1 session, 2 tasks, 1 call, 2 releases, clock to 3, 4 changes of tasks, 2 stops | calls kept whole; schema; recovery; complete pruning |
| `docfetch` | 3 fetches of which 2 overlap, 3 sessions of which one needs approval, 2 tasks of which one may fetch, 5 URLs, servers that answer, redirect, fail or stay silent, budget 3, clock to 1, a stop at any write | fetches recorded as they were; replay, diff and integrity; hosts; every fetch ends |

`MCBroker` and `MCOperator` each put two components that share no state side by
side: a behaviour uses one of them, whichever it touches first.

Four runs are expected to fail: each shows one disagreement of the code with
sentences written about it, which `PROJECT.json` quotes under "findings". The two
of delegation have three requests and one plain posted task; the others are run
on the instances above, or on smaller ones.

| Run | Property | Disagreement |
|---|---|---|
| `delegation_lease` | `CancelReleasesLease` | cancelling a bound child does not free its slot |
| `delegation_limits` | `ChildrenWithinLimit` | requests that wait for leases together pass the limit on children (and in the same way the one on budgets) |
| `operator_listing` | `ListedRulesAreActive` | after a reset or a restart rules are listed that are not in force |
| `plugin_approval` | `ApprovalNotSkipped` | a plugin action that rules let run only after an approval runs without one |

More disagreements were met and have no run of their own. No property endorses
them: where one comes near, its comment says what it leaves out.

* `POST /tasks` takes a parent, capabilities, depths and caps from the body, so that
  a posted task may have capabilities its parent lacks, be deeper than it by any
  number and have more budget (`TRUST_AND_VERIFICATION.md:42`: "Child tasks inherit a
  strict subset of the parent's `capabilitySet`", and 4.5, lines 240-242;
  `SECURITY_MODEL.md:155`; `ARCHITECTURE.md:98`);
* a child that was given a provider only, or a model only, has no lease and is
  recorded as bound (`gateway.ts:762-764`: "no task exists in a 'running without a
  lease' state"; `scheduler.ts:6`: "No task may start without first acquiring a
  lease from the scheduler");
* a call of class F runs with elevation and nobody's approval: the rule
  (`policy.ts:89-96`) answers `host_elevated_only`, for which `dispatch()` asks for
  elevation only (`policy.ts:89`: "always requires approval and host elevation";
  `TRUST_AND_VERIFICATION.md:56`; `ARCHITECTURE.md:205`);
* approvals that were asked for and answered are not in the audit trail
  (`SECURITY_MODEL.md:240-241`, `TRUST_AND_VERIFICATION.md:224-226`);
* a stop between the plugin's database and the audit log's leaves a change that no
  record tells (`OPERATOR_DOCS.md:802`: "Every state-changing operation emits at least
  one audit record");
* a fetch that fails in the browser worker ends with a record of the failure's own
  type (`REPLAY_SPEC.md:290`: "Every tool execution has a `tool.started` +
  (`tool.finished` | `tool.error`) pair"; `SECURITY_MODEL.md:230-231`);
* a call that was cut off is forgotten by the integrity check once a later one of
  its task, tool and principal has started (`replay.ts:475`: "Every tool.started has
  a matching tool.finished or tool.error");
* sessions of different principals, with different budgets left, durations or
  counts compare as identical (`REPLAY_SPEC.md:158-164`);
* capabilities that a parent lacks are refused with a 400, not "silently dropped"
  (`ARCHITECTURE.md:219`, `OPERATOR_DOCS.md:302`), and a child's cap is compared with
  the parent's cap, not with what the session has left (`ARCHITECTURE.md:220`);
* `releaseByTaskId()` drains the queues before it filters them, and may so leave
  the task a lease (`scheduler.ts:269`: "guarantee no dangling leases");
* elevation is judged on the copy of the session the caller read
  (`SECURITY_MODEL.md:99-101`), so one that is revoked meanwhile still counts;
  `StartsUnderRulesInForce` states what the code does;
* a merging import into an empty table ends the default rules
  (`OPERATOR_DOCS.md:551`), and while the table is empty the listing is, too,
  though the default rules decide;
* the runtime's remainder is stored over what tools were charged meanwhile, and
  raises the budget (`ARCHITECTURE.md:128`); `NothingChargedTwice` states what holds;
* `filterVisibleTools()` keeps `readonly_visibility` tools (`policy.ts:251-252` says it
  drops them);
* a call is admitted on any positive budget and charged afterwards, so recorded
  consumption may exceed the initial budget (`TRUST_AND_VERIFICATION.md`, 4.4);
  `BudgetAccounted` states what the code does;
* those of plugins, lifecycle and fetches told in section 2.

Why the bounds are enough. Scheduler: three calls make a holder and two waiters
on the one-slot model, the least in which one can overtake; the fourth arrives
meanwhile or waits on the other model, and both tasks can have leases and
waiters at once. Delegation: two requests are one that holds the slot and one that
waits, or two siblings, or a chain of two; two posted tasks are a root and one
that stands under another or below a delegated one, deeper and with another cap
than the route would have let it, so that a request meets a parent that is at the
cap on depth (2), has all the children it may have (2) or has given its budget
away, while another request waits; the bodies (`MCBodies`, `MCPosts`) differ in each
respect the route looks at; one PATCH puts an ended task above live ones, as does a cancellation. Requests
are numbered in the order in which they are sent, which loses nothing, as they
are otherwise alike. Broker: two dispatches are the least that can interleave,
and no property relates three; the session starts elevated or not, so that one
change can revoke or grant elevation, use up the mode or the budget, or replace
the rules, under a waiting dispatch. Policy editor: four edits are enough to post
two rules of equal order, change one and restore an export, and to edit after a
reset; a second restart would find the engine as the first left it. Agent: two turns share a runtime or not; two rounds have a model call
after a tool call, which is the order that matters, and two tool calls in a row. Approvals:
three calls are a race of two processes, or of two calls of one, and one more
that comes before, between or after; the second request shows that they keep
apart. Plugins: two versions, of which the later does more, are enough for an
upgrade, a downgrade, a removal and a new installation; five records are enough
to install, enable, upgrade, enable and act; the stop cuts off a record or
forgets the principal. Lifecycle: two tasks make a session that is dismantled in
three statements and recovered in two; two stops can interrupt a recovery and
the one after it; clock 3 lets a call that lasts 1 begin and end at either side
of a cutoff of age 1. Fetches: two of one task and tool overlap, which is what
the integrity check keeps one start for; the third is read against them, from
another session for the comparison, from the same for the order; only the third
fetch varies its URL and its server, as the first two are there to be read
against; two instants are enough for records that share a start and that do not.

`CHECK_DEADLOCK FALSE` is set where calls are finite in number and the system
may come to rest.

Fairness. Scheduler: every holder releases its lease in the end; the header of
`scheduler.ts` obliges callers to ("no missing release on any termination path").
Delegation: the event loop runs a due continuation, and clients call the release
route for leases they were told of. Broker: a caller that has read the session
goes on to dispatch; humans answer, or approvals expire; workers return, having
timeouts; one weak fairness for all dispatches is enough, as each has finitely
many steps. Agent: the provider answers or fails, and dispatches end, as
`CallsAreAnswered` says they do. Fetches: a timer that was set fires unless it is
cleared, and a handler that was resumed runs on; nothing is assumed of servers.
`FetchEnds` says that again and again no fetch is in flight. Nothing is assumed of clients beyond that: no call has to be made.

## 4. Proofs

Every theorem is about all behaviours of its module's `Spec`, for every value of
the constants that satisfies the module's named assumption, which TLC evaluates
in the runs. `PROJECT.json` lists the theorems with the property each states.

`ModelSchedulerProofs` proves `TypeCorrect` (`TypeOK`) and `CapacityRespected`
(`WithinCapacity`). `WithinCapacity` is not inductive: a cardinality means something
only for a finite set, and `Calls` may be infinite. The inductive invariant is
`IInv == TypeOK /\ LeasesFinite /\ WithinCapacity`. The argument: an acquisition
adds one lease to a model that had a slot free; a release takes away the leases
`gone` and adds the leases of at most `drained(gone, m)` waiters, which is no
more than the slots `gone` leaves free (`DrainedBounds`, `AtMostAsMany`,
`ReleaseKeepsCapacity`). The queues stay sequences: a tail of a sequence is one,
and so is what `Without` keeps (`ReleaseKeepsQueues`, `WithoutIsQueue`), for which
`PlaceIsKept` shows that the k-th of a finite set of positions exists.

On top of it are `PromisesHold` (`PromisesAgree`), `OrderHolds`
(`FirstComeFirstServed`) and `ServiceImplemented` (`ImplementsLeaseService`), with the
invariant `Orderly`: `PromisesAgree` is inductive with the above, and nobody waits
on a model with a free slot (`NobodyIdles`), which the abstract service demands. A
release is the one hard step: what `Without` keeps it keeps in order, so a place
of the new queue is a place of the old one, further on by what was drained or
removed; hence the calls granted are those that were ahead, and the step is the
service's `Release`, model by model.

`DelegationProofs` proves `CapabilitiesHold` (`CapabilitiesNarrow`),
`TreesStayWithinLimits` (`TreeWithinLimits`), `LeasesHold` (`LeasesAndTasksAgree`) and
`CancellationHolds` (`CancelEndsSubtree`). It takes the scheduler's theorems over
by `SP == INSTANCE ModelSchedulerProofs`, with requests for calls. The invariant
has, besides, `TreeFits`: every task's parent is older than it, and the parent of a
delegated one has its capabilities and is one less deep, and so has the parent of
every child that a waiting request is about to create; of posted tasks nothing
more is known. From there on it is a matter of sets that
are closed: the tasks with at least some capabilities are closed upwards along
delegations, so a line does not leave them; a line is a task and, if it was
delegated, the line of its parent (`LineByParent`), so depths count it from the
task that was posted (`DepthsCount`); and what a cancellation reaches downwards is what has the
task in its lineage. That leases and tasks agree needs to know which requests
hold leases (`LeasesKnown`, `BoundLeased`).

That budgets fit is a fact about `MapThenSumSet`, which is a fold and so cannot be
unfolded for every set. What can be proved is that a recursive function over
subsets with the two equations of a sum exists and is the only one (`SumsExist`,
`SumsAgree`, by the well-ordering of finite sets), that the fold is it
(`AllocationIsSum`), and that a new child adds its cap to its parent's sum and
nothing to others (`AllocationGrows`, `AllocationStays`). `WithinLimits` is about a
child and its older siblings, so that what is created later does not disturb it;
and of a request that is answered at once what the route has checked is still true
when it creates the child, whoever created the siblings and with whatever caps. Of
a request that waited it is not, which is what `ChildrenWithinLimit` shows.

`BrokerProofs` proves all the safety properties of its run: `ApprovalHolds`,
`BudgetHolds`, `EffectsHold`, `TrailHolds` and `RulesInForceHold`. The properties
speak of the ends of a dispatch; the invariant says of every dispatch, wherever it
is, exactly which records it has written (`TrailSoFar`) and what must have been
the case for it to come there (`CameThere`: a known tool, a capability, an
approval where the decision asked for one, a worker for the target). That
`Evaluate` finds the least index that matches is by the well-ordering of finite
sets (`FS_StrictSubsetOrderingWellFounded`, `WFMin`), not by an induction.

It also proves what that run checks of `DEFAULT_POLICY_RULES` and for any
tools: `DefaultRulesAreTheTable` (`TableOfRiskClasses`), `DefaultRulesAreMonotone`
(`PrivilegeIsMonotone`) and `HiddenStaysForbidden` (`HiddenToolsCannotRun`). The
invariant is only that the context is one that can be asked. What there is to
know is in `DefaultAnswers`, the answer to every context: rule by rule what it asks
of a context (`DefaultRulesAsk`) and what it says (`DefaultRulesSay`), and that the
first that matches decides (`FirstDecides`). The theorems assume
`Rules = DEFAULT_POLICY_RULES`, as the run's configuration has it: of other rules
the properties need not hold.

Of the policy editor, `OperatorProofs` proves `EngineFollowsStore`
(`WritesAreInForce`), `ExportHolds` (`ExportRestores`) and `OrderHolds` (`OrderDecides`). The first is
about a step, and goes through the steps (`StepLoadsEngine`): no route writes the
table without setting the engine to the new listing. The others rest on `TableHoldsOneRowPerId`: rows of the table
differ in their ids, and an exported set is such a table in the order it was listed
(`Stored`). Two things had to be known about the operators. The listing is by
place, the number of rows that come before: places ascend with the order of the
rows and are all taken (`PlacesAscend`, `PlacesAreRows`, an injection of a finite
set into itself being onto), so that a listed table lists as it is
(`ListingOfListing`) and rows of the same orders are listed alike (`OrdersPlace`).
An import is a fold: the recursive function behind `FoldLeft` exists
(`FoldsExist`, by the well-ordering of the sizes of sets), hence an import puts one
row after another (`ImportSteps`), and a table that replaces everything is what
there is then (`ImportOfTable`, by the least row that would be wrong). Assumed of the
orders is that they are integers and that an absent one is none. Without a table
`WritesAreInForce` says nothing.

`AgentTurnProofs` proves `TypeCorrect` (`TypeOK`), `ModelCallsCharged`
(`ModelCallsAccounted`) and `ChargesHold` (`NothingChargedTwice`). `ModelCallsAccounted` says nothing of a runtime without a
session, so its construction needs to know that nothing has been charged to it
yet: `IInv == TypeOK /\ NothingUsedBefore /\ ModelCallsAccounted`. The arithmetic is
one lemma, `LessTwice`: two deductions that stop at zero are the deduction of
the sum. For `ChargesHold` the invariant says that neither the row nor any copy
that a turn may still store is short of the first budget less what has been used
in the session (`NobodyShort`): what a late writer stores is stale, but too much
rather than too little.

Of the approvals inbox, `OperatorProofs` proves `InboxTypeCorrect` (`InboxTypeOK`),
`AnsweredOnce` (`OneAnswerUnlessProcessesRace`) and
`InboxTellsAnswers` (`AnswersAgreeWithInbox`). The invariant adds what makes a race
the only way to two answers: rows stay (`RequestsStay`), a call that is about to
update had found its request unanswered (`FoundUnanswered`), and the gateway,
being serial, has in its history whatever it answered before (`GatewayIsSerial`);
`HistoryIsPast` keeps the history variables to the past.

`PluginsProofs` proves `TrailHolds` (`TrailTellsPlugins`), `UpgradesHold`
(`UpgradesAreEnabledAnew`) and `ForgottenHold` (`ForgottenPrincipalsOnlyRead`). The
invariant says of each plugin what the trail knows of it, also while a record of
another is owed, that the change whose record is owed has been made
(`OwedIsDone`), and of each act what its place in the trail says; a record that
is appended changes none of what lies before it. The third needs the answers of
the default rules for what a forgotten principal is taken for. TLC's instance has
a user only; the theorem has principals of every type, of which the system's is
not held by a readonly session, and the property says so.

`LifecycleProofs` proves `TypeCorrect` (`TypeOK`), `PruningHolds`
(`PruningKeepsCallsWhole`), `MigrationsHold` (`VersionTellsSchema`), `RecoveryHolds`
(`RecoverySettles`) and `PruningCompletes` (`PruningIsComplete`). For the first: both records of a call have
the same session and the same start, so one DELETE takes both or none
(`EndsTold`); a call in flight is younger than any cutoff (`FlightsTold`,
`JobSpares`). For the second: migrations are applied least first (`NextIsLeast`),
releases agree on what they have in common (`ReleasesAgree`), and so everything up
to the version is there, whichever release asks (`Migrated`). For the last two:
a job is on course (`JobsOnCourse`). A recovery has each unfit task that is stuck
once on its list and nothing else, so it never rewrites a task that it has
settled or that was not stuck; a pruning has each old closed session on its list
until it has left the table, though its tasks may be gone. `ListsAll` says that a
list of a finite set has each member once; the foreign key is never met, as the
tasks of a session go first (`JobsEndThemselves`).

`DocFetchProofs` proves all the safety properties of its run: `HostsAreAllowed`
(`OnlyAllowedHostsContacted`), `TrailTellsWhatWasDone` (`RecordedMeansDone`),
`ReplayIsInOrder` (`ReplayFollowsStartOrder`), `IntegrityCheckIsRight`
(`IntegrityKnowsOpenCalls`) and `ComparisonTellsKeys` (`DiffTellsOutcomes`).
`OnlyAllowedHostsContacted` is inductive with the types of pages. The others speak
of what operators compute from the trail, and fall into two parts.

The first part is about the steps. The invariant `IInv`, which TLC has checked on
the run's instance, says where each fetch is what has been written, kept and
charged (`FetchIs`), of each record which fetch it is of and what must have been
done for it to be there (`IsOfFetch`), that a fetch has one record or its start and
then its end (`StartThenEnd`), that fetches arrive in order, finitely many so far
(`ArriveInOrder`), and that each budget is the first less what was charged
(`BudgetIsLeft`). It says so between any two writes, which is where the process may
stop. There is a lemma for what each kind of step does (`RefusalIsRight`,
`StartIsRight`, `WaitingIsRight`, `StoringIsRight`, `ChargingIsRight`, `EndIsRight`,
`StoppingIsRight`), resting on what a step leaves alone (`RecordsStay`,
`FetchStays`). That the charges of a session are a sum is again a fact about
`MapThenSumSet`, got from the only function with the equations of a sum
(`TotalIsSum`, `TotalsAdd`).

The second part is about reading, and holds in any state with `IInv`, with no steps
in it. A query has each record of its session once, in the order of the keys
(`PlacesAreRows`, `ListingHasRows`, `SessionIsRead`), and keys that order alike list
alike (`OrderLists`), which is `ReplayIsInOrder`. The two loops of `replay.ts` are
folds. That a fold goes through the records one at a time is `FoldsGoThrough`, by
the function behind it, which exists (`FoldsExist`). What a loop has found after k
records is then stated without the loop and shown to be kept by one turn of it:

* the integrity check: a start is open if no record of its key since has opened
  or closed one (`OpenAt`, `ExaminingKeepsPlaces`, `ReportsAreByPlaces`);
* the comparison: the greedy matching takes the n-th record of a key in A with the
  n-th of that key in B (`Pair`, `FirstFreeIsPair`, `MatchingKeepsPairs`). Pairs do
  not depend on the direction, so both directions find the same, and there is
  nothing to find just when each key has the same sequence of outcomes on both
  sides (`DiffIsByPairs`, `TracksAreByPairs`).

Assumed are, besides the types of the constants, that fetches are numbered and
that `None`, an absent field, is neither a task nor a decision.

Only model-checked: all liveness, `QueuedIsAnswered`, `WaitingIsAnswered`,
`CallsAreAnswered`, `TurnsEnd` and `FetchEnds`, as fairness and ENABLED are beyond the
prover. The runs that are expected to fail have nothing to prove.

Every module with variables but `PolicyContexts` has a `TypeOK` (`Approvals` calls it
`InboxTypeOK`, `BrowserWorker` `WorkerTypeOK`). It was checked while the modules were developed,
the runs do not list it. `TypeCorrect`, and `InboxTypeCorrect`, prove it for
`ModelScheduler`, `Delegation`, `Broker`, `AgentTurn`, `Approvals`, `Plugins`,
`Lifecycle` and `DocFetch` with its worker. Of `PolicyEditor`, `OperatorProofs` proves
what its properties need, the types of the table with a row per id (`Stored`).

## 5. What is left

The rest of `TypeOK` of `PolicyEditor`, the types of an engine without a table: a
deletion there is `SelectSeq`, of which the prover's library states nothing. And
liveness, should a prover for it come about.

## 6. Not modelled

Channels, the model provider, the user interfaces, paths and the memory store:
conversion, I/O and rendering, with no state that several steps share. The
sandbox worker: one command in one container, of which `Broker` has the receipt
or the error. `validateArchive()`, which only reads and always finds the manifest
without a `schemaVersion`. The renderings of traces and timelines in `replay.ts`.
The run planner under `app/core`: a sequential Python tool of strings and scores,
which nothing of the gateway calls. HTTP validation of shapes, 404s and event
emission: they change nothing.

One hazard has no property: a child that is created below a parent that ended
while its request waited. No document says what should hold of it (the route does
not look at the parent's state at all); `CapabilitiesNarrow` and `TreeWithinLimits` are
checked across such steps. Some are covered in part, as their
notes in `PROJECT.json` tell: elevation revoked after a caller has read the session
(`StartsUnderRulesInForce` goes by the copy); tools that were chosen for a model
before rules or modes changed (`HiddenToolsCannotRun` compares visibility and
permission at one moment; that a call is judged anew when it starts is
`StartsUnderRulesInForce`); and what the disagreements of section 3 make of posted
tasks, of records of approvals, of a plugin's record that a stop cut off, and of
starts that a later one has hidden.
