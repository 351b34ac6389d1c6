----------------------------- MODULE Delegation -----------------------------
(***************************************************************************)
(* The task routes of src/core/gateway.ts over the task table of           *)
(* src/core/session.ts, composed with the model scheduler.                 *)
(*                                                                         *)
(* POST /tasks/:id/delegate is the one task handler that awaits: it checks *)
(* the request against the task table, waits for a model lease, and then   *)
(* creates the child from what it read before the wait.  Every other       *)
(* handler is synchronous.  The continuation of a granted lease is a       *)
(* microtask, so it runs before the next request is taken up.              *)
(*                                                                         *)
(* POST /tasks hands its whole body to createTask(), so what it creates    *)
(* may name a parent and have any depth, cap, capabilities and model.      *)
(***************************************************************************)
EXTENDS Integers, Sequences, FiniteSets, FiniteSetsExt

CONSTANTS
  MaxRequests,    \* bound: how many delegate requests are ever sent
  Capabilities,   \* capability names
  Models,         \* provider/model pairs a request may name
  Halves,         \* a provider without a model, or a model without a provider
  Pool,           \* the pairs the scheduler has an entry for
  MaxConcurrent,  \* slots of each pool entry
  NoModel,        \* the request names neither
  Wirings,        \* whether the gateway is given a model scheduler
  BudgetCaps,     \* budgetCap values a delegate request may carry
  NoCap,          \* the request carries none
  Bodies,         \* the bodies of the delegate requests
  PostBodies,     \* the bodies of POST /tasks, apart from the parent they name
  PatchStates,    \* states a client sends to PATCH /tasks/:id/state
  MAX_DELEGATION_DEPTH,
  MAX_CHILDREN_PER_TASK,
  MaxPosts,       \* bound: how many tasks POST /tasks creates
  MaxPatches,     \* bound: how often a task's state is patched
  MaxRestarts     \* bound: how often the process is restarted

NoParent == 0   \* also: no task, and an id that no task has

Names == Models \cup Halves \cup {NoModel}

ASSUME DelegationAssumption ==
  /\ Pool \subseteq Models
  /\ MaxConcurrent \in [Pool -> Nat]
  /\ NoModel \notin Models \cup Halves
  /\ Halves \cap Models = {}
  /\ Wirings \subseteq BOOLEAN
  /\ MaxRequests \in Nat
  /\ BudgetCaps \subseteq Nat \ {0}
  /\ NoCap \notin Int
  /\ PatchStates \subseteq {"pending", "running", "awaiting_approval",
                            "completed", "failed", "cancelled"}
  /\ MAX_DELEGATION_DEPTH \in Nat
  /\ MAX_CHILDREN_PER_TASK \in Nat
  /\ MaxPosts \in Nat
  /\ MaxPatches \in Nat
  /\ MaxRestarts \in Nat
  /\ Bodies \subseteq [capabilities : SUBSET Capabilities,
                       cap : BudgetCaps \cup {NoCap}, model : Names]
  /\ PostBodies \subseteq [capabilities : SUBSET Capabilities, depth : Int,
                           cap : Int \cup {NoCap}, model : Names]

(* Requests are numbered in the order in which they are sent.              *)
Requests == 1..MaxRequests

VARIABLES
  HasScheduler,  \* deps.modelScheduler is defined
  tasks,         \* the task table in order of creation; an id is an index
  outcome,       \* what became of each delegate request
  response,      \* the id of the child each 201 response names
  snapshot,      \* what each waiting request read before its await
  activeLeases, queues, promise,   \* the scheduler
  patches,       \* how often a task's state was patched
  restarts       \* how often the process was restarted

schedulerVars == <<activeLeases, queues, promise>>
vars == <<HasScheduler, tasks, outcome, response, snapshot, activeLeases, queues, promise, patches, restarts>>

(* The task id the delegate route gives the scheduler, 'pending-' + now: no  *)
(* task ever has it.                                                       *)
Placeholder == NoParent

Scheduler == INSTANCE ModelScheduler WITH
  Calls <- Requests, TaskIds <- {Placeholder}

TaskId == 1..Len(tasks)

TaskState ==
  {"pending", "running", "awaiting_approval", "completed", "failed", "cancelled"}
Terminal == {"completed", "failed", "cancelled"}

Task == [state : TaskState, parent : Nat, capabilitySet : SUBSET Capabilities,
         delegationDepth : Int, budgetCap : Int \cup {NoCap}, model : Names]

TypeOK ==
  /\ HasScheduler \in Wirings
  /\ tasks \in Seq(Task)
  /\ outcome \in [Requests -> {"unsent", "waiting", "created", "rejected", "lost"}]
  /\ response \in [Requests -> Nat]
  /\ DOMAIN snapshot = {r \in Requests : outcome[r] = "waiting"}
  /\ \A r \in DOMAIN snapshot : snapshot[r] \in Task
  /\ Scheduler!TypeOK
  /\ patches \in 0..MaxPatches
  /\ restarts \in 0..MaxRestarts

Init ==
  /\ HasScheduler \in Wirings
  /\ tasks = <<>>
  /\ outcome = [r \in Requests |-> "unsent"]
  /\ response = [r \in Requests |-> NoParent]
  /\ snapshot = [r \in {} |-> {}]
  /\ Scheduler!Init
  /\ patches = 0
  /\ restarts = 0

-----------------------------------------------------------------------------
Children(p) == {t \in TaskId : tasks[t].parent = p}

(* The tasks the delegate route created, and those of them that were       *)
(* created by the request that checked them, without a wait in between.    *)
Delegated(t) == \E r \in Requests : response[r] = t
CreatedAtOnce(t) == \E r \in Requests : response[r] = t /\ promise[r] # "granted"

(* A set of tasks that the walk along parentTaskId, from members of D      *)
(* only, does not leave.                                                   *)
ClosedUpwards(S, D) == \A u \in S \cap D : tasks[u].parent \in S

(* The task and those the walk reaches: what every such set with it has.   *)
Above(t, D) ==
  {a \in TaskId : \A S \in SUBSET TaskId : t \in S /\ ClosedUpwards(S, D) => a \in S}

(* The task and all its ancestors; and those it is linked to by            *)
(* delegations, up to the task with which they began.                      *)
Lineage(t) == Above(t, {u \in TaskId : tasks[u].parent # NoParent})
Line(t) == Above(t, {u \in TaskId : Delegated(u)})

Allocated(T) ==
  MapThenSumSet(LAMBDA t : IF tasks[t].budgetCap = NoCap THEN 0 ELSE tasks[t].budgetCap, T)

(* The continuations of resolved promises run before the next request.     *)
MicrotasksDrained ==
  ~ \E r \in Requests : outcome[r] = "waiting" /\ promise[r] # "pending"

(* The next request to be sent. *)
Unsent(r) == outcome[r] = "unsent" /\ \A q \in 1..r-1 : outcome[q] # "unsent"

NewTask(parent, caps, depth, cap, m) ==
  [state |-> "pending", parent |-> parent, capabilitySet |-> caps,
   delegationDepth |-> depth, budgetCap |-> cap, model |-> m]

(* POST /tasks: a task as the body has it, under any task or none; nothing *)
(* of it is compared with the parent.                                      *)
PostTask(p, body) ==
  /\ MicrotasksDrained
  /\ Cardinality({t \in TaskId : ~Delegated(t)}) < MaxPosts
  /\ tasks' = Append(tasks, NewTask(p, body.capabilities, body.depth, body.cap, body.model))
  /\ UNCHANGED <<HasScheduler, outcome, response, snapshot, schedulerVars, patches, restarts>>

(* PATCH /tasks/:id/state: any state to any state. *)
PatchState(t, s) ==
  /\ MicrotasksDrained
  /\ patches < MaxPatches
  /\ patches' = patches + 1
  /\ tasks[t].state # s
  /\ tasks' = [tasks EXCEPT ![t].state = s]
  /\ UNCHANGED <<HasScheduler, outcome, response, snapshot, schedulerVars, restarts>>

(***************************************************************************)
(* The checks of the delegate route, in terms of the table at the time.    *)
(*                                                                         *)
(* Their mutants: no comparison with the parent's capabilities; a cap      *)
(* compared with the parent's alone.                                       *)
(***************************************************************************)
CapabilitiesUnchecked(p, caps) == caps \subseteq Capabilities
BudgetAllowedAlone(p, cap) ==
  (cap # NoCap /\ tasks[p].budgetCap # NoCap) => cap <= tasks[p].budgetCap

DepthAllowed(p) == tasks[p].delegationDepth + 1 <= MAX_DELEGATION_DEPTH
ChildAllowed(p) == Cardinality(Children(p)) < MAX_CHILDREN_PER_TASK
CapabilitiesAllowed(p, caps) == caps \subseteq tasks[p].capabilitySet
BudgetAllowed(p, cap) ==
  (cap # NoCap /\ tasks[p].budgetCap # NoCap)
    => Allocated(Children(p)) + cap <= tasks[p].budgetCap

(* The walk up from the parent's parent, looking for the parent itself.    *)
NoLoop(p) == tasks[p].parent # NoParent => p \notin Lineage(tasks[p].parent)

Admissible(p, body) ==
  /\ DepthAllowed(p)
  /\ ChildAllowed(p)
  /\ NoLoop(p)
  /\ CapabilitiesAllowed(p, body.capabilities)
  /\ BudgetAllowed(p, body.cap)
  /\ (HasScheduler /\ body.model \in Models) => body.model \in Pool

ChildOf(p, body) ==
  NewTask(p, body.capabilities, tasks[p].delegationDepth + 1, body.cap, body.model)

(* POST /tasks/:id/delegate, refused with a 400. *)
DelegateRefused(r, p, body) ==
  /\ MicrotasksDrained
  /\ Unsent(r)
  /\ ~Admissible(p, body)
  /\ outcome' = [outcome EXCEPT ![r] = "rejected"]
  /\ UNCHANGED <<HasScheduler, tasks, response, snapshot, schedulerVars, patches, restarts>>

(* POST /tasks/:id/delegate that asks for no lease, because it does not    *)
(* name both a provider and a model or there is no scheduler: checked and  *)
(* created at once.  Half a name is stored, and recorded as bound.         *)
DelegateUnbound(r, p, body) ==
  /\ MicrotasksDrained
  /\ Unsent(r)
  /\ HasScheduler => body.model \notin Models
  /\ Admissible(p, body)
  /\ tasks' = Append(tasks, ChildOf(p, body))
  /\ outcome' = [outcome EXCEPT ![r] = "created"]
  /\ response' = [response EXCEPT ![r] = Len(tasks')]
  /\ UNCHANGED <<HasScheduler, snapshot, schedulerVars, patches, restarts>>

(* POST /tasks/:id/delegate with both names, up to the await of its lease. *)
DelegateBound(r, p, body) ==
  /\ MicrotasksDrained
  /\ Unsent(r)
  /\ HasScheduler
  /\ body.model \in Models
  /\ Admissible(p, body)
  /\ Scheduler!AcquireLease(r, Placeholder, body.model)
  /\ outcome' = [outcome EXCEPT ![r] = "waiting"]
  /\ snapshot' = [q \in DOMAIN snapshot \cup {r} |->
                   IF q = r THEN ChildOf(p, body) ELSE snapshot[q]]
  /\ UNCHANGED <<HasScheduler, tasks, response, patches, restarts>>

(* Mutant of DelegateResume: the child is created although the lease has   *)
(* not been granted yet.                                                   *)
DelegateResumeEarly(r) ==
  /\ outcome[r] = "waiting"
  /\ promise[r] # "rejected"
  /\ tasks' = Append(tasks, snapshot[r])
  /\ outcome' = [outcome EXCEPT ![r] = "created"]
  /\ response' = [response EXCEPT ![r] = Len(tasks')]
  /\ snapshot' = [q \in DOMAIN snapshot \ {r} |-> snapshot[q]]
  /\ UNCHANGED <<HasScheduler, schedulerVars, patches, restarts>>

(* The rest of the handler, after its lease was granted: the child is      *)
(* created from the snapshot, and nothing is checked again.                *)
DelegateResume(r) ==
  /\ outcome[r] = "waiting"
  /\ promise[r] = "granted"
  /\ tasks' = Append(tasks, snapshot[r])
  /\ outcome' = [outcome EXCEPT ![r] = "created"]
  /\ response' = [response EXCEPT ![r] = Len(tasks')]
  /\ snapshot' = [q \in DOMAIN snapshot \ {r} |-> snapshot[q]]
  /\ UNCHANGED <<HasScheduler, schedulerVars, patches, restarts>>

(* Mutant of Cancellable: the walk stops at tasks that have ended.         *)
CancellableAbove(t) ==
  {u \in TaskId : tasks[u].state \notin Terminal /\
     \A S \in SUBSET TaskId :
       (t \in S /\ \A v \in S : tasks[v].state \notin Terminal => Children(v) \subseteq S)
         => u \in S}

(* cancelSubtree(): the tasks it cancels, walking from t to all children,  *)
(* also to those of tasks that have ended.                                 *)
Cancellable(t) ==
  {u \in TaskId : tasks[u].state \notin Terminal /\
     \A S \in SUBSET TaskId :
       (t \in S /\ \A v \in S : Children(v) \subseteq S) => u \in S}

(* POST /tasks/:id/cancel.  Every task it cancels is passed to             *)
(* releaseByTaskId(); no lease bears a task's id, so each of these calls   *)
(* finds nothing and their order is immaterial.                            *)
Cancel(t) ==
  LET ended == Cancellable(t) IN
  /\ MicrotasksDrained
  /\ UNCHANGED <<HasScheduler, outcome, response, snapshot, patches, restarts>>
  /\ ended # {}
  /\ tasks' = [u \in TaskId |-> IF u \in ended
                 THEN [tasks[u] EXCEPT !.state = "cancelled"] ELSE tasks[u]]
  /\ \A u \in ended : Scheduler!ReleaseByTaskId(u)

(* POST /tasks/:id/scheduler/release, with the lease id the 201 returned.  *)
ReleaseRoute(r) ==
  /\ MicrotasksDrained
  /\ outcome[r] = "created"
  /\ Scheduler!ReleaseLease(r)
  /\ UNCHANGED <<HasScheduler, tasks, outcome, response, snapshot, patches, restarts>>

(* The process stops and starts again: the tables are on disk, the         *)
(* scheduler and the requests in flight are not.                           *)
Restart ==
  /\ restarts < MaxRestarts
  /\ restarts' = restarts + 1
  /\ activeLeases' = {}
  /\ queues' = [m \in Pool |-> <<>>]
  /\ promise' = [r \in Requests |->
                  IF promise[r] = "pending" THEN "rejected" ELSE promise[r]]
  /\ outcome' = [r \in Requests |->
                  IF outcome[r] = "waiting" THEN "lost" ELSE outcome[r]]
  /\ snapshot' = [r \in {} |-> {}]
  /\ UNCHANGED <<HasScheduler, tasks, response, patches>>

Next ==
  \/ \E p \in TaskId \cup {NoParent}, body \in PostBodies : PostTask(p, body)
  \/ \E r \in Requests, p \in TaskId, body \in Bodies :
       \/ DelegateUnbound(r, p, body)
       \/ DelegateBound(r, p, body)
       \/ DelegateRefused(r, p, body)
  \/ \E r \in Requests : DelegateResume(r)
  \/ \E t \in TaskId : Cancel(t)
  \/ \E t \in TaskId, s \in PatchStates : PatchState(t, s)
  \/ \E r \in Requests : ReleaseRoute(r)
  \/ Restart

Spec == Init /\ [][Next]_vars

(* A lease whose continuation is due is used at once (the event loop runs  *)
(* microtasks); clients are obliged to release the leases they were given. *)
Fairness ==
  \A r \in Requests : WF_vars(DelegateResume(r)) /\ WF_vars(ReleaseRoute(r))

FairSpec == Spec /\ Fairness

-----------------------------------------------------------------------------
(* Delegation never widens capabilities: along the delegations that lead   *)
(* to a task, however many and whatever happened while they waited, no     *)
(* task has a capability that one above it lacks (delegate route,          *)
(* intersection check).  Links made by POST /tasks are not delegations.    *)
CapabilitiesNarrow ==
  \A t \in TaskId : \A a \in Line(t) :
    tasks[t].capabilitySet \subseteq tasks[a].capabilitySet

DepthIsDistance(t) ==
  LET line == Line(t) IN
  /\ \E o \in line :
       /\ ~Delegated(o)
       /\ tasks[t].delegationDepth = tasks[o].delegationDepth + Cardinality(line) - 1
  /\ Delegated(t) => tasks[t].delegationDepth <= MAX_DELEGATION_DEPTH

(* A child and its older siblings. *)
ChildrenUpTo(t) == {c \in Children(tasks[t].parent) : c <= t}
ChildrenFit(t) == Cardinality(ChildrenUpTo(t)) <= MAX_CHILDREN_PER_TASK
BudgetsFit(t) ==
  (tasks[t].budgetCap # NoCap /\ tasks[tasks[t].parent].budgetCap # NoCap)
     => Allocated(ChildrenUpTo(t)) <= tasks[tasks[t].parent].budgetCap

(* Parents are older than their children, so that the walk up the tree in  *)
(* the delegate route ends.  delegationDepth counts the delegations since  *)
(* the task with which they began, and no delegation goes beyond           *)
(* MAX_DELEGATION_DEPTH.  And a request that is answered without a wait    *)
(* leaves its parent within its limits, whatever requests that waited and  *)
(* tasks that were posted had made of them before: with the new child the  *)
(* parent has at most MAX_CHILDREN_PER_TASK children, and if both have a   *)
(* budgetCap the children's caps add up to at most the parent's.           *)
TreeWithinLimits ==
  \A t \in TaskId :
    /\ tasks[t].parent < t
    /\ DepthIsDistance(t)
    /\ CreatedAtOnce(t) => ChildrenFit(t) /\ BudgetsFit(t)

(* Cancelling a task leaves nothing in its subtree that could still run,   *)
(* also below tasks that had ended before, and never rewrites the outcome  *)
(* of a task that had ended.                                               *)
CancelEndsSubtree ==
  [][\A t \in TaskId : Cancel(t) =>
       \A u \in TaskId :
         IF t \in Lineage(u) /\ tasks[u].state \notin Terminal
           THEN tasks'[u].state = "cancelled"
           ELSE tasks'[u] = tasks[u]]_vars

(* Where there is a scheduler, a task that was delegated to a provider and *)
(* a model exists only where its request was granted a lease for them, one *)
(* lease for each such task.  (One that was given only a provider or only  *)
(* a model has none, for all that gateway.ts:762-764 says of a child that  *)
(* "specifies a provider/model", and is recorded as bound like any other.) *)
(* And every active lease can be released by somebody: it is known to a    *)
(* client that was told its id, or to a handler about to tell it.          *)
LeasesAndTasksAgree ==
  /\ HasScheduler => \A t \in TaskId : Delegated(t) /\ tasks[t].model \in Models =>
       \E r \in Requests : response[r] = t /\ promise[r] = "granted"
  /\ \A l \in activeLeases :
       \/ outcome[l.id] = "created"
       \/ outcome[l.id] = "waiting" /\ promise[l.id] = "granted"

(* A delegate request that was admitted is answered with a created child   *)
(* (or the process restarts), as long as clients release their leases.     *)
WaitingIsAnswered ==
  \A r \in Requests : outcome[r] = "waiting" ~> outcome[r] # "waiting"

(* ARCHITECTURE.md 11: "The following constraints are enforced atomically  *)
(* at delegation time: [...] a parent may have at most                     *)
(* `MAX_CHILDREN_PER_TASK` (20) direct children" - also where requests     *)
(* wait for leases between the check and the creation of the child.        *)
ChildrenWithinLimit ==
  \A p \in TaskId :
    Cardinality({c \in Children(p) : Delegated(c)}) <= MAX_CHILDREN_PER_TASK

(* gateway.ts:906 says of the cancel route "Release any scheduler lease    *)
(* held by this task": no slot stays with a request whose child was just   *)
(* cancelled.                                                              *)
CancelReleasesLease ==
  [][\A t \in TaskId : Cancel(t) =>
       \A l \in activeLeases' : response[l.id] \notin Cancellable(t)]_vars
=============================================================================
