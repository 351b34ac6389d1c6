------------------------------ MODULE DocFetch ------------------------------
(***************************************************************************)
(* POST /browser/doc-fetch from end to end: the route of                   *)
(* src/core/gateway.ts, ToolBroker.dispatch() of src/core/broker.ts, the   *)
(* worker of src/workers/browser.ts, and what is kept of a fetch: its      *)
(* artifact, the session's budget and the audit trail, which operators     *)
(* read back with src/core/replay.ts.                                      *)
(*                                                                         *)
(* A fetch waits for its worker, and for nothing else: what comes before   *)
(* is one action.  What comes after is not interrupted by other fetches    *)
(* either, but its writes are separate transactions, and the process may   *)
(* stop between two.  A write that throws is such a stop, as nothing       *)
(* catches the rejection of the handler's promise.                         *)
(***************************************************************************)
EXTENDS BrowserWorker, Replay, PolicyEngine

CONSTANTS
  Sessions, Tasks,   \* the sessions and tasks there are
  Asked,             \* what each request may ask for: a URL, for a task in a session
  PrincipalOf,       \* the principal of each session
  CapableTasks,      \* the tasks whose capability set has browser_doc_fetch
  TrustOf,           \* and the trust level it has
  InitialBudget,     \* the budget of each session
  MaxInFlight,       \* bound: how many fetches overlap
  MaxTime            \* bound: the clock

ASSUME DocFetchAssumption ==
  /\ Executions \subseteq Nat
  /\ None \notin Tasks /\ None \notin PolicyDecision
  /\ Asked \in [Executions -> SUBSET [session : Sessions, task : Tasks, url : Urls]]
  /\ CapableTasks \subseteq Tasks
  /\ TrustOf \in [Sessions -> TrustLevel]
  /\ InitialBudget \in Nat /\ MaxInFlight \in Nat /\ MaxTime \in Nat

VARIABLES
  now,        \* the clock, as coarse as the milliseconds of a record
  wired,      \* whether the broker was given an artifact and a session store
  budget,     \* the budget of each session
  pc,         \* where each fetch is
  request,    \* what each fetch was asked for, and when
  trail,      \* the audit records
  artifacts,  \* the artifacts
  charged     \* history: what each fetch was charged

vars == <<workerVars, now, wired, budget, pc, request, trail, artifacts, charged>>

tool == "browser_doc_fetch"
NoRequest == <<>>
Where == {"idle", "executing", "stored", "charged", "done", "lost"}
Request == [session : Sessions, task : Tasks, url : Urls, startedAt : 0..MaxTime]
Unfinished == {d \in Executions : pc[d] \in {"executing", "stored", "charged"}}
EventType == WorkerEvent \cup {"budget.exhausted", "tool.denied", "policy.denied", "tool.started"}

TypeOK ==
  /\ WorkerTypeOK
  /\ now \in 0..MaxTime
  /\ wired \in BOOLEAN
  /\ budget \in [Sessions -> Nat]
  /\ pc \in [Executions -> Where]
  /\ request \in [Executions -> Request \cup {NoRequest}]
  /\ \A i \in DOMAIN trail : trail[i].eventType \in EventType
  /\ artifacts \subseteq [provenanceId : Tasks, invocationId : Executions]
  /\ charged \in [Executions -> Nat]

Init ==
  /\ WorkerInit
  /\ now = 0
  /\ wired \in BOOLEAN
  /\ budget = [s \in Sessions |-> InitialBudget]
  /\ pc = [d \in Executions |-> "idle"]
  /\ request = [d \in Executions |-> NoRequest]
  /\ trail = <<>> /\ artifacts = {}
  /\ charged = [d \in Executions |-> 0]

-----------------------------------------------------------------------------
At(asked, time) ==
  [session |-> asked.session, task |-> asked.task, url |-> asked.url, startedAt |-> time]

(* The record of fetch d that its broker writes.                           *)
AuditRecord(d, req, event, decision, target, error, remaining, refs) ==
  [eventType |-> event, sessionId |-> req.session, taskId |-> req.task,
   principalId |-> PrincipalOf[req.session], toolName |-> tool,
   startedAt |-> req.startedAt, policyDecision |-> decision, runtimeTarget |-> target,
   error |-> error, budgetRemaining |-> remaining, artifacts |-> refs, call |-> d]

Context(s, url) ==
  [principalTypes |-> "user", trustLevels |-> TrustOf[s], policyGroups |-> "default",
   toolNames |-> tool, riskClasses |-> "D", sessionModes |-> "task",
   requiresElevation |-> FALSE, networkDomains |-> url.host.labels,
   approvalStates |-> "pending"]

Decision(req) == Evaluate(DEFAULT_POLICY_RULES, Context(req.session, req.url))

(* A worker has come back and its broker is not done: nothing else runs.   *)
Concluding(d) == d \in Unfinished /\ page[d].state = "ended"
Quiet == ~\E d \in Executions : Concluding(d)

(* The next fetch, of a URL for a task in a session; the route does not    *)
(* ask whether the task is of that session.                                *)
Arrives(d, req) ==
  /\ Quiet /\ Cardinality(Unfinished) < MaxInFlight
  /\ pc[d] = "idle" /\ \A e \in Executions : e < d => pc[e] # "idle"
  /\ request' = [request EXCEPT ![d] = req]

Refuse(d, req, event, decision, target, error, remaining) ==
  /\ trail' = Append(trail, AuditRecord(d, req, event, decision, target, error, remaining, {}))
  /\ pc' = [pc EXCEPT ![d] = "done"]
  /\ UNCHANGED <<workerVars, now, wired, budget, artifacts, charged>>

FetchExhausted(d, req) ==
  /\ Arrives(d, req)
  /\ budget[req.session] = 0
  /\ Refuse(d, req, "budget.exhausted", None, None, "exhausted", 0)

Incapable(req) == budget[req.session] # 0 /\ req.task \notin CapableTasks

FetchIncapable(d, req) ==
  /\ Arrives(d, req)
  /\ Incapable(req)
  /\ Refuse(d, req, "tool.denied", None, None, "incapable", None)

Capable(req) == budget[req.session] # 0 /\ req.task \in CapableTasks

(* No approval resolver is configured: what needs approval is denied.      *)
FetchDenied(d, req) ==
  /\ Arrives(d, req)
  /\ Capable(req)
  /\ Decision(req).mode \in {"deny", "allow_with_approval"}
  /\ Refuse(d, req, "policy.denied", Decision(req), "browser_worker", "denied", None)

FetchStarts(d, req) ==
  /\ Arrives(d, req)
  /\ Capable(req)
  /\ Decision(req).mode = "allow"
  /\ trail' = Append(trail, AuditRecord(d, req, "tool.started", Decision(req),
                                        "browser_worker", None, None, {}))
  /\ pc' = [pc EXCEPT ![d] = "executing"]
  /\ Execute(d, req.url)
  /\ UNCHANGED <<now, wired, budget, artifacts, charged>>

(* While a fetch waits for its worker nothing else of it changes.          *)
Waits(d) ==
  /\ Quiet /\ pc[d] = "executing"
  /\ UNCHANGED <<now, wired, budget, pc, request, trail, artifacts, charged>>

(* The worker and the server go on, or the timer fires.                    *)
FetchGoesOn(d) == Waits(d) /\ WorkerNext(d)
FetchTimesOut(d) == Waits(d) /\ TimerFires(d)

-----------------------------------------------------------------------------
HasReceipt(d) == page[d].outcome.eventType = "tool.finished"

(* artifactStore.store(), when there is one and there is a receipt.        *)
StoreArtifact(d) ==
  /\ pc[d] = "executing" /\ Concluding(d)
  /\ wired /\ HasReceipt(d)
  /\ pc' = [pc EXCEPT ![d] = "stored"]
  /\ artifacts' = artifacts \cup
       {[provenanceId |-> request[d].task, invocationId |-> d]}
  /\ UNCHANGED <<workerVars, now, wired, budget, request, trail, charged>>

Less(amount, used) == IF used < amount THEN amount - used ELSE 0

(* decrementBudget(), which does not go below zero.                        *)
Charge(d) ==
  /\ pc[d] = "stored"
  /\ pc' = [pc EXCEPT ![d] = "charged"]
  /\ budget' = [budget EXCEPT ![request[d].session] = Less(@, page[d].outcome.tokensUsed)]
  /\ charged' = [charged EXCEPT ![d] = page[d].outcome.tokensUsed]
  /\ UNCHANGED <<workerVars, now, wired, request, trail, artifacts>>

(* Mutant of Settled: the last record is written before the budget is      *)
(* charged, which never happens then.                                      *)
SettledUncharged(d) ==
  \/ pc[d] = "stored"
  \/ pc[d] = "executing" /\ Concluding(d) /\ ~(wired /\ HasReceipt(d))

(* Nothing is left to be done but the last record.                         *)
Settled(d) ==
  \/ pc[d] = "charged"
  \/ pc[d] = "executing" /\ Concluding(d) /\ ~(wired /\ HasReceipt(d))

(* The last record: the budget it tells is what the session was left with. *)
WriteEnd(d) ==
  /\ Settled(d)
  /\ LET req == request[d]
         event == page[d].outcome.eventType
         error == IF HasReceipt(d) THEN None ELSE <<event, req.url>>
     IN  trail' = Append(trail,
           AuditRecord(d, req, event, Decision(req), "browser_worker", error,
                       IF wired /\ HasReceipt(d) THEN budget[req.session] ELSE None,
                       IF HasReceipt(d) THEN {d} ELSE {}))
  /\ pc' = [pc EXCEPT ![d] = "done"]
  /\ UNCHANGED <<workerVars, now, wired, budget, request, artifacts, charged>>

Conclude(d) == StoreArtifact(d) \/ Charge(d) \/ WriteEnd(d)

(* The process stops; what was in flight has no one to conclude it.        *)
Stop ==
  /\ Unfinished # {}
  /\ pc' = [d \in Executions |-> IF d \in Unfinished THEN "lost" ELSE pc[d]]
  /\ UNCHANGED <<workerVars, now, wired, budget, request, trail, artifacts, charged>>

Tick ==
  /\ Quiet
  /\ now < MaxTime
  /\ now' = now + 1
  /\ UNCHANGED <<workerVars, wired, budget, pc, request, trail, artifacts, charged>>

Next ==
  \/ \E d \in Executions : \E asked \in Asked[d] :
       LET req == At(asked, now)
       IN  FetchExhausted(d, req) \/ FetchIncapable(d, req) \/ FetchDenied(d, req)
             \/ FetchStarts(d, req)
  \/ \E d \in Executions : FetchGoesOn(d) \/ Conclude(d)
  \/ Stop \/ Tick

(* A timer that was set fires unless it is cleared, and a handler that was *)
(* resumed runs on; nothing is assumed of servers and clients.             *)
Fairness ==
  /\ WF_vars(\E d \in Executions : FetchTimesOut(d))
  /\ WF_vars(\E d \in Executions : Conclude(d))

Spec == Init /\ [][Next]_vars
FairSpec == Spec /\ Fairness

-----------------------------------------------------------------------------
Has(d, events) == \E i \in DOMAIN trail : trail[i].call = d /\ trail[i].eventType \in events
Started(d) == Has(d, {"tool.started"})
Closed(d) == Has(d, {"tool.finished", "tool.error"})
Ended(d) == Has(d, WorkerEvent)
Stores(d) == {a \in artifacts : a.invocationId = d}

FetchesOf(s) == {d \in Executions : request[d] # NoRequest /\ request[d].session = s}
Spent(s) == MapThenSumSet(LAMBDA d : charged[d], FetchesOf(s))

(* What the trail says of a fetch was done, wherever the process stopped:  *)
(* a fetch recorded as finished left its one artifact, which the export of *)
(* its session has and nothing dangling with it, and was charged for; one  *)
(* recorded as failed or refused left nothing and cost nothing; what was   *)
(* done and not recorded was cut off by a stop.  The budget is what the    *)
(* charges have left of it, and the export never says it is less.          *)
(* A broker that was given no stores is exempt from the first of these:    *)
(* its finished fetches leave nothing and cost nothing either.             *)
RecordedMeansDone ==
  /\ \A s \in Sessions :
       LET pack == BuildReplayPack(trail, artifacts, s)
       IN  /\ budget[s] = Less(InitialBudget, Spent(s))
           /\ pack.lastKnownBudgetRemaining # None => pack.lastKnownBudgetRemaining \geq budget[s]
           /\ ValidateExportBundle(pack) = {}
           /\ \A i \in DOMAIN pack.auditRecords :
                LET r == pack.auditRecords[i]
                IN  IF r.eventType = "tool.finished" /\ wired
                    THEN /\ \E a \in pack.artifacts : a.invocationId = r.call
                         /\ charged[r.call] = page[r.call].outcome.tokensUsed
                    ELSE r.eventType # "tool.started" => Stores(r.call) = {} /\ charged[r.call] = 0
  /\ \A d \in Executions :
       Stores(d) # {} \/ charged[d] > 0 => Has(d, {"tool.finished"}) \/ pc[d] # "done"

(* An operator reads the records of each call together, and the calls in   *)
(* the order in which they started, however they overlapped, as long as no *)
(* two of the session started in the same millisecond.  Calls are numbered *)
(* in the order in which they arrived.                                     *)
ReplayFollowsStartOrder ==
  \A s \in Sessions :
    LET ds == FetchesOf(s)
        byCall == Listed(trail, OfSession(trail, s), [i \in DOMAIN trail |-> trail[i].call])
    IN  (\A d, e \in ds : d # e => request[d].startedAt # request[e].startedAt) =>
          ValidateReplaySequence(QueryBySession(trail, s), byCall) = {}

(* Whether fetches d and e look alike to the integrity check.              *)
SameKey(d, e) ==
  /\ request[d].session = request[e].session
  /\ request[d].task = request[e].task

(* What the integrity check says of a session.  Of the calls of a key, the *)
(* one that started last is not reported open when it is closed, and is    *)
(* reported when nothing tells its end, however the others overlap it; an  *)
(* end without a start is reported only of calls that started in the same  *)
(* millisecond as another of their key; a denial without a policy decision *)
(* is one by the capability set.  Two things that documents promise are    *)
(* not so, and are left out.  A call that failed under an event type of    *)
(* the browser's is not "paired" (REPLAY_SPEC.md:290), so that the check   *)
(* takes it for open. And of the earlier calls of a key nothing is said: a *)
(* later start takes their place in the map of open starts, so that not    *)
(* "every tool.started" (replay.ts:475) is accounted for.                  *)
IntegrityKnowsOpenCalls ==
  \A s \in Sessions :
    LET violations == CheckAuditIntegrity(QueryBySession(trail, s))
        Reported(kind, d) == \E v \in violations : v.kind = kind /\ v.record.call = d
    IN  /\ \A d \in {e \in Executions : Started(e) /\ request[e].session = s} :
             LET others == {e \in Executions \ {d} : Started(e) /\ SameKey(d, e)}
             IN  /\ (\A e \in others : request[e].startedAt < request[d].startedAt) =>
                      /\ Closed(d) => ~Reported("unmatched_started", d)
                      /\ ~Ended(d) => Reported("unmatched_started", d)
                 /\ Reported("orphaned_finished", d) =>
                      \E e \in others : request[e].startedAt = request[d].startedAt
        /\ \A d \in Executions :
             Reported("denial_without_policy", d) <=>
               Has(d, {"tool.denied"}) /\ request[d].session = s

(* The subsequence of a pack with a key, in the fields that are compared.  *)
Track(records, key) ==
  Listed([i \in DOMAIN records |-> Compared(records[i])],
         {i \in DOMAIN records : DiffKey(records[i]) = key}, AsWritten(records))

(* The comparison lists a record of the key, or a pair of records.         *)
ListsKey(diff, a, b, key) ==
  \/ \E i \in diff.onlyInA : DiffKey(a[i]) = key
  \/ \E j \in diff.onlyInB : DiffKey(b[j]) = key
  \/ \E p \in diff.changed : DiffKey(a[p[1]]) = key

(* The comparison of two sessions blames a difference on the event, tool   *)
(* and task in which there is one: something is listed of a key if and     *)
(* only if the two have different sequences of outcomes of it, however     *)
(* often the key occurs and whatever of other keys lies between; and       *)
(* comparing them the other way round lists the same.  Principals,         *)
(* budgets, durations and counts, which REPLAY_SPEC.md:158-164 lists as    *)
(* well, it does not compare: sessions that differ only in those are       *)
(* "identical".                                                            *)
DiffTellsOutcomes ==
  \A s, q \in Sessions : s # q =>
    LET a == QueryBySession(trail, s)
        b == QueryBySession(trail, q)
        there == DiffReplayPacks(a, b)
        back == DiffReplayPacks(b, a)
    IN  /\ \A k \in {DiffKey(trail[i]) : i \in DOMAIN trail} :
             ListsKey(there, a, b, k) <=> Track(a, k) # Track(b, k)
        /\ there.onlyInA = back.onlyInB /\ there.onlyInB = back.onlyInA
        /\ there.changed = {<<p[2], p[1]>> : p \in back.changed}

(* Whatever is asked for and whatever servers answer, no request goes to a *)
(* host that is not a name on the allowlist.                               *)
OnlyAllowedHostsContacted ==
  \A host \in contacted : host.kind = "name" /\ IsDomainAllowed(host)

(* Every fetch that is sent comes to an end, recorded or cut off, even if  *)
(* its server never answers or never finishes answering: again and again   *)
(* none is in flight (as only so many are sent, that is each one's end).   *)
FetchEnds == []<>(Unfinished = {})
=============================================================================
