------------------------------- MODULE Broker -------------------------------
(***************************************************************************)
(* ToolBroker.dispatch() of src/core/broker.ts: several dispatches in one  *)
(* session, each of which may wait for a human's approval and then for a   *)
(* worker, while clients change the session and operators change the rules.*)
(*                                                                         *)
(* A dispatch is handed a copy of the session its caller read earlier.     *)
(* dispatch() gives up control at its two awaits only, so what lies before,*)
(* between and after them is one action each.                              *)
(***************************************************************************)
EXTENDS PolicyEngine, FiniteSets

CONSTANTS
  MaxDispatches,    \* bound: how many calls of dispatch() are ever made
  Tools,            \* tool names a request may carry
  Registry,         \* the registered tools, each with its schema
  CapabilitySet,    \* Task.capabilitySet
  Principals,       \* the principals that send requests
  Domains,          \* network domains of requests
  Rulesets,         \* the lists of rules an operator may install, by name
  Workers,          \* the runtime targets that have a worker
  WorkerResults,    \* what a worker may come back with
  Wirings,          \* which optional collaborators a broker is constructed with
  InitialBudget,    \* the session's budget at the start
  PatchBudgets,     \* budgets a client sends to PATCH /sessions/:id
  PatchModes,       \* modes a client sends to PATCH /sessions/:id
  MaxPatches,       \* bound: how often the session or the rules are changed
  MaxRestarts       \* bound: how often the process is restarted

Schema == [riskClass : ToolRiskClass, defaultRuntimeTarget : RuntimeTarget]
Principal == [type : PrincipalType, trustLevel : TrustLevel, policyGroup : STRING]

(* A worker returns a receipt, or throws an error, which may name the      *)
(* event type to record and has neither tokens nor artifacts.              *)
WorkerErrorType == {"tool.error", "browser.denied"}
WorkerResult ==
  [eventType : {"tool.finished"}, tokensUsed : Nat, artifacts : BOOLEAN]
    \cup [eventType : WorkerErrorType, tokensUsed : {0}, artifacts : {FALSE}]

Collaborator == {"approvalResolver", "sessionStore", "artifactStore"}

ASSUME BrokerAssumption ==
  /\ DOMAIN Registry \subseteq Tools
  /\ \A t \in DOMAIN Registry : Registry[t] \in Schema
  /\ CapabilitySet \subseteq Tools
  /\ Principals \subseteq Principal
  /\ Workers \subseteq RuntimeTarget
  /\ WorkerResults \subseteq WorkerResult
  /\ Wirings \subseteq SUBSET Collaborator
  /\ "default" \in DOMAIN Rulesets /\ Rulesets["default"] = DEFAULT_POLICY_RULES
  /\ \A name \in DOMAIN Rulesets : IsRuleList(Rulesets[name])
  /\ MaxDispatches \in Nat /\ MaxPatches \in Nat
  /\ InitialBudget \in Nat /\ PatchBudgets \subseteq Nat
  /\ PatchModes \subseteq SessionMode
  /\ MaxRestarts \in Nat

(* Calls are numbered in the order in which they are made.                 *)
Dispatches == 1..MaxDispatches

VARIABLES
  wiring,     \* the optional collaborators this broker has
  session,    \* the session's row
  rules,      \* the name of the list that is PolicyEngine.rules
  pc,         \* where each dispatch is
  request,    \* what each dispatch was called with
  decision,   \* the local variable of each dispatch
  approvalOutcome,  \* the local variable of each dispatch
  auditLog,   \* the audit records each dispatch wrote
  artifacts,  \* the dispatches that stored artifacts
  ledger,     \* history: the budget last granted, the tokens used since
  patches,    \* how often the session or the rules were changed
  restarts    \* how often the process was restarted

HasResolver == "approvalResolver" \in wiring
HasSessionStore == "sessionStore" \in wiring
HasArtifactStore == "artifactStore" \in wiring

locals == <<pc, request, decision, approvalOutcome>>
vars == <<wiring, session, rules, locals, auditLog, artifacts, ledger, patches, restarts>>

Session == [budget : Nat, mode : SessionMode, elevationState : BOOLEAN]
Request == [toolName : Tools, principal : Principals, domain : Domains,
            session : Session]
NoRequest == <<>>
NoDecision == DefaultDeny
Where == {"idle", "called", "awaiting_approval", "executing", "finished",
          "denied", "threw", "lost"}
EventType == {"tool.started", "tool.finished", "tool.denied", "policy.denied",
              "budget.exhausted"} \cup WorkerErrorType
NoMode == "none"
Record == [eventType : EventType, mode : PolicyMode \cup {NoMode},
           budgetConsumed : Nat]

TypeOK ==
  /\ wiring \in Wirings
  /\ session \in Session
  /\ rules \in DOMAIN Rulesets
  /\ pc \in [Dispatches -> Where]
  /\ request \in [Dispatches -> Request \cup {NoRequest}]
  /\ \A d \in Dispatches : pc[d] # "idle" => request[d] \in Request
  /\ decision \in [Dispatches -> PolicyDecision]
  /\ approvalOutcome \in [Dispatches -> ApprovalOutcome]
  /\ auditLog \in [Dispatches -> Seq(Record)]
  /\ artifacts \subseteq Dispatches
  /\ ledger \in [granted : Nat, used : Nat]
  /\ patches \in 0..MaxPatches
  /\ restarts \in 0..MaxRestarts

Init ==
  /\ wiring \in Wirings
  /\ session \in [budget : {InitialBudget}, mode : {"task"}, elevationState : BOOLEAN]
  /\ rules = "default"
  /\ pc = [d \in Dispatches |-> "idle"]
  /\ request = [d \in Dispatches |-> NoRequest]
  /\ decision = [d \in Dispatches |-> NoDecision]
  /\ approvalOutcome = [d \in Dispatches |-> "pending"]
  /\ auditLog = [d \in Dispatches |-> <<>>]
  /\ artifacts = {}
  /\ ledger = [granted |-> InitialBudget, used |-> 0]
  /\ patches = 0
  /\ restarts = 0

-----------------------------------------------------------------------------
(* The context the engine sees, for a given approval state.                *)
Context(req, approval) ==
  [principalTypes    |-> req.principal.type,
   trustLevels       |-> req.principal.trustLevel,
   policyGroups      |-> req.principal.policyGroup,
   toolNames         |-> req.toolName,
   riskClasses       |-> Registry[req.toolName].riskClass,
   sessionModes      |-> req.session.mode,
   requiresElevation |-> req.session.elevationState,
   networkDomains    |-> req.domain,
   approvalStates    |-> approval]

DecisionNow(req, approval) == Evaluate(Rulesets[rules], Context(req, approval))

(* The budget the guard looks at: the row's when there is a session store, *)
(* else the one in the caller's copy.                                      *)
BudgetSeen(req) == IF HasSessionStore THEN session.budget ELSE req.session.budget

RuntimeTargetOf(req, dec) ==
  IF dec.allowedRuntimeTarget = NoTarget
    THEN Registry[req.toolName].defaultRuntimeTarget
    ELSE dec.allowedRuntimeTarget

Refused(req, dec) ==
  \/ dec.mode = "deny"
  \/ dec.mode = "host_elevated_only" /\ ~req.session.elevationState

Event(type, mode, tokens) ==
  [eventType |-> type, mode |-> mode, budgetConsumed |-> tokens]

(* Mutant of StartedRecords: the start is recorded whatever the decision.  *)
StartedRecordsAlways(dec) == <<Event("tool.started", dec.mode, 0)>>

(* dispatch() returns with a denial and one audit record that says why.    *)
Deny(d, type, mode) ==
  /\ pc' = [pc EXCEPT ![d] = "denied"]
  /\ auditLog' = [auditLog EXCEPT ![d] = Append(@, Event(type, mode, 0))]

StartedRecords(dec) ==
  IF dec.auditRequired THEN <<Event("tool.started", dec.mode, 0)>> ELSE <<>>

(* What follows once a decision is final: refuse, or write tool.started    *)
(* and hand the call to the worker, or fail if the target has no worker.   *)
Conclude(d, req, dec) ==
  /\ decision' = [decision EXCEPT ![d] = dec]
  /\ IF Refused(req, dec) THEN Deny(d, "policy.denied", dec.mode)
     ELSE IF RuntimeTargetOf(req, dec) \in Workers THEN
       /\ pc' = [pc EXCEPT ![d] = "executing"]
       /\ auditLog' = [auditLog EXCEPT ![d] = @ \o StartedRecords(dec)]
     ELSE
       /\ pc' = [pc EXCEPT ![d] = "finished"]
       /\ auditLog' = [auditLog EXCEPT ![d] =
            @ \o StartedRecords(dec) \o <<Event("tool.error", NoMode, 0)>>]

-----------------------------------------------------------------------------
(* A caller reads the session and makes up a request; it calls dispatch()  *)
(* at once (doc-fetch route) or some time later (AgentRuntime).            *)
Call(d, t, p, domain) ==
  /\ pc[d] = "idle" /\ \A e \in 1..d-1 : pc[e] # "idle"
  /\ pc' = [pc EXCEPT ![d] = "called"]
  /\ request' = [request EXCEPT ![d] =
       [toolName |-> t, principal |-> p, domain |-> domain, session |-> session]]
  /\ UNCHANGED <<wiring, session, rules, decision, approvalOutcome, auditLog, artifacts,
                 ledger, patches, restarts>>

Unchecked(d) == pc[d] = "called"
Known(d) == Unchecked(d) /\ request[d].toolName \in DOMAIN Registry
Affordable(d) == Known(d) /\ BudgetSeen(request[d]) > 0
(* Mutant of Capable: the capability set is not consulted.                 *)
CapableUnchecked(d) == Affordable(d)

Capable(d) == Affordable(d) /\ request[d].toolName \in CapabilitySet

DispatchUnknown(d) ==
  /\ Unchecked(d) /\ ~Known(d)
  /\ Deny(d, "tool.error", NoMode)
  /\ UNCHANGED <<wiring, session, rules, request, decision, approvalOutcome, artifacts,
                 ledger, patches, restarts>>

DispatchExhausted(d) ==
  /\ Known(d) /\ ~Affordable(d)
  /\ Deny(d, "budget.exhausted", NoMode)
  /\ UNCHANGED <<wiring, session, rules, request, decision, approvalOutcome, artifacts,
                 ledger, patches, restarts>>

DispatchIncapable(d) ==
  /\ Affordable(d) /\ ~Capable(d)
  /\ Deny(d, "tool.denied", NoMode)
  /\ UNCHANGED <<wiring, session, rules, request, decision, approvalOutcome, artifacts,
                 ledger, patches, restarts>>

DispatchDecided(d) ==
  /\ Capable(d)
  /\ \E dec \in {DecisionNow(request[d], "pending")} :
       /\ dec.mode # "allow_with_approval"
       /\ Conclude(d, request[d], dec)
  /\ UNCHANGED <<wiring, session, rules, request, approvalOutcome, artifacts, ledger,
                 patches, restarts>>

NeedsApproval(d) ==
  Capable(d) /\ DecisionNow(request[d], "pending").mode = "allow_with_approval"

DispatchUnapprovable(d) ==
  /\ ~HasResolver
  /\ NeedsApproval(d)
  /\ Deny(d, "policy.denied", "allow_with_approval")
  /\ decision' = [decision EXCEPT ![d] = DecisionNow(request[d], "pending")]
  /\ UNCHANGED <<wiring, session, rules, request, approvalOutcome, artifacts, ledger,
                 patches, restarts>>

DispatchAsks(d) ==
  /\ HasResolver
  /\ NeedsApproval(d)
  /\ pc' = [pc EXCEPT ![d] = "awaiting_approval"]
  /\ decision' = [decision EXCEPT ![d] = DecisionNow(request[d], "pending")]
  /\ UNCHANGED <<wiring, session, rules, request, approvalOutcome, auditLog, artifacts,
                 ledger, patches, restarts>>

(* The resolver answers anything but 'approved'. *)
ApprovalRefused(d, outcome) ==
  /\ pc[d] = "awaiting_approval"
  /\ outcome # "approved"
  /\ approvalOutcome' = [approvalOutcome EXCEPT ![d] = outcome]
  /\ Deny(d, "policy.denied", decision[d].mode)
  /\ UNCHANGED <<wiring, session, rules, request, decision, artifacts, ledger,
                 patches, restarts>>

(* The resolver throws, and dispatch() with it.                            *)
ApprovalThrows(d) ==
  /\ pc[d] = "awaiting_approval"
  /\ pc' = [pc EXCEPT ![d] = "threw"]
  /\ UNCHANGED <<wiring, session, rules, request, decision, approvalOutcome, auditLog,
                 artifacts, ledger, patches, restarts>>

(* Mutant of DecisionAfterApproval: the rules are not consulted again.     *)
DecisionBeforeApproval(d) == [decision[d] EXCEPT !.mode = "allow"]

(* The decision that counts after an approval: the request is evaluated    *)
(* again, by the rules as they are now.                                    *)
DecisionAfterApproval(d) == DecisionNow(request[d], "approved")

(* Mutant of ApprovalGranted: an expired approval counts.                  *)
ApprovalGrantedOrExpired(d) ==
  /\ pc[d] = "awaiting_approval"
  /\ \E outcome \in {"approved", "expired"} :
       approvalOutcome' = [approvalOutcome EXCEPT ![d] = outcome]
  /\ \E dec \in {DecisionAfterApproval(d)} : Conclude(d, request[d], dec)
  /\ UNCHANGED <<wiring, session, rules, request, artifacts, ledger, patches, restarts>>

ApprovalGranted(d) ==
  /\ pc[d] = "awaiting_approval"
  /\ approvalOutcome' = [approvalOutcome EXCEPT ![d] = "approved"]
  /\ \E dec \in {DecisionAfterApproval(d)} : Conclude(d, request[d], dec)
  /\ UNCHANGED <<wiring, session, rules, request, artifacts, ledger, patches, restarts>>

(* Mutant of BudgetAfter: the new budget is computed from the caller's     *)
(* copy of the session.                                                    *)
BudgetAfterStale(d, tokens) ==
  IF tokens < request[d].session.budget THEN request[d].session.budget - tokens ELSE 0

(* SessionStore.decrementBudget(): one UPDATE, from the row's own value.   *)
BudgetAfter(d, tokens) ==
  IF tokens < session.budget THEN session.budget - tokens ELSE 0

(* Mutant of WorkerReturns: a worker that comes back to a spent budget is  *)
(* not attended to.                                                        *)
WorkerReturnsIfAffordable(d, result) ==
  LET tokens == IF HasSessionStore THEN result.tokensUsed ELSE 0 IN
  /\ pc[d] = "executing"
  /\ session.budget > 0
  /\ pc' = [pc EXCEPT ![d] = "finished"]
  /\ artifacts' = artifacts
  /\ session' = [session EXCEPT !.budget = BudgetAfter(d, tokens)]
  /\ ledger' = [ledger EXCEPT !.used = @ + tokens]
  /\ auditLog' = auditLog
  /\ UNCHANGED <<wiring, rules, request, decision, approvalOutcome, patches, restarts>>

(* The await of the worker ends: artifacts are stored, the budget is       *)
(* charged, and the record of the end is written, where these are due.     *)
WorkerReturns(d, result) ==
  LET tokens == IF HasSessionStore THEN result.tokensUsed ELSE 0 IN
  /\ pc[d] = "executing"
  /\ pc' = [pc EXCEPT ![d] = "finished"]
  /\ artifacts' = IF HasArtifactStore /\ result.artifacts
                    THEN artifacts \cup {d} ELSE artifacts
  /\ session' = [session EXCEPT !.budget = BudgetAfter(d, tokens)]
  /\ ledger' = [ledger EXCEPT !.used = @ + tokens]
  /\ auditLog' = [auditLog EXCEPT ![d] =
       IF decision[d].auditRequired
         THEN Append(@, Event(result.eventType, decision[d].mode, tokens))
         ELSE @]
  /\ UNCHANGED <<wiring, rules, request, decision, approvalOutcome, patches, restarts>>

(* PATCH /sessions/:id, one field at a time. *)
PatchSession ==
  /\ patches < MaxPatches
  /\ patches' = patches + 1
  /\ \/ \E b \in PatchBudgets :
          /\ session' = [session EXCEPT !.budget = b]
          /\ ledger' = [granted |-> b, used |-> 0]
     \/ \E m \in PatchModes \ {session.mode} :
          session' = [session EXCEPT !.mode = m] /\ UNCHANGED ledger
     \/ session' = [session EXCEPT !.elevationState = ~@] /\ UNCHANGED ledger
  /\ UNCHANGED <<wiring, rules, locals, auditLog, artifacts, restarts>>

(* PolicyEngine.setRules(), by a route of the policy editor. *)
SetRules(rs) ==
  /\ patches < MaxPatches
  /\ patches' = patches + 1
  /\ rs # rules
  /\ rules' = rs
  /\ UNCHANGED <<wiring, session, locals, auditLog, artifacts, ledger, restarts>>

(* The process stops and starts again, with the default rules.             *)
Restart ==
  /\ restarts < MaxRestarts
  /\ restarts' = restarts + 1
  /\ rules' = "default"
  /\ pc' = [d \in Dispatches |->
       IF pc[d] \in {"called", "awaiting_approval", "executing"} THEN "lost" ELSE pc[d]]
  /\ UNCHANGED <<wiring, session, request, decision, approvalOutcome, auditLog,
                 artifacts, ledger, patches>>

DispatchStep(d) ==
  \/ DispatchUnknown(d)
  \/ DispatchExhausted(d)
  \/ DispatchIncapable(d)
  \/ DispatchDecided(d)
  \/ DispatchUnapprovable(d)
  \/ DispatchAsks(d)

Resolve(d) ==
  \/ \E outcome \in ApprovalOutcome : ApprovalRefused(d, outcome)
  \/ ApprovalThrows(d)
  \/ ApprovalGranted(d)

Progress ==
  \E d \in Dispatches :
    \/ DispatchStep(d)
    \/ Resolve(d)
    \/ \E result \in WorkerResults : WorkerReturns(d, result)

Next ==
  \/ \E d \in Dispatches, t \in Tools, p \in Principals, n \in Domains : Call(d, t, p, n)
  \/ Progress
  \/ PatchSession
  \/ \E rs \in DOMAIN Rulesets : SetRules(rs)
  \/ Restart

Spec == Init /\ [][Next]_vars

(* A caller that has read the session goes on to call dispatch(); humans   *)
(* answer; workers return, having a wall-clock timeout.  A dispatch has    *)
(* finitely many steps, so it is enough that some dispatch goes on as long *)
(* as one can.                                                             *)
Fairness == WF_vars(Progress)

FairSpec == Spec /\ Fairness
-----------------------------------------------------------------------------
Ran(d) == pc[d] = "executing" \/ (pc[d] = "finished" /\ RuntimeTargetOf(request[d], decision[d]) \in Workers)

(* A worker is started only on the say-so of the rules in force at that    *)
(* very moment: an operator who tightens the rules while a human ponders   *)
(* an approval stops the call, and a rule that turned to host elevation    *)
(* stops it unless its session was elevated (the second evaluation in      *)
(* dispatch(), and the check of the decision after it).                    *)
StartsUnderRulesInForce ==
  [][\A d \in Dispatches : pc[d] # "executing" /\ pc'[d] = "executing" =>
       LET approval == IF pc[d] = "awaiting_approval" THEN "approved" ELSE "pending"
           mode == DecisionNow(request[d], approval).mode
       IN  /\ mode \notin {"deny", "allow_with_approval"}
           /\ mode = "host_elevated_only" => request[d].session.elevationState]_vars

(* "Approval cannot be bypassed" (SECURITY_MODEL.md, 3.7): a call that ran *)
(* under a rule that asks for approval was approved, however often the     *)
(* rules changed and whatever the resolver answered meanwhile.             *)
ApprovalNotBypassed ==
  \A d \in Dispatches :
    Ran(d) /\ decision[d].requiresApproval => approvalOutcome[d] = "approved"

(* The records of tools in the trail of a dispatch agree with what         *)
(* happened to it (items 1 to 4 of SECURITY_MODEL.md, 7): one record for a *)
(* denial and no trace of a start; a start before anything else and one    *)
(* end after it when the decision asks for audit; silence only when it     *)
(* does not; no trace of a start when the resolver threw.  Of approvals    *)
(* nothing is said: dispatch() writes no record of them, although items 5  *)
(* and 6 of that list ask for "approval.requested" and                     *)
(* "approval.resolved".                                                    *)
AuditTellsWhatHappened ==
  \A d \in Dispatches :
    LET trail == [i \in DOMAIN auditLog[d] |-> auditLog[d][i].eventType]
        Ends == {"tool.finished"} \cup WorkerErrorType
        audited == decision[d].auditRequired
        Unstarted == \A i \in DOMAIN trail : trail[i] \notin {"tool.started", "tool.finished"}
    IN  CASE pc[d] \in {"idle", "called", "awaiting_approval"} -> trail = <<>>
          [] pc[d] = "threw" -> Unstarted
          [] pc[d] = "denied" ->
               \E e \in EventType \ {"tool.started", "tool.finished"} : trail = <<e>>
          [] pc[d] = "executing" ->
               trail = IF audited THEN <<"tool.started">> ELSE <<>>
          [] pc[d] = "finished" ->
               \/ ~audited /\ trail = <<>> /\ Ran(d)
               \/ ~audited /\ trail = <<"tool.error">> /\ ~Ran(d)
               \/ audited /\ \E e \in Ends : trail = <<"tool.started", e>>
          [] pc[d] = "lost" -> trail \in {<<>>, <<"tool.started">>}

(* The session's budget is the last one granted less all that was used     *)
(* since, never below zero, in whatever order concurrent calls end and     *)
(* clients change the session (SessionStore.decrementBudget).              *)
BudgetAccounted ==
  session.budget =
    IF ledger.used < ledger.granted THEN ledger.granted - ledger.used ELSE 0

(* Only a call that ran leaves effects, and it ran only with a capability: *)
(* artifacts, and tokens charged in its records.                           *)
EffectsOnlyOfCapableRuns ==
  \A d \in Dispatches :
    (d \in artifacts \/ \E i \in DOMAIN auditLog[d] : auditLog[d][i].budgetConsumed > 0)
      => Ran(d) /\ request[d].toolName \in CapabilitySet

(* Every call that was made is answered, as long as humans answer and      *)
(* workers return, or the process stops.                                   *)
CallsAreAnswered ==
  \A d \in Dispatches :
    pc[d] \in {"called", "awaiting_approval", "executing"} ~>
      pc[d] \in {"finished", "denied", "threw", "lost"}

=============================================================================
