---------------------------- MODULE BrokerProofs -----------------------------
(***************************************************************************)
(* That approvals cannot be bypassed, that only capable calls have         *)
(* effects, that the trail tells what happened and that the budget is      *)
(* accounted for, for any number of dispatches, any tools, rules, workers  *)
(* and collaborators; and what the default rules of the policy engine      *)
(* permit, for any tools.                                                  *)
(***************************************************************************)
EXTENDS Broker, PolicyContexts, TLAPS, FiniteSetTheorems, SequenceTheorems

(* Every non-empty set of natural numbers has a least member: the initial  *)
(* segments that end in it are finite sets, and these are well-founded.    *)
LEMMA LeastExists ==
  ASSUME NEW T \in SUBSET Nat, T # {}
  PROVE  \E n \in T : \A m \in T : n \leq m
<1> DEFINE Segments == {0..n : n \in T}
<1>1. IsWellFoundedOn(StrictSubsetOrdering(Nat), FiniteSubsetsOf(Nat))
  BY FS_StrictSubsetOrderingWellFounded
<1>2. Segments \subseteq FiniteSubsetsOf(Nat)
  <2>1. \A n \in T : IsFiniteSet(0..n) /\ 0..n \subseteq Nat
    BY FS_Interval
  <2> QED  BY <2>1 DEF FiniteSubsetsOf
<1>3. Segments # {}
  OBVIOUS
<1> HIDE DEF Segments
<1>4. PICK s \in Segments : \A r \in Segments : <<r, s>> \notin StrictSubsetOrdering(Nat)
  BY <1>1, <1>2, <1>3, WFMin
<1>5. PICK n \in T : s = 0..n
  BY <1>4 DEF Segments
<1>6. ASSUME NEW m \in T, m < n
      PROVE  FALSE
  <2>1. 0..m \in Segments /\ 0..m \subseteq 0..n /\ 0..m \subseteq Nat /\ 0..n \subseteq Nat
    BY <1>6 DEF Segments
  <2>2. n \in 0..n /\ n \notin 0..m
    BY <1>6
  <2>3. <<0..m, 0..n>> \in StrictSubsetOrdering(Nat)
    BY <2>1, <2>2 DEF StrictSubsetOrdering
  <2> QED  BY <1>4, <1>5, <2>1, <2>3
<1> QED  BY <1>6

(* The engine answers with a decision; and a decision by a rule that asks  *)
(* for approval is to ask for it, unless it was given.                     *)
LEMMA EvaluateDecides ==
  ASSUME NEW list, IsRuleList(list), NEW ctx
  PROVE  /\ Evaluate(list, ctx) \in PolicyDecision
         /\ (Evaluate(list, ctx).requiresApproval /\ ctx.approvalStates # "approved")
              => Evaluate(list, ctx).mode = "allow_with_approval"
         /\ ctx.approvalStates = "approved" => Evaluate(list, ctx).mode # "allow_with_approval"
<1>1. CASE \E i \in DOMAIN list : MatchesRule(list[i], ctx)
  <2> DEFINE matching == {i \in DOMAIN list : MatchesRule(list[i], ctx)}
  <2>1. /\ DOMAIN list = 1..Len(list) /\ Len(list) \in Nat
    BY DEF IsRuleList
  <2>2. matching \in SUBSET Nat /\ matching # {}
    BY <1>1, <2>1
  <2>3. PICK least \in matching : \A j \in matching : least \leq j
    <3> HIDE DEF matching
    <3> QED  BY <2>2, LeastExists
  <2>4. \A j \in 1..least-1 : ~MatchesRule(list[j], ctx)
    BY <2>1, <2>3
  <2>5. least \in DOMAIN list /\ IsFirstMatch(list, ctx, least)
    BY <2>3, <2>4 DEF IsFirstMatch
  <2> DEFINE first == CHOOSE i \in DOMAIN list : IsFirstMatch(list, ctx, i)
  <2>6. first \in DOMAIN list
    BY <2>5
  <2>7. Evaluate(list, ctx) = BuildDecision(list[first], ctx)
    BY <1>1 DEF Evaluate
  <2> HIDE DEF first
  <2>8. /\ list[first].effect \in PolicyMode
        /\ list[first].allowedRuntimeTarget \in RuntimeTarget \cup {NoTarget}
        /\ list[first].auditRequired \in BOOLEAN
    BY <2>6 DEF IsRuleList
  <2>9. BuildDecision(list[first], ctx) \in PolicyDecision
    BY <2>8 DEF BuildDecision, PolicyDecision, PolicyMode
  <2>10. (BuildDecision(list[first], ctx).requiresApproval /\ ctx.approvalStates # "approved")
           => BuildDecision(list[first], ctx).mode = "allow_with_approval"
    BY DEF BuildDecision
  <2>11. ctx.approvalStates = "approved"
           => BuildDecision(list[first], ctx).mode # "allow_with_approval"
    BY DEF BuildDecision
  <2> QED  BY <2>7, <2>9, <2>10, <2>11
<1>2. CASE ~\E i \in DOMAIN list : MatchesRule(list[i], ctx)
  <2>1. Evaluate(list, ctx) = DefaultDeny
    BY <1>2 DEF Evaluate
  <2> QED  BY <2>1 DEF DefaultDeny, PolicyDecision, PolicyMode
<1> QED  BY <1>1, <1>2

-----------------------------------------------------------------------------
Finishing == {"awaiting_approval", "executing", "finished"}

(* The trail of a dispatch, record by record, as its decision has it.      *)
StartOf(d) == StartedRecords(decision[d])
TrailSoFar(d) ==
  /\ pc[d] \in {"idle", "called", "awaiting_approval", "threw"} => auditLog[d] = <<>>
  /\ pc[d] = "denied" =>
       \E e \in EventType \ {"tool.started", "tool.finished"}, m \in PolicyMode \cup {NoMode} :
         auditLog[d] = <<Event(e, m, 0)>>
  /\ pc[d] = "executing" => auditLog[d] = StartOf(d)
  /\ pc[d] = "finished" =>
       IF Ran(d)
       THEN IF decision[d].auditRequired
            THEN \E e \in {"tool.finished"} \cup WorkerErrorType, n \in Nat :
                   auditLog[d] = StartOf(d) \o <<Event(e, decision[d].mode, n)>>
            ELSE auditLog[d] = <<>>
       ELSE auditLog[d] = StartOf(d) \o <<Event("tool.error", NoMode, 0)>>
  /\ pc[d] = "lost" =>
       \/ auditLog[d] = <<>>
       \/ \E m \in PolicyMode : auditLog[d] = <<Event("tool.started", m, 0)>>

(* How a dispatch came to where it is: with the capability, to a worker    *)
(* there is, with an approval where its decision asks for one.             *)
CameThere(d) ==
  /\ pc[d] \in Finishing => request[d].toolName \in CapabilitySet
  /\ pc[d] = "executing" => RuntimeTargetOf(request[d], decision[d]) \in Workers
  /\ (pc[d] \in {"executing", "finished"} /\ decision[d].requiresApproval)
       => approvalOutcome[d] = "approved"
  /\ d \in artifacts => pc[d] = "finished" /\ Ran(d)

InOrder(d) == TrailSoFar(d) /\ CameThere(d)

IInv ==
  /\ TypeOK
  /\ \A d \in Dispatches : InOrder(d)
  /\ BudgetAccounted

(* At first no dispatch has left a trace.                                  *)
LEMMA InitInOrder == Init => IInv
<1> SUFFICES ASSUME Init PROVE IInv
  OBVIOUS
<1>1. NoDecision \in PolicyDecision
  BY DEF NoDecision, DefaultDeny, PolicyDecision, PolicyMode
<1>2. TypeOK
  BY <1>1, BrokerAssumption
     DEF Init, TypeOK, BrokerAssumption, Session, SessionMode, Where, ApprovalOutcome, Dispatches
<1>3. \A d \in Dispatches : InOrder(d)
  BY DEF Init, InOrder, TrailSoFar, CameThere, Finishing
<1>4. BudgetAccounted
  BY BrokerAssumption DEF Init, BudgetAccounted, BrokerAssumption
<1> QED  BY <1>2, <1>3, <1>4 DEF IInv

(* What a step does not touch of a dispatch stays in order.                *)
LEMMA UntouchedInOrder ==
  ASSUME NEW e \in Dispatches, InOrder(e),
         UNCHANGED <<pc[e], request[e], decision[e], approvalOutcome[e], auditLog[e]>>,
         e \in artifacts' <=> e \in artifacts
  PROVE  InOrder(e)'
BY DEF InOrder, TrailSoFar, CameThere, Ran, StartOf, StartedRecords, RuntimeTargetOf

(* A step that touches the dispatch d only leaves all in order if it does d. *)
LEMMA OneInOrder ==
  ASSUME IInv, TypeOK', BudgetAccounted', NEW d \in Dispatches, InOrder(d)',
         \A e \in Dispatches \ {d} :
           /\ UNCHANGED <<pc[e], request[e], decision[e], approvalOutcome[e], auditLog[e]>>
           /\ e \in artifacts' <=> e \in artifacts
  PROVE  IInv'
<1>1. ASSUME NEW e \in Dispatches PROVE InOrder(e)'
  <2>1. CASE e = d
    BY <2>1
  <2>2. CASE e # d
    BY <2>2, UntouchedInOrder DEF IInv
  <2> QED  BY <2>1, <2>2
<1> QED  BY <1>1 DEF IInv

(* A denial: one record, and that is all there is.                         *)
LEMMA DenyInOrder ==
  ASSUME IInv, NEW d \in Dispatches, pc[d] \in {"called", "awaiting_approval"},
         NEW e \in EventType \ {"tool.started", "tool.finished"},
         NEW m \in PolicyMode \cup {NoMode},
         Deny(d, e, m),
         UNCHANGED <<wiring, session, rules, request, artifacts, ledger, patches, restarts>>,
         decision' \in [Dispatches -> PolicyDecision],
         approvalOutcome' \in [Dispatches -> ApprovalOutcome],
         \A f \in Dispatches \ {d} : UNCHANGED <<decision[f], approvalOutcome[f]>>
  PROVE  IInv'
<1>1. Event(e, m, 0) \in Record
  BY DEF Event, Record
<1>2. auditLog[d] = <<>>
  BY DEF IInv, InOrder, TrailSoFar
<1>3. /\ pc' \in [Dispatches -> Where] /\ pc'[d] = "denied"
      /\ auditLog' \in [Dispatches -> Seq(Record)]
      /\ auditLog'[d] = <<Event(e, m, 0)>>
      /\ \A f \in Dispatches \ {d} : UNCHANGED <<pc[f], auditLog[f]>>
  <2>1. Append(auditLog[d], Event(e, m, 0)) = <<Event(e, m, 0)>>
    BY <1>2
  <2>2. <<Event(e, m, 0)>> \in Seq(Record)
    BY <1>1
  <2> QED  BY <2>1, <2>2 DEF Deny, IInv, TypeOK, Where
<1>4. TypeOK'
  <2>1. \A f \in Dispatches : request[f] \in Request \/ pc'[f] = "idle"
    BY <1>3 DEF IInv, TypeOK
  <2> QED  BY <1>3, <2>1 DEF IInv, TypeOK
<1>5. BudgetAccounted'
  BY DEF IInv, BudgetAccounted
<1>6. d \notin artifacts
  BY DEF IInv, InOrder, CameThere
<1>7. InOrder(d)'
  BY <1>3, <1>6 DEF InOrder, TrailSoFar, CameThere, Finishing
<1> QED  BY <1>3, <1>4, <1>5, <1>7, OneInOrder

(* A decision is final: the call is denied, starts, or fails for want of a *)
(* worker.                                                                 *)
LEMMA ConcludeInOrder ==
  ASSUME IInv, NEW d \in Dispatches, pc[d] \in {"called", "awaiting_approval"},
         request[d].toolName \in CapabilitySet,
         NEW dec \in PolicyDecision, Conclude(d, request[d], dec),
         UNCHANGED <<wiring, session, rules, request, artifacts, ledger, patches, restarts>>,
         approvalOutcome' \in [Dispatches -> ApprovalOutcome],
         \A f \in Dispatches \ {d} : UNCHANGED approvalOutcome[f],
         dec.requiresApproval => approvalOutcome'[d] = "approved"
  PROVE  IInv'
<1>1. /\ decision' \in [Dispatches -> PolicyDecision]
      /\ decision'[d] = dec
      /\ \A f \in Dispatches \ {d} : UNCHANGED decision[f]
  BY DEF Conclude, IInv, TypeOK
<1>2. dec.mode \in PolicyMode /\ dec.auditRequired \in BOOLEAN
  BY DEF PolicyDecision
<1>3. CASE Refused(request[d], dec)
  <2>1. Deny(d, "policy.denied", dec.mode)
    BY <1>3 DEF Conclude
  <2>2. "policy.denied" \in EventType \ {"tool.started", "tool.finished"}
    BY DEF EventType
  <2> QED  BY <1>1, <1>2, <2>1, <2>2, DenyInOrder
<1>4. auditLog[d] = <<>> /\ d \notin artifacts
  BY DEF IInv, InOrder, TrailSoFar, CameThere
<1>5. BudgetAccounted'
  BY DEF IInv, BudgetAccounted
<1> DEFINE started == StartedRecords(dec)
<1>6. started \in Seq(Record) /\ <<>> \o started = started
  <2>1. Event("tool.started", dec.mode, 0) \in Record
    BY <1>2 DEF Event, Record, EventType
  <2>2. <<Event("tool.started", dec.mode, 0)>> \in Seq(Record) /\ <<>> \in Seq(Record)
    BY <2>1
  <2>3. started \in Seq(Record)
    BY <2>2 DEF StartedRecords
  <2> QED  BY <2>3
<1>7. StartOf(d)' = started
  BY <1>1 DEF StartOf
<1> HIDE DEF started
<1>8. CASE ~Refused(request[d], dec) /\ RuntimeTargetOf(request[d], dec) \in Workers
  <2>1. /\ pc' \in [Dispatches -> Where] /\ pc'[d] = "executing"
        /\ auditLog' \in [Dispatches -> Seq(Record)]
        /\ auditLog'[d] = started
        /\ \A f \in Dispatches \ {d} : UNCHANGED <<pc[f], auditLog[f]>>
    <3>1. /\ pc' = [pc EXCEPT ![d] = "executing"]
          /\ auditLog' = [auditLog EXCEPT ![d] = auditLog[d] \o started]
      BY <1>8 DEF Conclude, started
    <3> QED  BY <1>4, <1>6, <3>1 DEF IInv, TypeOK, Where
  <2>2. TypeOK'
    <3>1. \A f \in Dispatches : request[f] \in Request \/ pc'[f] = "idle"
      BY <2>1 DEF IInv, TypeOK
    <3> QED  BY <1>1, <2>1, <3>1 DEF IInv, TypeOK
  <2>3. InOrder(d)'
    BY <1>1, <1>4, <1>7, <1>8, <2>1 DEF InOrder, TrailSoFar, CameThere, RuntimeTargetOf
  <2> QED  BY <1>1, <1>5, <2>1, <2>2, <2>3, OneInOrder
<1>9. CASE ~Refused(request[d], dec) /\ RuntimeTargetOf(request[d], dec) \notin Workers
  <2> DEFINE failed == Event("tool.error", NoMode, 0)
  <2>1. failed \in Record
    BY DEF Event, Record, EventType, WorkerErrorType
  <2>2. started \o <<failed>> \in Seq(Record)
    BY <1>6, <2>1
  <2>3. /\ pc' \in [Dispatches -> Where] /\ pc'[d] = "finished"
        /\ auditLog' \in [Dispatches -> Seq(Record)]
        /\ auditLog'[d] = started \o <<failed>>
        /\ \A f \in Dispatches \ {d} : UNCHANGED <<pc[f], auditLog[f]>>
    <3>1. /\ pc' = [pc EXCEPT ![d] = "finished"]
          /\ auditLog' = [auditLog EXCEPT ![d] = (auditLog[d] \o started) \o <<failed>>]
      BY <1>9 DEF Conclude, started
    <3> QED  BY <1>4, <1>6, <2>2, <3>1 DEF IInv, TypeOK, Where
  <2>4. TypeOK'
    <3>1. \A f \in Dispatches : request[f] \in Request \/ pc'[f] = "idle"
      BY <2>3 DEF IInv, TypeOK
    <3> QED  BY <1>1, <2>3, <3>1 DEF IInv, TypeOK
  <2>5. ~Ran(d)'
    BY <1>1, <1>9, <2>3 DEF Ran, RuntimeTargetOf
  <2>6. InOrder(d)'
    BY <1>1, <1>4, <1>7, <2>3, <2>5 DEF InOrder, TrailSoFar, CameThere
  <2> QED  BY <1>1, <1>5, <2>3, <2>4, <2>6, OneInOrder
<1> QED  BY <1>3, <1>8, <1>9

-----------------------------------------------------------------------------
(* A call begins with nothing in the trail.                                *)
LEMMA CallInOrder ==
  ASSUME IInv, NEW d \in Dispatches, NEW t \in Tools, NEW p \in Principals, NEW n \in Domains,
         Call(d, t, p, n)
  PROVE  IInv'
<1>1. /\ pc[d] = "idle" /\ pc' = [pc EXCEPT ![d] = "called"]
      /\ \E req \in Request : request' = [request EXCEPT ![d] = req]
      /\ UNCHANGED <<wiring, session, rules, decision, approvalOutcome, auditLog, artifacts,
                     ledger, patches, restarts>>
  BY DEF Call, Request, IInv, TypeOK
<1>2. TypeOK'
  BY <1>1 DEF IInv, TypeOK, Where
<1>3. BudgetAccounted'
  BY <1>1 DEF IInv, BudgetAccounted
<1>4. InOrder(d)'
  BY <1>1 DEF IInv, TypeOK, InOrder, TrailSoFar, CameThere, Finishing
<1>5. \A f \in Dispatches \ {d} : UNCHANGED <<pc[f], request[f]>>
  BY <1>1 DEF IInv, TypeOK
<1> QED  BY <1>1, <1>2, <1>3, <1>4, <1>5, OneInOrder

(* What a dispatch is told before it is decided: it ends with a denial.    *)
LEMMA RefusalInOrder ==
  ASSUME IInv, NEW d \in Dispatches,
         DispatchUnknown(d) \/ DispatchExhausted(d) \/ DispatchIncapable(d)
  PROVE  IInv'
<1>1. /\ pc[d] = "called"
      /\ UNCHANGED <<wiring, session, rules, request, decision, approvalOutcome, artifacts,
                     ledger, patches, restarts>>
      /\ \E e \in {"tool.error", "budget.exhausted", "tool.denied"} : Deny(d, e, NoMode)
  BY DEF DispatchUnknown, DispatchExhausted, DispatchIncapable, Unchecked, Known, Affordable
<1>2. {"tool.error", "budget.exhausted", "tool.denied"}
        \subseteq EventType \ {"tool.started", "tool.finished"}
  BY DEF EventType, WorkerErrorType
<1>3. decision \in [Dispatches -> PolicyDecision] /\ approvalOutcome \in [Dispatches -> ApprovalOutcome]
  BY DEF IInv, TypeOK
<1>4. PICK e \in {"tool.error", "budget.exhausted", "tool.denied"} : Deny(d, e, NoMode)
  BY <1>1
<1>5. NoMode \in PolicyMode \cup {NoMode}
  OBVIOUS
<1> QED  BY <1>1, <1>2, <1>3, <1>4, <1>5, DenyInOrder

(* The engine's answers are decisions, whatever rules are in force.        *)
LEMMA DecisionNowDecides ==
  ASSUME TypeOK, NEW req, NEW approval
  PROVE  /\ DecisionNow(req, approval) \in PolicyDecision
         /\ (DecisionNow(req, approval).requiresApproval /\ approval # "approved")
              => DecisionNow(req, approval).mode = "allow_with_approval"
         /\ approval = "approved" => DecisionNow(req, approval).mode # "allow_with_approval"
<1>1. IsRuleList(Rulesets[rules])
  BY BrokerAssumption DEF BrokerAssumption, TypeOK
<1>2. Context(req, approval).approvalStates = approval
  BY DEF Context
<1> QED  BY <1>1, <1>2, EvaluateDecides DEF DecisionNow

(* A call that is told a decision and is neither refused nor started.      *)
LEMMA DecidedInOrder ==
  ASSUME IInv, NEW d \in Dispatches, DispatchDecided(d)
  PROVE  IInv'
<1> DEFINE dec == DecisionNow(request[d], "pending")
<1>1. /\ pc[d] = "called" /\ request[d].toolName \in CapabilitySet
      /\ dec.mode # "allow_with_approval"
      /\ Conclude(d, request[d], dec)
      /\ UNCHANGED <<wiring, session, rules, request, approvalOutcome, artifacts, ledger,
                     patches, restarts>>
  BY DEF DispatchDecided, Capable, Affordable, Known, Unchecked
<1>2. dec \in PolicyDecision /\ ~dec.requiresApproval
  BY <1>1, DecisionNowDecides DEF IInv
<1> HIDE DEF dec
<1>3. approvalOutcome' \in [Dispatches -> ApprovalOutcome]
  BY <1>1 DEF IInv, TypeOK
<1> QED  BY <1>1, <1>2, <1>3, ConcludeInOrder

(* A call whose approval nobody can be asked for is denied.                *)
LEMMA UnapprovableInOrder ==
  ASSUME IInv, NEW d \in Dispatches, DispatchUnapprovable(d)
  PROVE  IInv'
<1> DEFINE dec == DecisionNow(request[d], "pending")
<1>1. /\ pc[d] = "called"
      /\ Deny(d, "policy.denied", "allow_with_approval")
      /\ decision' = [decision EXCEPT ![d] = dec]
      /\ UNCHANGED <<wiring, session, rules, request, approvalOutcome, artifacts, ledger,
                     patches, restarts>>
  BY DEF DispatchUnapprovable, NeedsApproval, Capable, Affordable, Known, Unchecked
<1>2. dec \in PolicyDecision
  BY DecisionNowDecides DEF IInv
<1> HIDE DEF dec
<1>3. /\ decision' \in [Dispatches -> PolicyDecision]
      /\ approvalOutcome' \in [Dispatches -> ApprovalOutcome]
      /\ \A f \in Dispatches \ {d} : UNCHANGED <<decision[f], approvalOutcome[f]>>
  BY <1>1, <1>2 DEF IInv, TypeOK
<1>4. "policy.denied" \in EventType \ {"tool.started", "tool.finished"}
        /\ "allow_with_approval" \in PolicyMode \cup {NoMode}
  BY DEF EventType, PolicyMode
<1> QED  BY <1>1, <1>3, <1>4, DenyInOrder

(* To ask leaves no trace yet.                                             *)
LEMMA AsksInOrder ==
  ASSUME IInv, NEW d \in Dispatches, DispatchAsks(d)
  PROVE  IInv'
<1> DEFINE dec == DecisionNow(request[d], "pending")
<1>1. /\ pc[d] = "called" /\ request[d].toolName \in CapabilitySet
      /\ pc' = [pc EXCEPT ![d] = "awaiting_approval"]
      /\ decision' = [decision EXCEPT ![d] = dec]
      /\ UNCHANGED <<wiring, session, rules, request, approvalOutcome, auditLog, artifacts,
                     ledger, patches, restarts>>
  BY DEF DispatchAsks, NeedsApproval, Capable, Affordable, Known, Unchecked
<1>2. dec \in PolicyDecision
  BY DecisionNowDecides DEF IInv
<1> HIDE DEF dec
<1>3. TypeOK'
  BY <1>1, <1>2 DEF IInv, TypeOK, Where
<1>4. BudgetAccounted'
  BY <1>1 DEF IInv, BudgetAccounted
<1>5. InOrder(d)'
  BY <1>1 DEF IInv, TypeOK, InOrder, TrailSoFar, CameThere, Finishing
<1>6. \A f \in Dispatches \ {d} : UNCHANGED <<pc[f], decision[f]>>
  BY <1>1 DEF IInv, TypeOK
<1> QED  BY <1>1, <1>3, <1>4, <1>5, <1>6, OneInOrder

(* A call whose approval is refused is denied.                             *)
LEMMA ApprovalRefusedInOrder ==
  ASSUME IInv, NEW d \in Dispatches, NEW outcome \in ApprovalOutcome,
         ApprovalRefused(d, outcome)
  PROVE  IInv'
<1>1. /\ pc[d] = "awaiting_approval"
      /\ approvalOutcome' = [approvalOutcome EXCEPT ![d] = outcome]
      /\ Deny(d, "policy.denied", decision[d].mode)
      /\ UNCHANGED <<wiring, session, rules, request, decision, artifacts, ledger,
                     patches, restarts>>
  BY DEF ApprovalRefused
<1>2. /\ decision' \in [Dispatches -> PolicyDecision]
      /\ approvalOutcome' \in [Dispatches -> ApprovalOutcome]
      /\ \A f \in Dispatches \ {d} : UNCHANGED <<decision[f], approvalOutcome[f]>>
  BY <1>1 DEF IInv, TypeOK
<1>3. "policy.denied" \in EventType \ {"tool.started", "tool.finished"}
        /\ decision[d].mode \in PolicyMode \cup {NoMode}
  BY DEF EventType, IInv, TypeOK, PolicyDecision
<1> QED  BY <1>1, <1>2, <1>3, DenyInOrder

(* A call whose approver fails leaves no trace.                            *)
LEMMA ApprovalThrowsInOrder ==
  ASSUME IInv, NEW d \in Dispatches, ApprovalThrows(d)
  PROVE  IInv'
<1>1. /\ pc[d] = "awaiting_approval" /\ pc' = [pc EXCEPT ![d] = "threw"]
      /\ UNCHANGED <<wiring, session, rules, request, decision, approvalOutcome, auditLog,
                     artifacts, ledger, patches, restarts>>
  BY DEF ApprovalThrows
<1>2. TypeOK'
  BY <1>1 DEF IInv, TypeOK, Where
<1>3. BudgetAccounted'
  BY <1>1 DEF IInv, BudgetAccounted
<1>4. InOrder(d)'
  BY <1>1 DEF IInv, TypeOK, InOrder, TrailSoFar, CameThere, Finishing
<1>5. \A f \in Dispatches \ {d} : UNCHANGED pc[f]
  BY <1>1 DEF IInv, TypeOK
<1> QED  BY <1>1, <1>2, <1>3, <1>4, <1>5, OneInOrder

(* An approved call is decided again, with the approval.                   *)
LEMMA ApprovalGrantedInOrder ==
  ASSUME IInv, NEW d \in Dispatches, ApprovalGranted(d)
  PROVE  IInv'
<1> DEFINE dec == DecisionAfterApproval(d)
<1>1. /\ pc[d] = "awaiting_approval"
      /\ approvalOutcome' = [approvalOutcome EXCEPT ![d] = "approved"]
      /\ Conclude(d, request[d], dec)
      /\ UNCHANGED <<wiring, session, rules, request, artifacts, ledger, patches, restarts>>
  BY DEF ApprovalGranted
<1>2. dec \in PolicyDecision
  BY DecisionNowDecides DEF IInv, DecisionAfterApproval
<1> HIDE DEF dec
<1>3. /\ approvalOutcome' \in [Dispatches -> ApprovalOutcome]
      /\ approvalOutcome'[d] = "approved"
      /\ \A f \in Dispatches \ {d} : UNCHANGED approvalOutcome[f]
  BY <1>1 DEF IInv, TypeOK, ApprovalOutcome
<1>4. request[d].toolName \in CapabilitySet
  BY <1>1 DEF IInv, InOrder, CameThere, Finishing
<1> QED  BY <1>1, <1>2, <1>3, <1>4, ConcludeInOrder

(* A worker's end: charged to the budget as it is then, and recorded after *)
(* its start.                                                              *)
LEMMA WorkerReturnsInOrder ==
  ASSUME IInv, NEW d \in Dispatches, NEW result \in WorkerResults,
         WorkerReturns(d, result)
  PROVE  IInv'
<1> DEFINE tokens == IF HasSessionStore THEN result.tokensUsed ELSE 0
           last == Event(result.eventType, decision[d].mode, tokens)
<1>1. /\ tokens \in Nat
      /\ result.eventType \in {"tool.finished"} \cup WorkerErrorType
  <2>1. result \in WorkerResult
    BY BrokerAssumption DEF BrokerAssumption
  <2>2. /\ result.tokensUsed \in Nat
        /\ result.eventType \in {"tool.finished"} \cup WorkerErrorType
    <3>1. CASE result \in [eventType : {"tool.finished"}, tokensUsed : Nat, artifacts : BOOLEAN]
      BY <3>1
    <3>2. CASE result \in [eventType : WorkerErrorType, tokensUsed : {0}, artifacts : {FALSE}]
      BY <3>2
    <3> QED  BY <2>1, <3>1, <3>2 DEF WorkerResult
  <2> QED  BY <2>2
<1>2. last \in Record
  <2>1. decision[d].mode \in PolicyMode
    BY DEF IInv, TypeOK, PolicyDecision
  <2> QED  BY <1>1, <2>1 DEF Event, Record, EventType
<1>3. /\ pc[d] = "executing" /\ pc' = [pc EXCEPT ![d] = "finished"]
      /\ artifacts' \in {artifacts, artifacts \cup {d}}
      /\ session' = [session EXCEPT !.budget = BudgetAfter(d, tokens)]
      /\ ledger' = [ledger EXCEPT !.used = @ + tokens]
      /\ auditLog' = [auditLog EXCEPT ![d] =
           IF decision[d].auditRequired THEN Append(@, last) ELSE @]
      /\ UNCHANGED <<wiring, rules, request, decision, approvalOutcome, patches, restarts>>
  BY DEF WorkerReturns
<1> HIDE DEF tokens
<1>4. BudgetAccounted' /\ session' \in Session /\ ledger' \in [granted : Nat, used : Nat]
  <2>1. /\ session \in Session /\ session.budget \in Nat
        /\ ledger \in [granted : Nat, used : Nat]
        /\ ledger.granted \in Nat /\ ledger.used \in Nat
    BY DEF IInv, TypeOK, Session
  <2>2. BudgetAfter(d, tokens) \in Nat
    BY <1>1, <2>1 DEF BudgetAfter
  <2>3. /\ session'.budget = BudgetAfter(d, tokens) /\ session' \in Session
        /\ ledger'.used = ledger.used + tokens /\ ledger'.granted = ledger.granted
        /\ ledger' \in [granted : Nat, used : Nat]
    BY <1>1, <1>3, <2>1, <2>2 DEF Session
  <2> QED  BY <1>1, <2>1, <2>3 DEF IInv, BudgetAccounted, BudgetAfter
<1>5. /\ pc' \in [Dispatches -> Where] /\ pc'[d] = "finished"
      /\ \A f \in Dispatches \ {d} : UNCHANGED <<pc[f], auditLog[f]>>
  BY <1>3 DEF IInv, TypeOK, Where
<1>6. /\ auditLog' \in [Dispatches -> Seq(Record)]
      /\ auditLog'[d] = IF decision[d].auditRequired THEN Append(auditLog[d], last)
                                                     ELSE auditLog[d]
  <2>1. Append(auditLog[d], last) \in Seq(Record)
    BY <1>2 DEF IInv, TypeOK
  <2> QED  BY <1>3, <2>1 DEF IInv, TypeOK
<1>7. TypeOK'
  <2>1. \A f \in Dispatches : request[f] \in Request \/ pc'[f] = "idle"
    BY <1>3, <1>5 DEF IInv, TypeOK
  <2> QED  BY <1>3, <1>4, <1>5, <1>6, <2>1 DEF IInv, TypeOK
<1>8. InOrder(d)'
  <2>1. Ran(d)'
    BY <1>3, <1>5 DEF IInv, InOrder, CameThere, Ran, RuntimeTargetOf
  <2>2. auditLog[d] = StartOf(d) /\ StartOf(d)' = StartOf(d)
    BY <1>3 DEF IInv, InOrder, TrailSoFar, StartOf, StartedRecords
  <2>3. TrailSoFar(d)'
    <3>1. CASE decision[d].auditRequired
      <4>1. auditLog'[d] = StartOf(d) \o <<last>>
        <5>1. StartOf(d) \in Seq(Record)
          BY <2>2 DEF IInv, TypeOK
        <5>2. Append(StartOf(d), last) = StartOf(d) \o <<last>>
          BY <1>2, <5>1
        <5> QED  BY <1>6, <2>2, <3>1, <5>2
      <4>2. \E e \in {"tool.finished"} \cup WorkerErrorType, n \in Nat :
              auditLog'[d] = StartOf(d)' \o <<Event(e, decision'[d].mode, n)>>
        BY <1>1, <1>3, <2>2, <4>1
      <4> QED  BY <1>3, <1>5, <2>1, <3>1, <4>2 DEF TrailSoFar
    <3>2. CASE ~decision[d].auditRequired
      <4>1. auditLog'[d] = <<>>
        BY <1>6, <2>2, <3>2 DEF StartOf, StartedRecords
      <4> QED  BY <1>3, <1>5, <2>1, <3>2, <4>1 DEF TrailSoFar
    <3> QED  BY <3>1, <3>2
  <2>4. CameThere(d)'
    BY <1>3, <1>5, <2>1 DEF IInv, InOrder, CameThere, Finishing
  <2> QED  BY <2>3, <2>4 DEF InOrder
<1> QED  BY <1>3, <1>4, <1>5, <1>7, <1>8, OneInOrder

(* Changes of the session and of the rules are no dispatch's.              *)
LEMMA PatchInOrder ==
  ASSUME IInv, PatchSession \/ \E rs \in DOMAIN Rulesets : SetRules(rs)
  PROVE  IInv'
<1>1. UNCHANGED <<wiring, pc, request, decision, approvalOutcome, auditLog, artifacts, restarts>>
  BY DEF PatchSession, SetRules, locals
<1>2. patches' \in 0..MaxPatches
  BY BrokerAssumption DEF BrokerAssumption, IInv, TypeOK, PatchSession, SetRules
<1>3. \A d \in Dispatches : InOrder(d)'
  BY <1>1, UntouchedInOrder DEF IInv
<1>4. CASE PatchSession
  <2>1. /\ session \in Session /\ ledger \in [granted : Nat, used : Nat]
        /\ rules' = rules
    BY <1>4 DEF PatchSession, IInv, TypeOK
  <2>2. CASE \E b \in PatchBudgets : /\ session' = [session EXCEPT !.budget = b]
                                     /\ ledger' = [granted |-> b, used |-> 0]
    <3>1. PICK b \in PatchBudgets : /\ session' = [session EXCEPT !.budget = b]
                                    /\ ledger' = [granted |-> b, used |-> 0]
      BY <2>2
    <3>2. b \in Nat
      BY BrokerAssumption DEF BrokerAssumption
    <3>3. session' \in Session /\ ledger' \in [granted : Nat, used : Nat] /\ BudgetAccounted'
      BY <2>1, <3>1, <3>2 DEF Session, BudgetAccounted
    <3>4. TypeOK'
      BY <1>1, <1>2, <2>1, <3>3 DEF IInv, TypeOK
    <3> QED  BY <1>3, <3>3, <3>4 DEF IInv
  <2>3. CASE /\ ledger' = ledger
             /\ \/ \E m \in PatchModes : session' = [session EXCEPT !.mode = m]
                \/ session' = [session EXCEPT !.elevationState = ~@]
    <3>1. session' \in Session /\ session'.budget = session.budget
      BY <2>1, <2>3, BrokerAssumption DEF BrokerAssumption, Session
    <3>2. UNCHANGED ledger
      BY <2>3
    <3>3. BudgetAccounted' /\ TypeOK'
      BY <1>1, <1>2, <2>1, <3>1, <3>2 DEF IInv, BudgetAccounted, TypeOK
    <3> QED  BY <1>3, <3>3 DEF IInv
  <2> QED  BY <1>4, <2>2, <2>3 DEF PatchSession
<1>5. CASE \E rs \in DOMAIN Rulesets : SetRules(rs)
  <2>1. rules' \in DOMAIN Rulesets /\ UNCHANGED <<session, ledger>>
    BY <1>5 DEF SetRules
  <2>2. TypeOK' /\ BudgetAccounted'
    BY <1>1, <1>2, <2>1 DEF IInv, TypeOK, BudgetAccounted
  <2> QED  BY <1>3, <2>2 DEF IInv
<1> QED  BY <1>4, <1>5

(* A stop loses what was under way, and no record.                         *)
LEMMA RestartInOrder ==
  ASSUME IInv, Restart
  PROVE  IInv'
<1> DEFINE UnderWay == {"called", "awaiting_approval", "executing"}
<1>1. /\ pc' \in [Dispatches -> Where]
      /\ \A d \in Dispatches : pc'[d] = IF pc[d] \in UnderWay THEN "lost" ELSE pc[d]
      /\ UNCHANGED <<wiring, session, request, decision, approvalOutcome, auditLog,
                     artifacts, ledger, patches>>
  BY DEF Restart, IInv, TypeOK, Where
<1>2. rules' \in DOMAIN Rulesets /\ restarts' \in 0..MaxRestarts
  BY BrokerAssumption DEF BrokerAssumption, Restart, IInv, TypeOK
<1>3. TypeOK'
  BY <1>1, <1>2 DEF IInv, TypeOK
<1>4. BudgetAccounted'
  BY <1>1 DEF IInv, BudgetAccounted
<1>5. ASSUME NEW d \in Dispatches
      PROVE  InOrder(d)'
  <2>1. CASE pc[d] \in UnderWay
    <3>1. pc'[d] = "lost"
      BY <1>1, <2>1
    <3>2. auditLog[d] = <<>> \/ \E m \in PolicyMode : auditLog[d] = <<Event("tool.started", m, 0)>>
      BY <2>1 DEF IInv, TypeOK, PolicyDecision, InOrder, TrailSoFar, StartOf, StartedRecords
    <3>3. d \notin artifacts
      BY <2>1 DEF IInv, InOrder, CameThere
    <3> QED  BY <1>1, <3>1, <3>2, <3>3 DEF InOrder, TrailSoFar, CameThere, Finishing
  <2>2. CASE pc[d] \notin UnderWay
    <3>1. UNCHANGED pc[d]
      BY <1>1, <2>2
    <3> QED  BY <1>1, <3>1, UntouchedInOrder DEF IInv
  <2> QED  BY <2>1, <2>2
<1> QED  BY <1>3, <1>4, <1>5 DEF IInv

-----------------------------------------------------------------------------
(* IInv is inductive.                                                      *)
LEMMA StepInOrder == IInv /\ [Next]_vars => IInv'
<1> SUFFICES ASSUME IInv, [Next]_vars PROVE IInv'
  OBVIOUS
<1>1. CASE UNCHANGED vars
  <2>1. TypeOK' /\ BudgetAccounted'
    BY <1>1 DEF vars, locals, IInv, TypeOK, BudgetAccounted
  <2>2. \A d \in Dispatches : InOrder(d)'
    BY <1>1, UntouchedInOrder DEF vars, locals, IInv
  <2> QED  BY <2>1, <2>2 DEF IInv
<1>2. ASSUME NEW d \in Dispatches, DispatchStep(d)
      PROVE  IInv'
  BY <1>2, RefusalInOrder, DecidedInOrder, UnapprovableInOrder, AsksInOrder DEF DispatchStep
<1>3. ASSUME NEW d \in Dispatches, Resolve(d)
      PROVE  IInv'
  BY <1>3, ApprovalRefusedInOrder, ApprovalThrowsInOrder, ApprovalGrantedInOrder DEF Resolve
<1> QED
  BY <1>1, <1>2, <1>3, CallInOrder, WorkerReturnsInOrder, PatchInOrder, RestartInOrder
     DEF Next, Progress

(* The invariant, in a form that says nothing of fairness.                 *)
LEMMA AlwaysInOrder == Spec => []IInv
  BY InitInOrder, StepInOrder, PTL DEF Spec

(* Dispatches, sessions and the trail have the form TypeOK gives them.     *)
THEOREM TypeCorrect == Spec => []TypeOK
<1>1. IInv => TypeOK
  BY DEF IInv
<1> QED  BY <1>1, AlwaysInOrder, PTL

(* "Approval cannot be bypassed", for any rules that operators install and *)
(* at whatever moment of a call they install them.                         *)
THEOREM ApprovalHolds == Spec => []ApprovalNotBypassed
<1>1. IInv => ApprovalNotBypassed
  BY DEF IInv, InOrder, CameThere, ApprovalNotBypassed, Ran
<1> QED  BY <1>1, AlwaysInOrder, PTL

(* The session's budget accounts for all charges.                          *)
THEOREM BudgetHolds == Spec => []BudgetAccounted
<1>1. IInv => BudgetAccounted
  BY DEF IInv
<1> QED  BY <1>1, AlwaysInOrder, PTL

(* One record after another makes a trail of these two.                    *)
LEMMA TwoRecords ==
  ASSUME NEW x, NEW y
  PROVE  \A k \in DOMAIN (<<x>> \o <<y>>) : (<<x>> \o <<y>>)[k] \in {x, y}
<1>1. <<x>> \in Seq({x, y}) /\ <<y>> \in Seq({x, y})
  OBVIOUS
<1>2. <<x>> \o <<y>> \in Seq({x, y})
  BY <1>1
<1> QED  BY <1>2

(* Only what ran, with the capability, left artifacts or charges.          *)
THEOREM EffectsHold == Spec => []EffectsOnlyOfCapableRuns
<1>1. IInv => EffectsOnlyOfCapableRuns
  <2> SUFFICES ASSUME IInv, NEW d \in Dispatches,
                      d \in artifacts \/ \E i \in DOMAIN auditLog[d] : auditLog[d][i].budgetConsumed > 0
               PROVE  Ran(d) /\ request[d].toolName \in CapabilitySet
    BY DEF EffectsOnlyOfCapableRuns
  <2>1. CASE d \in artifacts
    BY <2>1 DEF IInv, InOrder, CameThere, Finishing
  <2>2. CASE \E i \in DOMAIN auditLog[d] : auditLog[d][i].budgetConsumed > 0
    <3>1. PICK i \in DOMAIN auditLog[d] : auditLog[d][i].budgetConsumed > 0
      BY <2>2
    <3>2. ASSUME NEW e, NEW m PROVE Event(e, m, 0).budgetConsumed = 0
      BY DEF Event
    <3>3. pc[d] = "finished" /\ Ran(d)
      <4> SUFFICES ASSUME ~(pc[d] = "finished" /\ Ran(d)) PROVE FALSE
        OBVIOUS
      <4>1. \A k \in DOMAIN auditLog[d] : \E e, m : auditLog[d][k] = Event(e, m, 0)
        <5>1. CASE auditLog[d] = <<>>
          BY <5>1
        <5>2. CASE \E e, m : auditLog[d] = <<Event(e, m, 0)>>
          BY <5>2
        <5>3. TrailSoFar(d) /\ pc[d] \in Where
          BY DEF IInv, InOrder, TypeOK
        <5>4. StartOf(d) = <<>> \/ \E e, m : StartOf(d) = <<Event(e, m, 0)>>
          BY DEF StartOf, StartedRecords
        <5>5. CASE pc[d] = "finished"
          <6>1. auditLog[d] = StartOf(d) \o <<Event("tool.error", NoMode, 0)>>
            BY <5>3, <5>5 DEF TrailSoFar
          <6>2. CASE StartOf(d) = <<>>
            <7>1. auditLog[d] = <<Event("tool.error", NoMode, 0)>>
              BY <6>1, <6>2
            <7> QED  BY <5>2, <7>1
          <6>3. CASE \E e, m : StartOf(d) = <<Event(e, m, 0)>>
            <7>1. PICK e, m : StartOf(d) = <<Event(e, m, 0)>>
              BY <6>3
            <7>2. auditLog[d] = <<Event(e, m, 0)>> \o <<Event("tool.error", NoMode, 0)>>
              BY <6>1, <7>1
            <7>3. \A k \in DOMAIN auditLog[d] :
                    auditLog[d][k] \in {Event(e, m, 0), Event("tool.error", NoMode, 0)}
              BY <7>2, TwoRecords
            <7> QED  BY <7>3
          <6> QED  BY <5>4, <6>2, <6>3
        <5>6. CASE pc[d] # "finished"
          <6>1. \/ auditLog[d] = <<>> \/ auditLog[d] = StartOf(d)
                \/ \E e, m : auditLog[d] = <<Event(e, m, 0)>>
            BY <5>3, <5>6 DEF TrailSoFar, Where
          <6>2. CASE auditLog[d] = StartOf(d)
            BY <5>1, <5>2, <5>4, <6>2
          <6> QED  BY <5>1, <5>2, <6>1, <6>2
        <5> QED  BY <5>5, <5>6
      <4> QED  BY <3>1, <3>2, <4>1
    <3> QED  BY <3>3 DEF IInv, InOrder, CameThere, Finishing
  <2> QED  BY <2>1, <2>2
<1> QED  BY <1>1, AlwaysInOrder, PTL

(* The records of tools in the trail of a dispatch agree with how it       *)
(* ended.                                                                  *)
THEOREM TrailHolds == Spec => []AuditTellsWhatHappened
<1>1. IInv => AuditTellsWhatHappened
  <2> SUFFICES ASSUME IInv, NEW d \in Dispatches
               PROVE  LET trail == [i \in DOMAIN auditLog[d] |-> auditLog[d][i].eventType]
                          Ends == {"tool.finished"} \cup WorkerErrorType
                          audited == decision[d].auditRequired
                          Unstarted == \A i \in DOMAIN trail : trail[i] \notin {"tool.started", "tool.finished"}
                      IN  CASE pc[d] \in {"idle", "called", "awaiting_approval"} -> trail = <<>>
                            [] pc[d] = "threw" -> Unstarted
                            [] pc[d] = "denied" ->
                                 \E e \in EventType \ {"tool.started", "tool.finished"} : trail = <<e>>
                            [] pc[d] = "executing" ->
                                 trail = IF audited THEN <<"tool.started">> ELSE <<>>
                            [] pc[d] = "finished" ->
                                 \/ ~audited /\ trail = <<>> /\ Ran(d)
                                 \/ ~audited /\ trail = <<"tool.error">> /\ ~Ran(d)
                                 \/ audited /\ \E e \in Ends : trail = <<"tool.started", e>>
                            [] pc[d] = "lost" -> trail \in {<<>>, <<"tool.started">>}
    BY DEF AuditTellsWhatHappened
  <2> DEFINE trail == [i \in DOMAIN auditLog[d] |-> auditLog[d][i].eventType]
             audited == decision[d].auditRequired
  <2>1. TrailSoFar(d) /\ pc[d] \in Where /\ audited \in BOOLEAN
    BY DEF IInv, InOrder, TypeOK, PolicyDecision
  <2>2. auditLog[d] = <<>> => trail = <<>>
    OBVIOUS
  <2>3. \A e, m, n : auditLog[d] = <<Event(e, m, n)>> => trail = <<e>>
    BY DEF Event
  <2>4. \A e, m, n, f, g, h :
          auditLog[d] = <<Event(e, m, n), Event(f, g, h)>> => trail = <<e, f>>
    BY DEF Event
  <2>5. StartOf(d) = IF audited THEN <<Event("tool.started", decision[d].mode, 0)>> ELSE <<>>
    BY DEF StartOf, StartedRecords
  <2> HIDE DEF trail
  <2>9. ASSUME NEW a, NEW b
        PROVE  <<a>> \o <<b>> = <<a, b>>
    <3>1. <<a>> \in Seq({a, b}) /\ <<b>> \in Seq({a, b}) /\ <<a, b>> \in Seq({a, b})
      OBVIOUS
    <3>2. /\ <<a>> \o <<b>> \in Seq({a, b}) /\ Len(<<a>> \o <<b>>) = 2
          /\ (<<a>> \o <<b>>)[1] = a /\ (<<a>> \o <<b>>)[2] = b
      BY <3>1, ConcatProperties
    <3>3. Len(<<a, b>>) = 2 /\ \A i \in 1..2 : (<<a>> \o <<b>>)[i] = <<a, b>>[i]
      BY <3>2
    <3> QED  BY <3>1, <3>2, <3>3, SeqEqual
  <2> USE DEF trail
  <2>6. CASE pc[d] \in {"idle", "called", "awaiting_approval", "denied", "lost"}
    BY <2>1, <2>2, <2>3, <2>6 DEF TrailSoFar
  <2>10. CASE pc[d] = "threw"
    <3>1. trail = <<>>
      BY <2>1, <2>2, <2>10 DEF TrailSoFar
    <3>2. \A i \in DOMAIN trail : trail[i] \notin {"tool.started", "tool.finished"}
      BY <3>1
    <3> QED  BY <2>10, <3>2
  <2>7. CASE pc[d] = "executing"
    BY <2>1, <2>2, <2>3, <2>5, <2>7 DEF TrailSoFar
  <2>8. CASE pc[d] = "finished"
    <3>1. CASE Ran(d)
      <4>1. CASE audited
        <5>1. PICK e \in {"tool.finished"} \cup WorkerErrorType, n \in Nat :
                auditLog[d] = StartOf(d) \o <<Event(e, decision[d].mode, n)>>
          BY <2>1, <2>8, <3>1, <4>1 DEF TrailSoFar
        <5>2. auditLog[d] = <<Event("tool.started", decision[d].mode, 0),
                              Event(e, decision[d].mode, n)>>
          BY <2>5, <2>9, <4>1, <5>1
        <5>3. trail = <<"tool.started", e>>
          BY <2>4, <5>2
        <5> QED  BY <2>8, <4>1, <5>3
      <4>2. CASE ~audited
        BY <2>1, <2>2, <2>8, <3>1, <4>2 DEF TrailSoFar
      <4> QED  BY <4>1, <4>2
    <3>2. CASE ~Ran(d)
      <4>1. auditLog[d] = StartOf(d) \o <<Event("tool.error", NoMode, 0)>>
        BY <2>1, <2>8, <3>2 DEF TrailSoFar
      <4>2. CASE audited
        <5>1. auditLog[d] = <<Event("tool.started", decision[d].mode, 0),
                              Event("tool.error", NoMode, 0)>>
          BY <2>5, <2>9, <4>1, <4>2
        <5>2. trail = <<"tool.started", "tool.error">>
          BY <2>4, <5>1
        <5> QED  BY <2>8, <4>2, <5>2 DEF WorkerErrorType
      <4>3. CASE ~audited
        <5>1. auditLog[d] = <<Event("tool.error", NoMode, 0)>>
          BY <2>5, <4>1, <4>3
        <5>2. trail = <<"tool.error">>
          BY <2>3, <5>1
        <5> QED  BY <2>8, <3>2, <4>3, <5>2
      <4> QED  BY <4>2, <4>3
    <3> QED  BY <3>1, <3>2
  <2> QED  BY <2>1, <2>6, <2>7, <2>8, <2>10 DEF Where
<1> QED  BY <1>1, AlwaysInOrder, PTL

-----------------------------------------------------------------------------
(* What StartsUnderRulesInForce says of a step and a dispatch.             *)
StartsRightly(d) ==
  pc[d] # "executing" /\ pc'[d] = "executing" =>
    LET approval == IF pc[d] = "awaiting_approval" THEN "approved" ELSE "pending"
        mode == DecisionNow(request[d], approval).mode
    IN  /\ mode \notin {"deny", "allow_with_approval"}
        /\ mode = "host_elevated_only" => request[d].session.elevationState

(* Only two actions start a worker.                                        *)
LEMMA StartingSteps ==
  ASSUME TypeOK, Next, NEW d \in Dispatches, pc[d] # "executing", pc'[d] = "executing"
  PROVE  DispatchDecided(d) \/ ApprovalGranted(d)
<1>1. \A e \in Dispatches, w \in Where : pc' = [pc EXCEPT ![e] = w] => e = d /\ w = "executing"
  BY DEF TypeOK
<1>2. ASSUME NEW e \in Dispatches
      PROVE  /\ ~DispatchUnknown(e) /\ ~DispatchExhausted(e) /\ ~DispatchIncapable(e)
             /\ ~DispatchUnapprovable(e) /\ ~DispatchAsks(e) /\ ~ApprovalThrows(e)
             /\ \A outcome \in ApprovalOutcome : ~ApprovalRefused(e, outcome)
             /\ \A result \in WorkerResults : ~WorkerReturns(e, result)
             /\ \A t \in Tools, p \in Principals, n \in Domains : ~Call(e, t, p, n)
  <2>1. {"denied", "awaiting_approval", "threw", "finished", "called"} \subseteq Where \ {"executing"}
    BY DEF Where
  <2> QED
    BY <1>1, <2>1 DEF DispatchUnknown, DispatchExhausted, DispatchIncapable, DispatchUnapprovable,
       DispatchAsks, ApprovalThrows, ApprovalRefused, WorkerReturns, Call, Deny
<1>3. ~PatchSession /\ (\A rs \in DOMAIN Rulesets : ~SetRules(rs)) /\ ~Restart
  BY DEF PatchSession, SetRules, Restart, locals
<1>4. ASSUME NEW e \in Dispatches, DispatchDecided(e) \/ ApprovalGranted(e)
      PROVE  e = d
  <2>1. \E w \in Where : pc' = [pc EXCEPT ![e] = w]
    BY <1>4 DEF DispatchDecided, ApprovalGranted, Conclude, Deny, Where
  <2> QED  BY <1>1, <2>1
<1> QED  BY <1>2, <1>3, <1>4 DEF Next, Progress, DispatchStep, Resolve

(* What is concluded with a start is not refused.                          *)
LEMMA ConcludedStarts ==
  ASSUME TypeOK, NEW d \in Dispatches, NEW dec, Conclude(d, request[d], dec),
         pc'[d] = "executing"
  PROVE  ~Refused(request[d], dec)
  BY DEF TypeOK, Conclude, Deny

(* A worker starts on the say-so of the rules in force at that moment.     *)
THEOREM RulesInForceHold == Spec => StartsUnderRulesInForce
<1>1. ASSUME IInv, [Next]_vars, NEW d \in Dispatches
      PROVE  StartsRightly(d)
  <2> SUFFICES ASSUME pc[d] # "executing", pc'[d] = "executing"
               PROVE  LET approval == IF pc[d] = "awaiting_approval" THEN "approved" ELSE "pending"
                          mode == DecisionNow(request[d], approval).mode
                      IN  /\ mode \notin {"deny", "allow_with_approval"}
                          /\ mode = "host_elevated_only" => request[d].session.elevationState
    BY DEF StartsRightly
  <2>1. Next
    BY <1>1 DEF vars, locals
  <2>2. CASE DispatchDecided(d)
    <3> DEFINE dec == DecisionNow(request[d], "pending")
    <3>1. /\ pc[d] = "called" /\ Conclude(d, request[d], dec)
          /\ dec.mode # "allow_with_approval"
      BY <2>2 DEF DispatchDecided, Capable, Affordable, Known, Unchecked
    <3>2. ~Refused(request[d], dec)
      BY <1>1, <3>1, ConcludedStarts DEF IInv
    <3> QED  BY <3>1, <3>2 DEF Refused
  <2>3. CASE ApprovalGranted(d)
    <3> DEFINE dec == DecisionNow(request[d], "approved")
    <3>1. pc[d] = "awaiting_approval" /\ Conclude(d, request[d], dec)
      BY <2>3 DEF ApprovalGranted, DecisionAfterApproval
    <3>2. ~Refused(request[d], dec)
      BY <1>1, <3>1, ConcludedStarts DEF IInv
    <3>3. dec.mode # "allow_with_approval"
      BY <1>1, DecisionNowDecides DEF IInv
    <3> QED  BY <3>1, <3>2, <3>3 DEF Refused
  <2> QED  BY <1>1, <2>1, <2>2, <2>3, StartingSteps DEF IInv
<1>2. IInv /\ [Next]_vars => \A d \in Dispatches : StartsRightly(d)
  BY <1>1
<1>3. (\A d \in Dispatches : StartsRightly(d)) =>
        [\A d \in Dispatches : pc[d] # "executing" /\ pc'[d] = "executing" =>
           LET approval == IF pc[d] = "awaiting_approval" THEN "approved" ELSE "pending"
               mode == DecisionNow(request[d], approval).mode
           IN  /\ mode \notin {"deny", "allow_with_approval"}
               /\ mode = "host_elevated_only" => request[d].session.elevationState]_vars
  BY DEF StartsRightly
<1> QED  BY <1>2, <1>3, AlwaysInOrder, PTL DEF Spec, StartsUnderRulesInForce

-----------------------------------------------------------------------------
(* The first of the rules that matches decides.                            *)
LEMMA FirstDecides ==
  ASSUME NEW list, NEW ctx, NEW n \in DOMAIN list, DOMAIN list \subseteq Nat \ {0},
         \A i \in 1..n-1 : i \in DOMAIN list, IsFirstMatch(list, ctx, n)
  PROVE  Evaluate(list, ctx) = BuildDecision(list[n], ctx)
<1>1. ASSUME NEW i \in DOMAIN list, IsFirstMatch(list, ctx, i)
      PROVE  i = n
  <2>1. i \in Nat /\ n \in Nat /\ i > 0 /\ n > 0
    OBVIOUS
  <2>2. ~(i < n) /\ ~(n < i)
    BY <1>1, <2>1 DEF IsFirstMatch
  <2> QED  BY <2>1, <2>2
<1>2. (CHOOSE i \in DOMAIN list : IsFirstMatch(list, ctx, i)) = n
  BY <1>1
<1>3. \E i \in DOMAIN list : MatchesRule(list[i], ctx)
  BY DEF IsFirstMatch
<1> QED  BY <1>2, <1>3 DEF Evaluate

(* A rule with the one matcher or the two that the default rules have.     *)
LEMMA RiskMatches ==
  ASSUME NEW rule, NEW c \in Contexts, NEW cs, rule.match = [riskClasses |-> cs]
  PROVE  MatchesRule(rule, c) <=> c.riskClasses \in cs
BY DEF MatchesRule, Passes

(* The same of a rule that also asks for a level of trust.                 *)
LEMMA RiskAndTrustMatch ==
  ASSUME NEW rule, NEW c \in Contexts, NEW cs, NEW ts,
         rule.match = [riskClasses |-> cs, trustLevels |-> ts]
  PROVE  MatchesRule(rule, c) <=> c.riskClasses \in cs /\ c.trustLevels \in ts
BY DEF MatchesRule, Passes

(* What each default rule but the last asks of a context.                  *)
LEMMA DefaultRulesAsk ==
  ASSUME NEW c \in Contexts
  PROVE  /\ MatchesRule(DEFAULT_POLICY_RULES[1], c) <=> c.principalTypes = "system"
         /\ MatchesRule(DEFAULT_POLICY_RULES[2], c) <=> c.sessionModes = "readonly" /\ c.riskClasses # "A"
         /\ MatchesRule(DEFAULT_POLICY_RULES[3], c) <=> c.riskClasses # "A" /\ c.trustLevels = "low"
         /\ MatchesRule(DEFAULT_POLICY_RULES[4], c) <=> c.riskClasses = "F"
         /\ MatchesRule(DEFAULT_POLICY_RULES[5], c) <=> c.riskClasses = "E" /\ c.trustLevels # "high"
         /\ MatchesRule(DEFAULT_POLICY_RULES[6], c) <=> c.riskClasses = "E" /\ c.trustLevels = "high"
         /\ MatchesRule(DEFAULT_POLICY_RULES[7], c) <=> c.riskClasses = "D" /\ c.trustLevels # "high"
         /\ MatchesRule(DEFAULT_POLICY_RULES[8], c) <=> c.riskClasses = "D" /\ c.trustLevels = "high"
         /\ MatchesRule(DEFAULT_POLICY_RULES[9], c) <=> c.riskClasses = "C"
         /\ MatchesRule(DEFAULT_POLICY_RULES[10], c) <=> c.riskClasses = "B"
         /\ MatchesRule(DEFAULT_POLICY_RULES[11], c) <=> c.riskClasses = "A"
<1> DEFINE list == DEFAULT_POLICY_RULES
<1>1. /\ c.riskClasses \in AboveReadOnly <=> c.riskClasses # "A"
      /\ c.trustLevels \in {"medium", "low"} <=> c.trustLevels # "high"
  BY DEF Contexts, ToolRiskClass, AboveReadOnly, TrustLevel
<1>2. MatchesRule(list[1], c) <=> c.principalTypes = "system"
  <2>1. list[1].match = [principalTypes |-> {"system"}]
    BY DEF DEFAULT_POLICY_RULES, Rule
  <2> HIDE DEF list
  <2> QED  BY <1>1, <2>1 DEF MatchesRule, Passes
<1>3. MatchesRule(list[2], c) <=> c.sessionModes = "readonly" /\ c.riskClasses # "A"
  <2>1. list[2].match = [sessionModes |-> {"readonly"}, riskClasses |-> AboveReadOnly]
    BY DEF DEFAULT_POLICY_RULES, Rule
  <2> HIDE DEF list
  <2> QED  BY <1>1, <2>1 DEF MatchesRule, Passes
<1>4. MatchesRule(list[3], c) <=> c.riskClasses # "A" /\ c.trustLevels = "low"
  <2>1. list[3].match = [riskClasses |-> AboveReadOnly, trustLevels |-> {"low"}]
    BY DEF DEFAULT_POLICY_RULES, Rule, ClassesFor
  <2> HIDE DEF list
  <2> QED  BY <1>1, <2>1, RiskAndTrustMatch
<1>5. MatchesRule(list[4], c) <=> c.riskClasses = "F"
  <2>1. list[4].match = [riskClasses |-> {"F"}]
    BY DEF DEFAULT_POLICY_RULES, Rule, Classes
  <2> HIDE DEF list
  <2> QED  BY <1>1, <2>1, RiskMatches
<1>6. MatchesRule(list[5], c) <=> c.riskClasses = "E" /\ c.trustLevels # "high"
  <2>1. list[5].match = [riskClasses |-> {"E"}, trustLevels |-> {"medium", "low"}]
    BY DEF DEFAULT_POLICY_RULES, Rule, ClassesFor
  <2> HIDE DEF list
  <2> QED  BY <1>1, <2>1, RiskAndTrustMatch
<1>7. MatchesRule(list[6], c) <=> c.riskClasses = "E" /\ c.trustLevels = "high"
  <2>1. list[6].match = [riskClasses |-> {"E"}, trustLevels |-> {"high"}]
    BY DEF DEFAULT_POLICY_RULES, Rule, ClassesFor
  <2> HIDE DEF list
  <2> QED  BY <1>1, <2>1, RiskAndTrustMatch
<1>8. MatchesRule(list[7], c) <=> c.riskClasses = "D" /\ c.trustLevels # "high"
  <2>1. list[7].match = [riskClasses |-> {"D"}, trustLevels |-> {"medium", "low"}]
    BY DEF DEFAULT_POLICY_RULES, Rule, ClassesFor
  <2> HIDE DEF list
  <2> QED  BY <1>1, <2>1, RiskAndTrustMatch
<1>9. MatchesRule(list[8], c) <=> c.riskClasses = "D" /\ c.trustLevels = "high"
  <2>1. list[8].match = [riskClasses |-> {"D"}, trustLevels |-> {"high"}]
    BY DEF DEFAULT_POLICY_RULES, Rule, ClassesFor
  <2> HIDE DEF list
  <2> QED  BY <1>1, <2>1, RiskAndTrustMatch
<1>10. MatchesRule(list[9], c) <=> c.riskClasses = "C"
  <2>1. list[9].match = [riskClasses |-> {"C"}]
    BY DEF DEFAULT_POLICY_RULES, Rule, Classes
  <2> HIDE DEF list
  <2> QED  BY <1>1, <2>1, RiskMatches
<1>11. MatchesRule(list[10], c) <=> c.riskClasses = "B"
  <2>1. list[10].match = [riskClasses |-> {"B"}]
    BY DEF DEFAULT_POLICY_RULES, Rule, Classes
  <2> HIDE DEF list
  <2> QED  BY <1>1, <2>1, RiskMatches
<1>12. MatchesRule(list[11], c) <=> c.riskClasses = "A"
  <2>1. list[11].match = [riskClasses |-> {"A"}]
    BY DEF DEFAULT_POLICY_RULES, Rule, Classes
  <2> HIDE DEF list
  <2> QED  BY <1>1, <2>1, RiskMatches
<1> HIDE DEF list
<1> QED  BY <1>2, <1>3, <1>4, <1>5, <1>6, <1>7, <1>8, <1>9, <1>10, <1>11, <1>12 DEF list

(* What each default rule but the last says.                               *)
LEMMA DefaultRulesSay ==
  /\ DOMAIN DEFAULT_POLICY_RULES = 1..12
  /\ DEFAULT_POLICY_RULES[1].effect = "allow"
  /\ DEFAULT_POLICY_RULES[2].effect = "deny"
  /\ DEFAULT_POLICY_RULES[3].effect = "deny"
  /\ DEFAULT_POLICY_RULES[4].effect = "host_elevated_only"
  /\ DEFAULT_POLICY_RULES[5].effect = "allow_with_approval"
  /\ DEFAULT_POLICY_RULES[6].effect = "allow"
  /\ DEFAULT_POLICY_RULES[7].effect = "allow_with_approval"
  /\ DEFAULT_POLICY_RULES[8].effect = "allow"
  /\ DEFAULT_POLICY_RULES[9].effect = "sandbox_only"
  /\ DEFAULT_POLICY_RULES[10].effect = "allow"
  /\ DEFAULT_POLICY_RULES[11].effect = "allow"
BY DEF DEFAULT_POLICY_RULES, Rule

(* What is refused where only reading is permitted; what needs no approval.*)
BeyondReading(c) ==
  c.riskClasses # "A" /\ (c.trustLevels = "low" \/ c.sessionModes = "readonly")

Trusted(c) == c.trustLevels = "high" \/ c.approvalStates = "approved"

(* What the default rules answer: the system may do anything; what is      *)
(* above reading is refused to low trust and in a readonly session; else   *)
(* the risk class decides, for D and E with the trust or an approval.      *)
LEMMA DefaultAnswers ==
  ASSUME NEW c \in Contexts
  PROVE  LET mode == Evaluate(DEFAULT_POLICY_RULES, c).mode IN
         IF c.principalTypes = "system" THEN mode = "allow"
         ELSE IF BeyondReading(c) THEN mode = "deny"
         ELSE /\ c.riskClasses \in {"A", "B"} => mode = "allow"
              /\ c.riskClasses = "C" => mode = "sandbox_only"
              /\ c.riskClasses \in {"D", "E"} =>
                   mode = IF Trusted(c) THEN "allow" ELSE "allow_with_approval"
              /\ c.riskClasses = "F" => mode = "host_elevated_only"
<1> DEFINE list == DEFAULT_POLICY_RULES
           Mode == Evaluate(list, c).mode
           Match(k) == MatchesRule(list[k], c)
<1>1. ASSUME NEW n \in 1..11, Match(n), \A j \in 1..n-1 : ~Match(j)
      PROVE  Mode = IF list[n].effect = "allow_with_approval" /\ c.approvalStates = "approved"
                    THEN "allow" ELSE list[n].effect
  <2>1. DOMAIN list = 1..12
    BY DefaultRulesSay
  <2>2. IsFirstMatch(list, c, n)
    BY <1>1 DEF IsFirstMatch
  <2> HIDE DEF list, Match
  <2>3. n \in DOMAIN list /\ DOMAIN list \subseteq Nat \ {0} /\ \A i \in 1..n-1 : i \in DOMAIN list
    BY <2>1
  <2>4. Evaluate(list, c) = BuildDecision(list[n], c)
    BY <2>2, <2>3, FirstDecides
  <2> QED  BY <2>4 DEF BuildDecision
<1>2. /\ Match(1) <=> c.principalTypes = "system"
      /\ Match(2) <=> c.sessionModes = "readonly" /\ c.riskClasses # "A"
      /\ Match(3) <=> c.riskClasses # "A" /\ c.trustLevels = "low"
      /\ Match(4) <=> c.riskClasses = "F"
      /\ Match(5) <=> c.riskClasses = "E" /\ c.trustLevels # "high"
      /\ Match(6) <=> c.riskClasses = "E" /\ c.trustLevels = "high"
      /\ Match(7) <=> c.riskClasses = "D" /\ c.trustLevels # "high"
      /\ Match(8) <=> c.riskClasses = "D" /\ c.trustLevels = "high"
      /\ Match(9) <=> c.riskClasses = "C"
      /\ Match(10) <=> c.riskClasses = "B"
      /\ Match(11) <=> c.riskClasses = "A"
  BY DefaultRulesAsk
<1>3. /\ list[1].effect = "allow" /\ list[2].effect = "deny" /\ list[3].effect = "deny"
      /\ list[4].effect = "host_elevated_only"
      /\ list[5].effect = "allow_with_approval" /\ list[6].effect = "allow"
      /\ list[7].effect = "allow_with_approval" /\ list[8].effect = "allow"
      /\ list[9].effect = "sandbox_only" /\ list[10].effect = "allow"
      /\ list[11].effect = "allow"
  BY DefaultRulesSay
<1> HIDE DEF list, Mode, Match
<1>4. ASSUME c.principalTypes = "system"  PROVE Mode = "allow"
  BY <1>1, <1>2, <1>3, <1>4
<1>5. ASSUME c.principalTypes # "system", BeyondReading(c)  PROVE Mode = "deny"
  <2>1. CASE Match(2)
    BY <1>1, <1>2, <1>3, <1>5, <2>1
  <2>2. CASE ~Match(2)
    BY <1>1, <1>2, <1>3, <1>5, <2>2 DEF BeyondReading
  <2> QED  BY <2>1, <2>2
<1>6. ASSUME c.principalTypes # "system", ~BeyondReading(c)
      PROVE  ~Match(1) /\ ~Match(2) /\ ~Match(3)
  BY <1>2, <1>6 DEF BeyondReading
<1>7. ASSUME c.principalTypes # "system", ~BeyondReading(c), c.riskClasses \in {"A", "B"}
      PROVE  Mode = "allow"
  <2>1. CASE c.riskClasses = "A"
    BY <1>1, <1>2, <1>3, <1>6, <1>7, <2>1
  <2>2. CASE c.riskClasses = "B"
    BY <1>1, <1>2, <1>3, <1>6, <1>7, <2>2
  <2> QED  BY <1>7, <2>1, <2>2
<1>8. ASSUME c.principalTypes # "system", ~BeyondReading(c), c.riskClasses = "C"
      PROVE  Mode = "sandbox_only"
  BY <1>1, <1>2, <1>3, <1>6, <1>8
<1>9. ASSUME c.principalTypes # "system", ~BeyondReading(c), c.riskClasses \in {"D", "E"}
      PROVE  Mode = IF Trusted(c) THEN "allow" ELSE "allow_with_approval"
  <2>1. CASE c.riskClasses = "D" /\ c.trustLevels = "high"
    BY <1>1, <1>2, <1>3, <1>6, <1>9, <2>1 DEF Trusted
  <2>2. CASE c.riskClasses = "D" /\ c.trustLevels # "high"
    BY <1>1, <1>2, <1>3, <1>6, <1>9, <2>2 DEF Trusted
  <2>3. CASE c.riskClasses = "E" /\ c.trustLevels = "high"
    BY <1>1, <1>2, <1>3, <1>6, <1>9, <2>3 DEF Trusted
  <2>4. CASE c.riskClasses = "E" /\ c.trustLevels # "high"
    BY <1>1, <1>2, <1>3, <1>6, <1>9, <2>4 DEF Trusted
  <2> QED  BY <1>9, <2>1, <2>2, <2>3, <2>4
<1>10. ASSUME c.principalTypes # "system", ~BeyondReading(c), c.riskClasses = "F"
       PROVE  Mode = "host_elevated_only"
  BY <1>1, <1>2, <1>3, <1>6, <1>10
<1> QED  BY <1>4, <1>5, <1>7, <1>8, <1>9, <1>10 DEF Mode, list

(* What a context is permitted when the default rules are installed.       *)
LEMMA PermittedByTable ==
  ASSUME Rules = DEFAULT_POLICY_RULES, NEW c \in Contexts
  PROVE  Permitted(c) <=>
           \/ c.principalTypes = "system"
           \/ c.riskClasses = "A"
           \/ /\ ~BeyondReading(c)
              /\ c.riskClasses \in {"D", "E"} => Trusted(c)
              /\ c.riskClasses = "F" => c.requiresElevation
<1>1. Permitted(c) <=> \/ Evaluate(DEFAULT_POLICY_RULES, c).mode
                              \in {"allow", "sandbox_only", "readonly_visibility"}
                       \/ /\ Evaluate(DEFAULT_POLICY_RULES, c).mode = "host_elevated_only"
                          /\ c.requiresElevation
  BY DEF Permitted, Decision
<1>2. c.riskClasses \in {"A", "B", "C", "D", "E", "F"}
  BY DEF Contexts, ToolRiskClass
<1>3. c.riskClasses = "A" => ~BeyondReading(c)
  BY DEF BeyondReading
<1> QED  BY <1>1, <1>2, <1>3, DefaultAnswers

(* The inductive invariant: the context is one the engine can be asked.    *)
Askable == context \in Contexts

(* Every context reached is one of them.                                   *)
LEMMA ContextsStay == ContextsSpec => []Askable
<1>1. ContextsInit => Askable
  BY DEF ContextsInit, Askable
<1>2. Askable /\ [ContextsNext]_context => Askable'
  BY DEF ContextsNext, Askable
<1> QED  BY <1>1, <1>2, PTL DEF ContextsSpec

(* The default rules give the classes A to E what their rows of the table  *)
(* say, and class F nothing without elevation, whatever tools there are.   *)
THEOREM DefaultRulesAreTheTable ==
  ASSUME Rules = DEFAULT_POLICY_RULES
  PROVE  ContextsSpec => []TableOfRiskClasses
<1>1. Askable => TableOfRiskClasses
  BY PermittedByTable DEF Askable, TableOfRiskClasses, BeyondReading, Trusted
<1> QED  BY <1>1, ContextsStay, PTL

(* Under the default rules more privilege never takes a permission away.   *)
THEOREM DefaultRulesAreMonotone ==
  ASSUME Rules = DEFAULT_POLICY_RULES
  PROVE  ContextsSpec => PrivilegeIsMonotone
<1>1. Askable /\ Askable' /\ [ContextsNext]_context =>
        [AtLeast(context', context) /\ Permitted(context) => Permitted(context')]_context
  <2> SUFFICES ASSUME context \in Contexts, context' \in Contexts, ContextsNext,
                      AtLeast(context', context), Permitted(context)
               PROVE  Permitted(context')
    BY DEF Askable
  <2>1. context'.principalTypes = context.principalTypes
    BY DEF ContextsNext, Varied, Contexts
  <2>2. context.trustLevels \in TrustLevel /\ context'.trustLevels \in TrustLevel
    BY DEF Contexts
  <2>3. /\ context.trustLevels = "high" => context'.trustLevels = "high"
        /\ context'.trustLevels = "low" => context.trustLevels = "low"
    BY <2>2 DEF AtLeast, Rank, TrustLevel
  <2>4. /\ context'.riskClasses = context.riskClasses
        /\ context.requiresElevation => context'.requiresElevation
        /\ BeyondReading(context') => BeyondReading(context)
        /\ Trusted(context) => Trusted(context')
    BY <2>3 DEF AtLeast, BeyondReading, Trusted
  <2> QED  BY <2>1, <2>4, PermittedByTable
<1> QED  BY <1>1, ContextsStay, PTL DEF ContextsSpec, PrivilegeIsMonotone

(* What the default rules hide when a turn starts could not be run in it,  *)
(* whatever is approved or granted while it lasts.                         *)
THEOREM HiddenStaysForbidden ==
  ASSUME Rules = DEFAULT_POLICY_RULES
  PROVE  ContextsSpec => HiddenToolsCannotRun
<1>1. ASSUME context \in Contexts, context' \in Contexts,
             context.toolNames \notin Visible(context),
             context' \in {[context EXCEPT !.approvalStates = "approved"],
                           [context EXCEPT !.requiresElevation = TRUE]}
      PROVE  ~Permitted(context) /\ ~Permitted(context')
  <2>1. context.toolNames \in ToolNames
    BY <1>1 DEF Contexts
  <2>2. [context EXCEPT !.toolNames = context.toolNames,
                        !.riskClasses = context.riskClasses] = context
    BY <1>1 DEF Contexts
  <2>3. Evaluate(Rules, context).mode = "deny"
    BY <1>1, <2>1, <2>2 DEF Visible, FilterVisibleTools
  <2>4. context.principalTypes # "system" /\ BeyondReading(context)
    <3>1. context.riskClasses \in {"A", "B", "C", "D", "E", "F"}
      BY <1>1 DEF Contexts, ToolRiskClass
    <3> QED  BY <1>1, <2>3, <3>1, DefaultAnswers
  <2>5. context'.principalTypes # "system" /\ BeyondReading(context')
    BY <1>1, <2>4 DEF Contexts, BeyondReading
  <2>6. ~Permitted(context)
    BY <1>1, <2>4, PermittedByTable DEF BeyondReading
  <2>7. ~Permitted(context')
    BY <1>1, <2>5, PermittedByTable DEF BeyondReading
  <2> QED  BY <2>6, <2>7
<1>2. Askable /\ Askable' =>
        [/\ context.toolNames \notin Visible(context)
         /\ context' \in {[context EXCEPT !.approvalStates = "approved"],
                          [context EXCEPT !.requiresElevation = TRUE]}
         => ~Permitted(context) /\ ~Permitted(context')]_context
  BY <1>1 DEF Askable
<1> QED  BY <1>2, ContextsStay, PTL DEF HiddenToolsCannotRun

=============================================================================
