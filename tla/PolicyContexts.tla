--------------------------- MODULE PolicyContexts ---------------------------
(***************************************************************************)
(* A list of policy rules, put to every context it can be asked about.  A  *)
(* step goes to a context that differs in one respect: another tool, a     *)
(* change of trust, of session mode or elevation, an approval.             *)
(***************************************************************************)
EXTENDS PolicyEngine

CONSTANTS
  Rules,      \* the rules
  ToolNames   \* the tools contexts ask about

VARIABLE context

Contexts ==
  [principalTypes : {"user", "system"}, trustLevels : TrustLevel,
   policyGroups : {"default"}, toolNames : ToolNames, riskClasses : ToolRiskClass,
   sessionModes : SessionMode, requiresElevation : BOOLEAN,
   networkDomains : {NoDomain}, approvalStates : {"pending", "approved"}]

ContextsInit == context \in Contexts

Varied == {"trustLevels", "riskClasses", "sessionModes", "requiresElevation",
           "approvalStates"}

ContextsNext ==
  \E c \in Contexts, field \in Varied :
    /\ c # context
    /\ c = [context EXCEPT ![field] = c[field]]
    /\ context' = c

ContextsSpec == ContextsInit /\ [][ContextsNext]_context

-----------------------------------------------------------------------------
Decision(c) == Evaluate(Rules, c)

(* What dispatch() would let run: see Conclude in Broker. *)
Permitted(c) ==
  \/ Decision(c).mode \in {"allow", "sandbox_only", "readonly_visibility"}
  \/ Decision(c).mode = "host_elevated_only" /\ c.requiresElevation

(* The rows A to E of the table of risk classes (ARCHITECTURE.md, 4), and  *)
(* its two sentences on low trust and readonly sessions, say exactly what  *)
(* is permitted, whatever the order of the rules that match.  Of row F     *)
(* ("always requires approval and host elevation", policy.ts:89) only what *)
(* the rules do is said: nothing runs without host elevation.  They do not *)
(* ask for the approval.                                                   *)
TableOfRiskClasses ==
  LET c == context
      beyondReading == c.trustLevels = "low" \/ c.sessionModes = "readonly"
      approvedOrHigh == c.trustLevels = "high" \/ c.approvalStates = "approved"
  IN  c.principalTypes # "system" =>
        /\ c.riskClasses = "A" => Permitted(c)
        /\ c.riskClasses \in {"B", "C"} => (Permitted(c) <=> ~beyondReading)
        /\ c.riskClasses \in {"D", "E"} =>
             (Permitted(c) <=> ~beyondReading /\ approvedOrHigh)
        /\ c.riskClasses = "F" /\ (beyondReading \/ ~c.requiresElevation) =>
             ~Permitted(c)

Rank == [low |-> 1, medium |-> 2, high |-> 3]

AtLeast(d, c) ==
  /\ Rank[d.trustLevels] >= Rank[c.trustLevels]
  /\ c.requiresElevation => d.requiresElevation
  /\ c.approvalStates = "approved" => d.approvalStates = "approved"
  /\ d.sessionModes = "readonly" => c.sessionModes = "readonly"
  /\ d.riskClasses = c.riskClasses

(* More trust, an approval, host elevation or leaving readonly mode never  *)
(* takes a permission away: the order of the rules has no exception in     *)
(* which the less privileged of two contexts may do more.                  *)
PrivilegeIsMonotone ==
  [][AtLeast(context', context) /\ Permitted(context) => Permitted(context')]_context

Visible(c) ==
  FilterVisibleTools(Rules, c, [t \in ToolNames |-> [riskClass |-> c.riskClasses]])

(* The agent runtime computes the visible tools once a turn, before anyone *)
(* approves anything (agent.ts:135-142).  What it hides from the model is  *)
(* nothing the model could have run, then or after an approval or a grant  *)
(* of elevation.                                                           *)
HiddenToolsCannotRun ==
  [][/\ context.toolNames \notin Visible(context)
     /\ context' \in {[context EXCEPT !.approvalStates = "approved"],
                  [context EXCEPT !.requiresElevation = TRUE]}
     => ~Permitted(context) /\ ~Permitted(context')]_context
=============================================================================
