---------------------------- MODULE PolicyEngine ----------------------------
(***************************************************************************)
(* The policy engine of src/core/policy.ts: ordered rules, first match     *)
(* wins, default deny.  The engine has no state of its own but its list of *)
(* rules, which is a parameter of every operator here.                     *)
(*                                                                         *)
(* The match part of a rule is a function from the matchers the rule has   *)
(* to the values each accepts; a matcher the rule lacks is not in its      *)
(* domain.  A context gives every matcher the value it looks at, under the *)
(* matcher's name.                                                         *)
(***************************************************************************)
EXTENDS Integers, Sequences

ToolRiskClass == {"A", "B", "C", "D", "E", "F"}
SessionMode == {"interactive", "task", "review", "readonly"}
TrustLevel == {"low", "medium", "high"}
PrincipalType == {"operator", "user", "child_agent", "system"}
ApprovalOutcome == {"approved", "denied", "pending", "expired"}
PolicyMode == {"deny", "allow", "allow_with_approval", "sandbox_only",
               "host_elevated_only", "readonly_visibility"}
RuntimeTarget == {"sandbox", "browser_worker", "node_bridge", "plugin_worker",
                  "media_worker", "host_elevated"}

NoTarget == "none"   \* allowedRuntimeTarget is absent
NoDomain == "none"   \* networkDomain is absent

Rule(match, effect, target, audit) ==
  [match |-> match, effect |-> effect, allowedRuntimeTarget |-> target,
   auditRequired |-> audit]

(* What a list of rules that can be installed is.                          *)
IsRuleList(rules) ==
  /\ rules \in Seq({rules[i] : i \in DOMAIN rules})
  /\ \A i \in DOMAIN rules :
       /\ rules[i].effect \in PolicyMode
       /\ rules[i].allowedRuntimeTarget \in RuntimeTarget \cup {NoTarget}
       /\ rules[i].auditRequired \in BOOLEAN

AboveReadOnly == ToolRiskClass \ {"A"}

Classes(cs) == [riskClasses |-> cs]
ClassesFor(cs, trust) == [riskClasses |-> cs, trustLevels |-> trust]

(* Mutant of DEFAULT_POLICY_RULES: medium trust is denied in place of low. *)
DEFAULT_RULES_MISDENYING == <<
  Rule([principalTypes |-> {"system"}], "allow", NoTarget, TRUE),
  Rule(ClassesFor(AboveReadOnly, {"medium"}), "deny", NoTarget, TRUE),
  Rule(Classes({"F"}), "host_elevated_only", "host_elevated", TRUE),
  Rule(<<>>, "allow", "sandbox", TRUE) >>

DEFAULT_POLICY_RULES == <<
  Rule([principalTypes |-> {"system"}], "allow", NoTarget, TRUE),
  Rule([sessionModes |-> {"readonly"}, riskClasses |-> AboveReadOnly],
       "deny", NoTarget, TRUE),
  Rule(ClassesFor(AboveReadOnly, {"low"}), "deny", NoTarget, TRUE),
  Rule(Classes({"F"}), "host_elevated_only", "host_elevated", TRUE),
  Rule(ClassesFor({"E"}, {"medium", "low"}), "allow_with_approval", "sandbox", TRUE),
  Rule(ClassesFor({"E"}, {"high"}), "allow", "sandbox", TRUE),
  Rule(ClassesFor({"D"}, {"medium", "low"}), "allow_with_approval",
       "browser_worker", TRUE),
  Rule(ClassesFor({"D"}, {"high"}), "allow", "browser_worker", TRUE),
  Rule(Classes({"C"}), "sandbox_only", "sandbox", TRUE),
  Rule(Classes({"B"}), "allow", "sandbox", TRUE),
  Rule(Classes({"A"}), "allow", "sandbox", FALSE),
  Rule(<<>>, "allow", "sandbox", TRUE) >>

(* A matcher is passed when the context's value is one it accepts.  The    *)
(* domain matcher is also passed by a context that has no domain.          *)
Passes(matcher, accepted, ctx) ==
  \/ ctx[matcher] \in accepted
  \/ matcher = "networkDomains" /\ ctx[matcher] = NoDomain

MatchesRule(rule, ctx) ==
  \A matcher \in DOMAIN rule.match : Passes(matcher, rule.match[matcher], ctx)

BuildDecision(rule, ctx) ==
  [mode |-> IF rule.effect = "allow_with_approval" /\ ctx.approvalStates = "approved"
              THEN "allow" ELSE rule.effect,
   requiresApproval |-> rule.effect = "allow_with_approval",
   allowedRuntimeTarget |-> rule.allowedRuntimeTarget,
   auditRequired |-> rule.auditRequired]

DefaultDeny ==
  [mode |-> "deny", requiresApproval |-> FALSE,
   allowedRuntimeTarget |-> NoTarget, auditRequired |-> TRUE]

(* Mutant of IsFirstMatch: the last match wins.                            *)
IsLastMatch(rules, ctx, i) ==
  /\ MatchesRule(rules[i], ctx)
  /\ \A j \in DOMAIN rules : j > i => ~MatchesRule(rules[j], ctx)

(* Rule i is the first of the rules that matches.                          *)
IsFirstMatch(rules, ctx, i) ==
  /\ MatchesRule(rules[i], ctx)
  /\ \A j \in 1..i-1 : ~MatchesRule(rules[j], ctx)

Evaluate(rules, ctx) ==
  IF \E i \in DOMAIN rules : MatchesRule(rules[i], ctx)
    THEN BuildDecision(rules[CHOOSE i \in DOMAIN rules : IsFirstMatch(rules, ctx, i)], ctx)
    ELSE DefaultDeny

(* Mutant of FilterVisibleTools: only what is allowed outright is shown.   *)
FilterAllowedTools(rules, ctx, registry) ==
  {t \in DOMAIN registry :
    LET asked == [ctx EXCEPT !.toolNames = t, !.riskClasses = registry[t].riskClass]
    IN  Evaluate(rules, asked).mode = "allow"}

(* The tools of a registry whose schemas a principal gets to see.          *)
FilterVisibleTools(rules, ctx, registry) ==
  {t \in DOMAIN registry :
    LET asked == [ctx EXCEPT !.toolNames = t, !.riskClasses = registry[t].riskClass]
    IN  Evaluate(rules, asked).mode # "deny"}

PolicyDecision ==
  [mode : PolicyMode, requiresApproval : BOOLEAN,
   allowedRuntimeTarget : RuntimeTarget \cup {NoTarget}, auditRequired : BOOLEAN]
=============================================================================
