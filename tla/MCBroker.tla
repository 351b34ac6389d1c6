------------------------------ MODULE MCBroker ------------------------------
(* A tool of each kind the rules tell apart: read is class A, send class E *)
(* and needs approval for a user, unlock class F and needs host elevation, *)
(* fetch class D and has no worker; render is registered but beyond the    *)
(* task's capabilities, and nosuch is not registered.                      *)
(*                                                                         *)
(* Beside the broker, the questions its rules can be asked: a behaviour    *)
(* goes through contexts or dispatches calls, whichever it does first.     *)
EXTENDS Broker, PolicyContexts

MCRegistry ==
  [read   |-> [riskClass |-> "A", defaultRuntimeTarget |-> "sandbox"],
   send   |-> [riskClass |-> "E", defaultRuntimeTarget |-> "sandbox"],
   unlock |-> [riskClass |-> "F", defaultRuntimeTarget |-> "host_elevated"],
   fetch  |-> [riskClass |-> "D", defaultRuntimeTarget |-> "browser_worker"],
   render |-> [riskClass |-> "B", defaultRuntimeTarget |-> "sandbox"]]

User == [type |-> "user", trustLevel |-> "medium", policyGroup |-> "default"]
OneUser == {User}

(* The rules an operator may switch to: everything of class E denied, or   *)
(* reserved to elevated sessions on the host.                              *)
Tightened == <<Rule(Classes({"E"}), "deny", NoTarget, TRUE)>> \o DEFAULT_POLICY_RULES
Elevating == <<Rule(Classes({"E"}), "host_elevated_only", "host_elevated", TRUE)>>
               \o DEFAULT_POLICY_RULES
MCRulesets ==
  [default |-> DEFAULT_POLICY_RULES, tightened |-> Tightened, elevating |-> Elevating]

Receipt(tokens, made) ==
  [eventType |-> "tool.finished", tokensUsed |-> tokens, artifacts |-> made]
Failure(type) == [eventType |-> type, tokensUsed |-> 0, artifacts |-> FALSE]
MCResults == {Receipt(1, TRUE), Receipt(2, FALSE), Failure("tool.error")}

(* The broker with all its collaborators, and as app.ts and the CLI        *)
(* construct it.                                                           *)
MCWirings == {Collaborator, {}}

SomeContexts ==
  {c \in Contexts : /\ c.trustLevels = "low" /\ c.riskClasses = "A"
                    /\ c.sessionModes = "readonly" /\ ~c.requiresElevation
                    /\ c.approvalStates = "pending"}
FirstContext == CHOOSE c \in SomeContexts : c.principalTypes = "user"

MCInit == Init /\ context \in SomeContexts
MCNext ==
  \/ context = FirstContext /\ Next /\ UNCHANGED context
  \/ Init /\ ContextsNext /\ UNCHANGED vars
MCSpec == MCInit /\ [][MCNext]_<<vars, context>> /\ Fairness
=============================================================================
