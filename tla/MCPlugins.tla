----------------------------- MODULE MCPlugins -----------------------------
(* An instance of Plugins for TLC: one plugin in two versions, the later   *)
(* of which does more and more dangerous things, one principal of medium   *)
(* trust with one session, and a list of rules that lets through nothing   *)
(* but what elevated sessions ask for.                                     *)
EXTENDS Plugins

MCManifests == {[version |-> 1, riskClass |-> "A", capabilities |-> {"look"}],
                [version |-> 2, riskClass |-> "D", capabilities |-> {"look", "post"}]}
MCPrincipals == [ann |-> [type |-> "user", trustLevel |-> "medium", policyGroup |-> "staff"]]
MCSessions == [s |-> "ann"]
MCRulesets ==
  [default  |-> DEFAULT_POLICY_RULES,
   elevated |-> <<Rule([requiresElevation |-> {TRUE}], "allow", "plugin_worker", TRUE)>>]
=============================================================================
