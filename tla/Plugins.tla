------------------------------- MODULE Plugins -------------------------------
(***************************************************************************)
(* The plugin routes of src/core/gateway.ts over the table of              *)
(* src/core/plugin-store.ts or, without one, over a map in memory, with    *)
(* the principals the gateway knows, the sessions, and the policy engine   *)
(* an invocation is put to.                                                *)
(*                                                                         *)
(* No route awaits, but the ones that change a plugin write to two         *)
(* databases, first the plugin and then the audit trail, and the process   *)
(* may stop in between.                                                    *)
(***************************************************************************)
EXTENDS PolicyEngine, FiniteSets

CONSTANTS
  PluginIds,     \* PluginManifest.id
  Manifests,     \* what may be installed under an id
  Capabilities,  \* what an invocation may ask for
  PolicyGroups,  \* policy groups of principals
  Principals,    \* ids of principals, each with the profile it registers with
  Sessions,      \* sessions, each with the id of its principal
  PatchModes,    \* modes a session may be created with or patched to
  Rulesets,      \* the lists of rules an operator may install, by name
  MaxRecords,    \* bound: the length of the trail
  MaxRestarts    \* bound: how often the process is restarted

Manifest == [version : Nat, riskClass : ToolRiskClass, capabilities : SUBSET Capabilities]
Profile == [type : PrincipalType, trustLevel : TrustLevel, policyGroup : PolicyGroups]

ASSUME PluginsAssumption ==
  /\ Manifests \subseteq Manifest
  /\ "default" \in PolicyGroups
  /\ Principals \in [DOMAIN Principals -> Profile]
  /\ Sessions \in [DOMAIN Sessions -> DOMAIN Principals]
  /\ PatchModes \subseteq SessionMode
  /\ "default" \in DOMAIN Rulesets /\ Rulesets["default"] = DEFAULT_POLICY_RULES
  /\ MaxRecords \in Nat /\ MaxRestarts \in Nat

VARIABLES
  hasStore,     \* whether the gateway was given a PluginStore
  plugins,      \* the plugins there are, in the table or in memory
  principals,   \* the ids in the gateway's map of principals
  sessions,     \* the rows of the sessions
  rules,        \* the name of the list that is PolicyEngine.rules
  audit,        \* the plugin events of the audit log
  owed,         \* the record a handler is about to write
  acts,         \* history: the actions carried out
  since,        \* history: the length of the trail when the map was made
  untold,       \* history: plugins a change of which the trail has missed
  gone,         \* history: the ids of principals that were forgotten
  restarts      \* how often the process was restarted

environment == <<principals, sessions, rules, gone>>
vars == <<hasStore, plugins, environment, audit, owed, acts, since, untold, restarts>>

PluginState == {"installed", "enabled", "disabled"}
Plugin == [manifest : Manifests, state : PluginState]
PluginEvent == {"plugin.installed", "plugin.enabled", "plugin.disabled",
                "plugin.removed", "plugin.capability.denied",
                "plugin.action.denied", "plugin.action"}
Session == [mode : SessionMode, elevationState : BOOLEAN]

(* What a record says of a plugin besides its id: of one that was          *)
(* installed the version and the risk class, of others nothing.            *)
Params == [version : Nat, riskClass : ToolRiskClass]
ParamsOf(manifest) == [version |-> manifest.version, riskClass |-> manifest.riskClass]
NoParams == [version |-> 0, riskClass |-> "A"]
Record == [eventType : PluginEvent, plugin : PluginIds, params : Params]
NoRecord == <<>>
NoPlugins == [p \in {} |-> NoParams]
Context ==
  [principalTypes : PrincipalType, trustLevels : TrustLevel, policyGroups : PolicyGroups,
   toolNames : PluginIds \X Capabilities, riskClasses : ToolRiskClass,
   sessionModes : SessionMode, requiresElevation : BOOLEAN, networkDomains : {NoDomain}, approvalStates : {"approved"}]
Act == [at : Nat, told : BOOLEAN, plugin : PluginIds, manifest : Manifests,
        rules : DOMAIN Rulesets, context : Context, known : BOOLEAN]

TypeOK ==
  /\ hasStore \in BOOLEAN
  /\ DOMAIN plugins \subseteq PluginIds
  /\ plugins \in [DOMAIN plugins -> Plugin]
  /\ principals \subseteq DOMAIN Principals
  /\ sessions \in [DOMAIN Sessions -> Session]
  /\ rules \in DOMAIN Rulesets
  /\ audit \in Seq(Record) /\ Len(audit) \leq MaxRecords
  /\ owed \in Record \cup {NoRecord}
  /\ acts \in Seq(Act)
  /\ since \in 0..Len(audit)
  /\ untold \subseteq PluginIds
  /\ gone \subseteq DOMAIN Principals
  /\ restarts \in 0..MaxRestarts

Init ==
  /\ hasStore \in BOOLEAN
  /\ plugins = NoPlugins
  /\ principals = {}
  /\ sessions \in [DOMAIN Sessions -> [mode : PatchModes, elevationState : {FALSE}]]
  /\ rules = "default"
  /\ audit = <<>>
  /\ owed = NoRecord
  /\ acts = <<>>
  /\ since = 0
  /\ untold = {}
  /\ gone = {}
  /\ restarts = 0

-----------------------------------------------------------------------------
Idle == owed = NoRecord /\ Len(audit) < MaxRecords

Put(p, plugin) ==
  [q \in DOMAIN plugins \cup {p} |-> IF q = p THEN plugin ELSE plugins[q]]

Event(e, p, params) == [eventType |-> e, plugin |-> p, params |-> params]

(* A handler has changed a plugin and is about to record it.               *)
Changes(changed, record) ==
  /\ Idle
  /\ plugins' = changed
  /\ owed' = record
  /\ UNCHANGED <<hasStore, environment, audit, acts, since, untold, restarts>>

(* Mutant of Install: a plugin keeps the state it had, or the manifest     *)
(* says, as PluginRegistry.register() lets it.                             *)
InstallKeepingState(p, m) ==
  Changes(Put(p, [manifest |-> m,
                  state |-> IF p \in DOMAIN plugins THEN plugins[p].state ELSE "installed"]),
          Event("plugin.installed", p, ParamsOf(m)))

(* POST /plugins: whatever there was under the id is replaced, and what    *)
(* was enabled is not any more.                                            *)
Install(p, m) ==
  Changes(Put(p, [manifest |-> m, state |-> "installed"]),
          Event("plugin.installed", p, ParamsOf(m)))

(* PATCH /plugins/:id/state. The manifest in place is kept, whichever it is. *)
SetState(p, state) ==
  /\ p \in DOMAIN plugins
  /\ Changes(Put(p, [plugins[p] EXCEPT !.state = state]),
             Event(IF state = "enabled" THEN "plugin.enabled" ELSE "plugin.disabled",
                   p, NoParams))

(* DELETE /plugins/:id.                                                    *)
Remove(p) ==
  /\ p \in DOMAIN plugins
  /\ Changes([q \in DOMAIN plugins \ {p} |-> plugins[q]],
             Event("plugin.removed", p, NoParams))

(* Mutant of WriteRecord: a plugin that is disabled is not told.           *)
WriteRecordUnlessDisabled ==
  /\ owed # NoRecord
  /\ audit' = IF owed.eventType = "plugin.disabled" THEN audit ELSE Append(audit, owed)
  /\ owed' = NoRecord
  /\ untold' = untold
  /\ UNCHANGED <<hasStore, plugins, environment, acts, since, restarts>>

(* The handler's record. An installation or removal that is told makes up  *)
(* for what was missed of the plugin before.                               *)
WriteRecord ==
  /\ owed # NoRecord
  /\ audit' = Append(audit, owed)
  /\ owed' = NoRecord
  /\ untold' = IF owed.eventType \in {"plugin.installed", "plugin.removed"}
                 THEN untold \ {owed.plugin} ELSE untold
  /\ UNCHANGED <<hasStore, plugins, environment, acts, since, restarts>>

-----------------------------------------------------------------------------
(* Mutant of EffectivePrincipal: a principal the gateway does not know is  *)
(* taken at the level new ones get.                                        *)
EffectivePrincipalOfNew(id) ==
  IF id \in principals THEN Principals[id]
  ELSE [type |-> "user", trustLevel |-> "medium", policyGroup |-> "default"]

(* The principal of a session as the gateway knows it, or the one it makes *)
(* up for an id it does not know.                                          *)
EffectivePrincipal(id) ==
  IF id \in principals THEN Principals[id]
  ELSE [type |-> "user", trustLevel |-> "low", policyGroup |-> "default"]

(* The context an invocation is put to the engine in: the session as it is *)
(* stored, no domain, and that it was approved.                            *)
InvokeContext(p, s, capability) ==
  LET principal == EffectivePrincipal(Sessions[s])
  IN  [principalTypes    |-> principal.type,
       trustLevels       |-> principal.trustLevel,
       policyGroups      |-> principal.policyGroup,
       toolNames         |-> <<p, capability>>,
       riskClasses       |-> plugins[p].manifest.riskClass,
       sessionModes      |-> sessions[s].mode,
       requiresElevation |-> sessions[s].elevationState,
       networkDomains    |-> NoDomain,
       approvalStates    |-> "approved"]

Enabled(p) == p \in DOMAIN plugins /\ plugins[p].state = "enabled"

(* A record of an invocation, which changes nothing else.                  *)
Tells(e, p) ==
  /\ Idle
  /\ audit' = Append(audit, Event(e, p, NoParams))
  /\ UNCHANGED <<hasStore, plugins, environment, owed, since, untold, restarts>>

(* POST /plugins/:id/invoke for a capability the manifest does not declare. *)
InvokeUndeclared(p, capability) ==
  /\ Enabled(p)
  /\ capability \notin plugins[p].manifest.capabilities
  /\ Tells("plugin.capability.denied", p)
  /\ UNCHANGED acts

(* Of the decision only a denial is heeded.                                *)
Permitted(p, s, capability) ==
  Evaluate(Rulesets[rules], InvokeContext(p, s, capability)).mode # "deny"

InvokeDenied(p, s, capability) ==
  /\ Enabled(p)
  /\ capability \in plugins[p].manifest.capabilities
  /\ ~Permitted(p, s, capability)
  /\ Tells("plugin.action.denied", p)
  /\ UNCHANGED acts

InvokeActs(p, s, capability) ==
  /\ Enabled(p)
  /\ capability \in plugins[p].manifest.capabilities
  /\ Permitted(p, s, capability)
  /\ Tells("plugin.action", p)
  /\ acts' = Append(acts, [at |-> Len(audit) + 1, told |-> p \notin untold,
                           plugin |-> p, manifest |-> plugins[p].manifest,
                           rules |-> rules,
                           context |-> InvokeContext(p, s, capability),
                           known |-> Sessions[s] \in principals \ gone])

-----------------------------------------------------------------------------
(* POST /auth/principals, under an id that was never used before.          *)
RegisterPrincipal(id) ==
  /\ Idle
  /\ id \notin principals \cup gone
  /\ principals' = principals \cup {id}
  /\ UNCHANGED <<hasStore, plugins, sessions, rules, gone, audit, owed, acts,
                 since, untold, restarts>>

(* PATCH /sessions/:id, of the fields rules look at.                       *)
PatchSession(s, mode, elevation) ==
  /\ Idle
  /\ sessions' = [sessions EXCEPT ![s] = [mode |-> mode, elevationState |-> elevation]]
  /\ UNCHANGED <<hasStore, plugins, principals, rules, gone, audit, owed, acts,
                 since, untold, restarts>>

(* The policy editor's effect on the engine.                               *)
SetRules(name) ==
  /\ Idle
  /\ rules' = name
  /\ UNCHANGED <<hasStore, plugins, principals, sessions, gone, audit, owed, acts,
                 since, untold, restarts>>

(* The process stops, perhaps before the record of what it did, and a new  *)
(* one starts with the table, or with none of the plugins, with the        *)
(* default rules and without principals.                                   *)
Restart ==
  /\ restarts < MaxRestarts
  /\ restarts' = restarts + 1
  /\ owed' = NoRecord
  /\ principals' = {}
  /\ gone' = gone \cup principals
  /\ rules' = "default"
  /\ IF hasStore
     THEN /\ untold' = IF owed = NoRecord THEN untold ELSE untold \cup {owed.plugin}
          /\ UNCHANGED <<plugins, since>>
     ELSE /\ plugins' = NoPlugins
          /\ since' = Len(audit)
          /\ untold' = {}
  /\ UNCHANGED <<hasStore, sessions, audit, acts>>

Next ==
  \/ \E p \in PluginIds : \E m \in Manifests : Install(p, m)
  \/ \E p \in PluginIds : \E state \in {"enabled", "disabled"} : SetState(p, state)
  \/ \E p \in PluginIds : Remove(p)
  \/ WriteRecord
  \/ \E p \in PluginIds, capability \in Capabilities : InvokeUndeclared(p, capability)
  \/ \E p \in PluginIds, s \in DOMAIN Sessions, capability \in Capabilities :
       InvokeDenied(p, s, capability) \/ InvokeActs(p, s, capability)
  \/ \E id \in DOMAIN Principals : RegisterPrincipal(id)
  \/ \E s \in DOMAIN Sessions, mode \in PatchModes, elevation \in BOOLEAN :
       PatchSession(s, mode, elevation)
  \/ \E name \in DOMAIN Rulesets : SetRules(name)
  \/ Restart

Spec == Init /\ [][Next]_vars

-----------------------------------------------------------------------------
IsChange(r) == r.eventType \in {"plugin.installed", "plugin.enabled",
                                "plugin.disabled", "plugin.removed"}

(* The places before n at which the trail, as far as it is about the       *)
(* plugins there are now, tells a change of p.                             *)
ChangesOf(p, n) ==
  {i \in since+1..n : audit[i].plugin = p /\ IsChange(audit[i])}

LastOf(places) == CHOOSE i \in places : \A j \in places : j \leq i

(* What the trail tells of p is what p is.                                 *)
TrailTells(p) ==
  LET told == ChangesOf(p, Len(audit))
      installs == {i \in told : audit[i].eventType = "plugin.installed"}
  IN  IF told = {} \/ audit[LastOf(told)].eventType = "plugin.removed"
      THEN p \notin DOMAIN plugins
      ELSE /\ p \in DOMAIN plugins
           /\ audit[LastOf(installs)].params = ParamsOf(plugins[p].manifest)
           /\ audit[LastOf(told)].eventType =
                CASE plugins[p].state = "installed" -> "plugin.installed"
                  [] plugins[p].state = "enabled" -> "plugin.enabled"
                  [] plugins[p].state = "disabled" -> "plugin.disabled"

(* The trail alone tells which plugins there are, in which version, of     *)
(* which risk class and in which state, after any installations, upgrades, *)
(* removals and restarts, of every plugin but those a change of which a    *)
(* stop of the process has cut off from its record: a lost record of one   *)
(* plugin never confuses the trail of another, and the next installation   *)
(* or removal that is recorded mends what was lost.  (The two are in       *)
(* different databases, so that "every state-changing operation emits at   *)
(* least one audit record", OPERATOR_DOCS.md:802, is not so of a process   *)
(* that stops between them.)                                               *)
TrailTellsPlugins ==
  owed = NoRecord => \A p \in PluginIds \ untold : TrailTells(p)

(* Every action was carried out by the version of the plugin that had last *)
(* been installed, and after that version had been enabled: an upgrade, or *)
(* a removal and a new installation, has to be enabled anew, restarts or   *)
(* not.                                                                    *)
UpgradesAreEnabledAnew ==
  \A k \in DOMAIN acts :
    LET act == acts[k]
        before == {i \in 1..act.at-1 : audit[i].plugin = act.plugin /\ IsChange(audit[i])}
        installs == {i \in before : audit[i].eventType = "plugin.installed"}
    IN  act.told =>
          /\ installs # {}
          /\ audit[LastOf(installs)].params = ParamsOf(act.manifest)
          /\ audit[LastOf(before)].eventType = "plugin.enabled"

(* Under the default rules a plugin does no more than read in a session    *)
(* whose principal the gateway has never been told of or was told of       *)
(* before it restarted, whatever the principal's trust was, and in a       *)
(* readonly session of any principal but the system.                       *)
ForgottenPrincipalsOnlyRead ==
  \A k \in DOMAIN acts :
    LET act == acts[k]
    IN  (/\ act.rules = "default"
         /\ \/ ~act.known
            \/ /\ act.context.sessionModes = "readonly"
               /\ act.context.principalTypes # "system")
          => act.manifest.riskClass = "A"

(* "There is no mechanism to skip approval": what the rules want a human   *)
(* to approve is not done before anyone was asked.                         *)
ApprovalNotSkipped ==
  \A k \in DOMAIN acts :
    Evaluate(Rulesets[acts[k].rules],
             [acts[k].context EXCEPT !.approvalStates = "pending"]).mode
      # "allow_with_approval"
=============================================================================
