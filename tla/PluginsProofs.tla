---------------------------- MODULE PluginsProofs ----------------------------
(***************************************************************************)
(* That the trail tells which plugins there are, that what acts was        *)
(* installed last and enabled since, and that forgotten principals only    *)
(* read, for any plugins, manifests, sessions, principals and rules.       *)
(***************************************************************************)
EXTENDS Plugins, TLAPS, FiniteSetTheorems

(* A set of places in a trail that has any has a last: the intervals that  *)
(* begin with its members are finite sets, and these are well-founded.     *)
LEMMA LastExists ==
  ASSUME NEW n \in Nat, NEW T \in SUBSET (1..n), T # {}
  PROVE  /\ LastOf(T) \in T
         /\ \A j \in T : j \leq LastOf(T)
<1> DEFINE Rests == {i..n : i \in T}
<1>1. IsWellFoundedOn(StrictSubsetOrdering(Nat), FiniteSubsetsOf(Nat))
  BY FS_StrictSubsetOrderingWellFounded
<1>2. Rests \subseteq FiniteSubsetsOf(Nat)
  <2>1. \A i \in T : IsFiniteSet(i..n) /\ i..n \subseteq Nat
    BY FS_Interval
  <2> QED  BY <2>1 DEF FiniteSubsetsOf
<1>3. Rests # {}
  OBVIOUS
<1> HIDE DEF Rests
<1>4. PICK s \in Rests : \A r \in Rests : <<r, s>> \notin StrictSubsetOrdering(Nat)
  BY <1>1, <1>2, <1>3, WFMin
<1>5. PICK i \in T : s = i..n
  BY <1>4 DEF Rests
<1>6. ASSUME NEW j \in T, i < j
      PROVE  FALSE
  <2>1. j..n \in Rests /\ j..n \subseteq i..n /\ j..n \subseteq Nat /\ i..n \subseteq Nat
    BY <1>6 DEF Rests
  <2>2. i \in i..n /\ i \notin j..n
    BY <1>6
  <2>3. <<j..n, i..n>> \in StrictSubsetOrdering(Nat)
    BY <2>1, <2>2 DEF StrictSubsetOrdering
  <2> QED  BY <1>4, <1>5, <2>1, <2>3
<1>7. \A j \in T : j \leq i
  BY <1>6
<1> QED  BY <1>7 DEF LastOf

(* The last place is the one that is later than all others.                *)
LEMMA LastIs ==
  ASSUME NEW n \in Nat, NEW T \in SUBSET (1..n), NEW i \in T, \A j \in T : j \leq i
  PROVE  LastOf(T) = i
<1>1. \A k \in T : (\A j \in T : j \leq k) => k = i
  OBVIOUS
<1> QED  BY <1>1 DEF LastOf

-----------------------------------------------------------------------------
(* The changes and installations that are told of p.                       *)
Told(p) == ChangesOf(p, Len(audit))
Installs(p) == {i \in Told(p) : audit[i].eventType = "plugin.installed"}

(* The version of p is the one its last installation tells.                *)
VersionTold(p) ==
  Installs(p) # {} /\ audit[LastOf(Installs(p))].params = ParamsOf(plugins[p].manifest)

(* TrailTells, by its parts.                                               *)
TrailKnows(p) ==
  IF Told(p) = {} \/ audit[LastOf(Told(p))].eventType = "plugin.removed"
  THEN p \notin DOMAIN plugins
  ELSE /\ p \in DOMAIN plugins
       /\ VersionTold(p)
       /\ audit[LastOf(Told(p))].eventType =
            CASE plugins[p].state = "installed" -> "plugin.installed"
              [] plugins[p].state = "enabled" -> "plugin.enabled"
              [] plugins[p].state = "disabled" -> "plugin.disabled"

(* What is about to be told has been done.                                 *)
OwedIsDone ==
  owed # NoRecord => Len(audit) < MaxRecords /\
    LET p == owed.plugin IN
    \/ owed.eventType = "plugin.removed" /\ p \notin DOMAIN plugins
    \/ /\ owed.eventType = "plugin.installed" /\ p \in DOMAIN plugins
       /\ plugins[p].state = "installed" /\ owed.params = ParamsOf(plugins[p].manifest)
    \/ /\ p \in DOMAIN plugins /\ (p \in untold \/ VersionTold(p))
       /\ \/ owed.eventType = "plugin.enabled" /\ plugins[p].state = "enabled"
          \/ owed.eventType = "plugin.disabled" /\ plugins[p].state = "disabled"

(* What is said of an action, and what a trail says of it.                 *)
ActOfEnabled(trail, act) ==
  LET before == {i \in 1..act.at-1 : trail[i].plugin = act.plugin /\ IsChange(trail[i])}
      installs == {i \in before : trail[i].eventType = "plugin.installed"}
  IN  act.told =>
        /\ installs # {}
        /\ trail[LastOf(installs)].params = ParamsOf(act.manifest)
        /\ trail[LastOf(before)].eventType = "plugin.enabled"
ActOfKnown(act) ==
  (/\ act.rules = "default"
   /\ \/ ~act.known
      \/ /\ act.context.sessionModes = "readonly"
         /\ act.context.principalTypes # "system")
    => act.manifest.riskClass = "A"

ActsRightly(trail, act) ==
  act.at \leq Len(trail) /\ ActOfEnabled(trail, act) /\ ActOfKnown(act)

(* The invariant that is inductive: between a change and its record the    *)
(* trail may be behind the plugin that changed, and that only.             *)
IInv ==
  /\ TypeOK
  /\ \A p \in PluginIds \ untold : (owed = NoRecord \/ owed.plugin # p) => TrailKnows(p)
  /\ OwedIsDone
  /\ \A k \in DOMAIN acts : ActsRightly(audit, acts[k])
  /\ principals \cap gone = {}

(* What is said of a plugin is what a record can say.                      *)
LEMMA ParamsAreSayable ==
  /\ NoParams \in Params
  /\ \A m \in Manifests : ParamsOf(m) \in Params
<1>1. NoParams \in Params
  BY DEF NoParams, Params, ToolRiskClass
<1>2. ASSUME NEW m \in Manifests PROVE ParamsOf(m) \in Params
  <2>1. m \in Manifest
    BY PluginsAssumption DEF PluginsAssumption
  <2> QED  BY <2>1 DEF Manifest, ParamsOf, Params
<1> QED  BY <1>1, <1>2

(* An event is a record, and not the absence of one.                       *)
LEMMA EventIsRecord ==
  ASSUME NEW e \in PluginEvent, NEW p \in PluginIds, NEW params \in Params
  PROVE  /\ Event(e, p, params) \in Record
         /\ Event(e, p, params) # NoRecord
         /\ Event(e, p, params).eventType = e /\ Event(e, p, params).plugin = p
         /\ Event(e, p, params).params = params
<1>1. DOMAIN Event(e, p, params) = {"eventType", "plugin", "params"}
  BY DEF Event
<1>2. DOMAIN NoRecord = {}
  BY DEF NoRecord
<1> QED  BY <1>1, <1>2 DEF Event, Record

(* At first there are no plugins, and nothing is told of any.              *)
LEMMA InitKnows == Init => IInv
<1> SUFFICES ASSUME Init PROVE IInv
  OBVIOUS
<1>1. TypeOK
  <2>1. NoPlugins \in [DOMAIN NoPlugins -> Plugin] /\ DOMAIN NoPlugins = {}
    BY DEF NoPlugins
  <2>2. sessions \in [DOMAIN Sessions -> Session]
    BY PluginsAssumption DEF Init, PluginsAssumption, Session
  <2> QED  BY <2>1, <2>2, PluginsAssumption DEF Init, TypeOK, PluginsAssumption
<1>2. \A p \in PluginIds : Told(p) = {}
  BY DEF Init, Told, ChangesOf
<1>3. \A p \in PluginIds : TrailKnows(p)
  BY <1>2 DEF Init, TrailKnows, NoPlugins
<1>4. OwedIsDone
  BY DEF Init, OwedIsDone
<1> QED  BY <1>1, <1>3, <1>4 DEF Init, IInv

-----------------------------------------------------------------------------
(* What a step that leaves the trail alone leaves told.                    *)
LEMMA SameTrail ==
  ASSUME UNCHANGED <<audit, since>>, NEW p
  PROVE  /\ Told(p)' = Told(p) /\ Installs(p)' = Installs(p)
         /\ (/\ p \in DOMAIN plugins <=> p \in DOMAIN plugins'
             /\ p \in DOMAIN plugins => plugins'[p] = plugins[p])
              => (TrailKnows(p) => TrailKnows(p)')
         /\ plugins'[p].manifest = plugins[p].manifest => (VersionTold(p) => VersionTold(p)')
  BY DEF Told, ChangesOf, Installs, VersionTold, TrailKnows

(* What was told before a new record still is; the record adds to what is  *)
(* told of its plugin, if it tells a change.                               *)
LEMMA LongerTrail ==
  ASSUME TypeOK, NEW r \in Record, audit' = Append(audit, r), since' = since, NEW p \in PluginIds
  PROVE  /\ Len(audit') = Len(audit) + 1 /\ audit'[Len(audit) + 1] = r
         /\ \A i \in 1..Len(audit) : audit'[i] = audit[i]
         /\ Told(p) \in SUBSET (1..Len(audit))
         /\ Told(p)' = IF r.plugin = p /\ IsChange(r) THEN Told(p) \cup {Len(audit) + 1} ELSE Told(p)
         /\ Installs(p)' = IF r.plugin = p /\ r.eventType = "plugin.installed"
                            THEN Installs(p) \cup {Len(audit) + 1} ELSE Installs(p)
<1>1. /\ Len(audit) \in Nat /\ Len(audit') = Len(audit) + 1 /\ audit'[Len(audit) + 1] = r
      /\ \A i \in 1..Len(audit) : audit'[i] = audit[i]
      /\ since \in 0..Len(audit)
  BY DEF TypeOK
<1>2. Told(p) \in SUBSET (1..Len(audit))
  BY <1>1 DEF Told, ChangesOf
<1>3. \A i : i \in Told(p)' <=>
        i \in Told(p) \/ (i = Len(audit) + 1 /\ r.plugin = p /\ IsChange(r))
  BY <1>1 DEF Told, ChangesOf, IsChange
<1>4. \A i : i \in Installs(p)' <=>
        i \in Installs(p) \/ (i = Len(audit) + 1 /\ r.plugin = p /\ r.eventType = "plugin.installed")
  BY <1>1, <1>2, <1>3 DEF Installs, IsChange
<1> QED  BY <1>1, <1>2, <1>3, <1>4

(* Records of other plugins, and of invocations, leave told what is told.  *)
LEMMA OtherRecord ==
  ASSUME TypeOK, NEW r \in Record, audit' = Append(audit, r), since' = since,
         NEW p \in PluginIds, r.plugin # p \/ ~IsChange(r), UNCHANGED plugins
  PROVE  /\ VersionTold(p) => VersionTold(p)'
         /\ TrailKnows(p) => TrailKnows(p)'
<1>1. /\ Told(p)' = Told(p) /\ Installs(p)' = Installs(p)
      /\ Told(p) \in SUBSET (1..Len(audit)) /\ Len(audit) \in Nat
      /\ \A i \in 1..Len(audit) : audit'[i] = audit[i]
  BY LongerTrail DEF IsChange, TypeOK
<1>2. Installs(p) \in SUBSET (1..Len(audit))
  BY <1>1 DEF Installs
<1>3. Told(p) # {} => audit'[LastOf(Told(p))] = audit[LastOf(Told(p))]
  BY <1>1, LastExists
<1>4. Installs(p) # {} => audit'[LastOf(Installs(p))] = audit[LastOf(Installs(p))]
  BY <1>1, <1>2, LastExists
<1> QED  BY <1>1, <1>3, <1>4 DEF VersionTold, TrailKnows

(* What was said of an action is said of it by a longer trail.             *)
LEMMA ActStays ==
  ASSUME NEW trail, NEW longer, NEW act, act.at \in Nat,
         Len(trail) \in Nat, Len(longer) \in Nat, Len(trail) \leq Len(longer),
         \A i \in 1..Len(trail) : longer[i] = trail[i], ActsRightly(trail, act)
  PROVE  ActsRightly(longer, act)
<1> DEFINE before == {i \in 1..act.at-1 : trail[i].plugin = act.plugin /\ IsChange(trail[i])}
           installs == {i \in before : trail[i].eventType = "plugin.installed"}
<1>1. act.at \leq Len(trail) /\ ActOfEnabled(trail, act) /\ ActOfKnown(act)
  BY DEF ActsRightly
<1>2. \A i \in 1..act.at-1 : longer[i] = trail[i]
  BY <1>1
<1>3. /\ {i \in 1..act.at-1 : longer[i].plugin = act.plugin /\ IsChange(longer[i])} = before
      /\ {i \in before : longer[i].eventType = "plugin.installed"} = installs
  BY <1>2
<1>4. before \in SUBSET (1..act.at-1) /\ installs \in SUBSET (1..act.at-1)
  OBVIOUS
<1>5. act.at \in Nat /\ (installs # {} => act.at - 1 \in Nat)
  BY <1>4
<1>6. installs # {} => before # {}
  OBVIOUS
<1>7. ActOfEnabled(longer, act)
  <2> SUFFICES ASSUME act.told
               PROVE  /\ installs # {}
                      /\ longer[LastOf(installs)].params = ParamsOf(act.manifest)
                      /\ longer[LastOf(before)].eventType = "plugin.enabled"
    BY <1>3 DEF ActOfEnabled
  <2>1. /\ installs # {}
        /\ trail[LastOf(installs)].params = ParamsOf(act.manifest)
        /\ trail[LastOf(before)].eventType = "plugin.enabled"
    BY <1>1 DEF ActOfEnabled
  <2> HIDE DEF before, installs
  <2>2. LastOf(installs) \in 1..act.at-1 /\ LastOf(before) \in 1..act.at-1
    BY <1>4, <1>5, <1>6, <2>1, LastExists
  <2> QED  BY <1>2, <2>1, <2>2
<1> QED  BY <1>1, <1>7 DEF ActsRightly

(* The actions carried out so far are told of as before.                   *)
LEMMA ActsStay ==
  ASSUME IInv, UNCHANGED acts,
         audit' = audit \/ \E r \in Record : audit' = Append(audit, r)
  PROVE  \A k \in DOMAIN acts' : ActsRightly(audit', acts'[k])
<1> SUFFICES ASSUME NEW k \in DOMAIN acts
             PROVE  ActsRightly(audit', acts[k])
  OBVIOUS
<1>1. acts[k] \in Act
  BY DEF IInv, TypeOK
<1>2. acts[k].at \in Nat
  BY <1>1 DEF Act
<1>3. /\ Len(audit) \in Nat /\ Len(audit') \in Nat /\ Len(audit) \leq Len(audit')
      /\ \A i \in 1..Len(audit) : audit'[i] = audit[i]
  BY DEF IInv, TypeOK
<1>4. ActsRightly(audit, acts[k])
  BY DEF IInv
<1> QED  BY <1>2, <1>3, <1>4, ActStays

-----------------------------------------------------------------------------
(* A handler has changed the plugin p only, and is about to tell.          *)
LEMMA ChangeKnows ==
  ASSUME IInv, NEW p \in PluginIds, NEW changed, NEW r \in Record, Changes(changed, r),
         r # NoRecord, r.plugin = p,
         DOMAIN changed \subseteq PluginIds, changed \in [DOMAIN changed -> Plugin],
         \A q \in PluginIds \ {p} :
            /\ q \in DOMAIN plugins <=> q \in DOMAIN changed
            /\ q \in DOMAIN plugins => changed[q] = plugins[q],
         OwedIsDone'
  PROVE  IInv'
<1>1. /\ owed = NoRecord /\ plugins' = changed /\ owed' = r
      /\ UNCHANGED <<hasStore, environment, audit, acts, since, untold, restarts>>
  BY DEF Changes, Idle
<1>2. TypeOK'
  BY <1>1 DEF IInv, TypeOK, environment
<1>3. ASSUME NEW q \in PluginIds \ untold', q # p
      PROVE  TrailKnows(q)'
  <2>1. TrailKnows(q) /\ UNCHANGED <<audit, since>>
    BY <1>1, <1>3 DEF IInv
  <2>2. /\ q \in DOMAIN plugins <=> q \in DOMAIN plugins'
        /\ q \in DOMAIN plugins => plugins'[q] = plugins[q]
    <3>1. q \in PluginIds \ {p} /\ plugins' = changed
      BY <1>1, <1>3
    <3> QED  BY <3>1
  <2> QED  BY <2>1, <2>2, SameTrail
<1>4. \A k \in DOMAIN acts' : ActsRightly(audit', acts'[k])
  BY <1>1, ActsStay
<1> QED  BY <1>1, <1>2, <1>3, <1>4 DEF IInv, environment

(* What is installed is there, and not enabled.                            *)
LEMMA InstallKnows ==
  ASSUME IInv, NEW p \in PluginIds, NEW m \in Manifests, Install(p, m)
  PROVE  IInv'
<1> DEFINE changed == Put(p, [manifest |-> m, state |-> "installed"])
           r == Event("plugin.installed", p, ParamsOf(m))
<1>1. Changes(changed, r) /\ plugins' = changed /\ owed' = r /\ UNCHANGED <<audit, untold>>
        /\ Len(audit) < MaxRecords
  BY DEF Install, Changes, Idle
<1>2. /\ r \in Record /\ r # NoRecord /\ r.eventType = "plugin.installed" /\ r.plugin = p
      /\ r.params = ParamsOf(m)
  BY ParamsAreSayable, EventIsRecord DEF PluginEvent
<1>3. /\ DOMAIN changed = DOMAIN plugins \cup {p} /\ changed \in [DOMAIN changed -> Plugin]
      /\ changed[p] = [manifest |-> m, state |-> "installed"]
      /\ \A q \in DOMAIN plugins \ {p} : changed[q] = plugins[q]
  BY DEF IInv, TypeOK, Put, Plugin, PluginState
<1>4. DOMAIN plugins \subseteq PluginIds
  BY DEF IInv, TypeOK
<1> HIDE DEF changed, r
<1>5. OwedIsDone'
  BY <1>1, <1>2, <1>3 DEF OwedIsDone
<1> QED  BY <1>1, <1>2, <1>3, <1>4, <1>5, ChangeKnows

(* A plugin that is enabled or disabled keeps its manifest.                *)
LEMMA SetStateKnows ==
  ASSUME IInv, NEW p \in PluginIds, NEW state \in {"enabled", "disabled"}, SetState(p, state)
  PROVE  IInv'
<1> DEFINE changed == Put(p, [plugins[p] EXCEPT !.state = state])
           e == IF state = "enabled" THEN "plugin.enabled" ELSE "plugin.disabled"
           r == Event(e, p, NoParams)
<1>1. /\ p \in DOMAIN plugins /\ Changes(changed, r) /\ plugins' = changed /\ owed' = r
      /\ UNCHANGED <<audit, untold, since>> /\ Len(audit) < MaxRecords /\ owed = NoRecord
  BY DEF SetState, Changes, Idle
<1>2. /\ r \in Record /\ r # NoRecord /\ r.eventType = e /\ r.plugin = p
  BY ParamsAreSayable, EventIsRecord DEF PluginEvent
<1>3. /\ plugins[p] \in Plugin
      /\ DOMAIN changed = DOMAIN plugins /\ changed[p] = [plugins[p] EXCEPT !.state = state]
      /\ \A q \in DOMAIN plugins \ {p} : changed[q] = plugins[q]
  BY <1>1 DEF IInv, TypeOK, Put
<1>4. /\ changed[p] \in Plugin /\ changed[p].manifest = plugins[p].manifest
      /\ changed[p].state = state
  BY <1>3 DEF Plugin, PluginState
<1>5. changed \in [DOMAIN changed -> Plugin] /\ DOMAIN plugins \subseteq PluginIds
  BY <1>3, <1>4 DEF IInv, TypeOK, Put
<1> HIDE DEF changed, r
<1>6. p \in untold \/ VersionTold(p)
  BY <1>1 DEF IInv, TrailKnows
<1>7. p \in untold' \/ VersionTold(p)'
  BY <1>1, <1>4, <1>6, SameTrail
<1>8. OwedIsDone'
  BY <1>1, <1>2, <1>3, <1>4, <1>7 DEF OwedIsDone
<1> QED  BY <1>1, <1>2, <1>3, <1>5, <1>8, ChangeKnows

(* What is removed is not there.                                           *)
LEMMA RemoveKnows ==
  ASSUME IInv, NEW p \in PluginIds, Remove(p)
  PROVE  IInv'
<1> DEFINE changed == [q \in DOMAIN plugins \ {p} |-> plugins[q]]
           r == Event("plugin.removed", p, NoParams)
<1>1. Changes(changed, r) /\ plugins' = changed /\ owed' = r /\ UNCHANGED <<audit, untold>>
        /\ Len(audit) < MaxRecords
  BY DEF Remove, Changes, Idle
<1>2. /\ r \in Record /\ r # NoRecord /\ r.eventType = "plugin.removed" /\ r.plugin = p
  BY ParamsAreSayable, EventIsRecord DEF PluginEvent
<1>3. /\ DOMAIN changed = DOMAIN plugins \ {p} /\ changed \in [DOMAIN changed -> Plugin]
      /\ \A q \in DOMAIN plugins \ {p} : changed[q] = plugins[q]
      /\ DOMAIN plugins \subseteq PluginIds
  BY DEF IInv, TypeOK
<1> HIDE DEF changed, r
<1>4. OwedIsDone'
  BY <1>1, <1>2, <1>3 DEF OwedIsDone
<1> QED  BY <1>1, <1>2, <1>3, <1>4, ChangeKnows

(* The record is written, and tells what was done.                         *)
LEMMA WriteRecordKnows ==
  ASSUME IInv, WriteRecord
  PROVE  IInv'
<1>1. PICK o \in Record : owed = o
  BY DEF WriteRecord, IInv, TypeOK
<1>2. PICK p \in PluginIds : p = o.plugin
  BY DEF Record
<1>3. PICK n \in Nat : n = Len(audit) /\ n < MaxRecords /\ since \in 0..n
  <2>1. Len(audit) \in Nat /\ since \in 0..Len(audit)
    BY DEF IInv, TypeOK
  <2>2. Len(audit) < MaxRecords
    BY DEF WriteRecord, IInv, OwedIsDone
  <2> QED  BY <2>1, <2>2
<1>4. /\ audit' = Append(audit, o) /\ owed' = NoRecord /\ owed # NoRecord
      /\ untold' = IF o.eventType \in {"plugin.installed", "plugin.removed"}
                     THEN untold \ {p} ELSE untold
      /\ UNCHANGED <<hasStore, plugins, environment, acts, since, restarts>>
  BY <1>1, <1>2 DEF WriteRecord
<1>5. /\ TypeOK
      /\ \A q \in PluginIds \ untold : q # p => TrailKnows(q)
      /\ OwedIsDone
  BY <1>1, <1>2 DEF IInv
<1>6. TypeOK'
  <2>1. audit' \in Seq(Record) /\ Len(audit') = n + 1
    BY <1>3, <1>4 DEF IInv, TypeOK
  <2>2. Len(audit') \leq MaxRecords /\ since' \in 0..Len(audit')
    BY <1>3, <1>4, <2>1, PluginsAssumption DEF PluginsAssumption
  <2> QED  BY <1>4, <2>1, <2>2 DEF IInv, TypeOK, environment
<1>7. OwedIsDone'
  BY <1>4 DEF OwedIsDone
<1>8. \A k \in DOMAIN acts' : ActsRightly(audit', acts'[k])
  BY <1>4, ActsStay
<1>9. ASSUME NEW q \in PluginIds \ untold', q # p
      PROVE  TrailKnows(q)'
  <2>1. TrailKnows(q) /\ o.plugin # q
    BY <1>2, <1>4, <1>5, <1>9
  <2>2. since' = since /\ UNCHANGED plugins
    BY <1>4
  <2> QED  BY <1>4, <1>5, <2>1, <2>2, OtherRecord
<1>10. ASSUME p \notin untold'
       PROVE  TrailKnows(p)'
  <2>1. \/ o.eventType = "plugin.removed" /\ p \notin DOMAIN plugins
        \/ /\ o.eventType = "plugin.installed" /\ p \in DOMAIN plugins
           /\ plugins[p].state = "installed" /\ o.params = ParamsOf(plugins[p].manifest)
        \/ /\ p \in DOMAIN plugins /\ VersionTold(p)
           /\ \/ o.eventType = "plugin.enabled" /\ plugins[p].state = "enabled"
              \/ o.eventType = "plugin.disabled" /\ plugins[p].state = "disabled"
    BY <1>1, <1>2, <1>4, <1>5, <1>10 DEF OwedIsDone
  <2>2. IsChange(o) /\ since' = since
    BY <1>4, <2>1 DEF IsChange
  <2>3. /\ Len(audit') = n + 1 /\ audit'[n + 1] = o
        /\ Told(p) \in SUBSET (1..n) /\ Told(p)' = Told(p) \cup {n + 1}
        /\ Installs(p)' = IF o.eventType = "plugin.installed"
                            THEN Installs(p) \cup {n + 1} ELSE Installs(p)
        /\ \A i \in 1..n : audit'[i] = audit[i]
    BY <1>2, <1>3, <1>4, <1>5, <2>2, LongerTrail
  <2>4. LastOf(Told(p)') = n + 1 /\ Told(p)' # {}
    <3>1. Told(p)' \in SUBSET (1..n+1) /\ n + 1 \in Told(p)' /\ n + 1 \in Nat
      BY <2>3
    <3>2. \A j \in Told(p)' : j \leq n + 1
      BY <3>1
    <3> QED  BY <3>1, <3>2, LastIs
  <2>5. Installs(p) \in SUBSET (1..n)
    BY <2>3 DEF Installs
  <2>6. CASE o.eventType = "plugin.removed"
    <3>1. p \notin DOMAIN plugins'
      BY <1>4, <2>1, <2>6
    <3> QED  BY <2>3, <2>4, <2>6, <3>1 DEF TrailKnows
  <2>7. CASE o.eventType = "plugin.installed"
    <3>1. LastOf(Installs(p)') = n + 1 /\ Installs(p)' # {}
      <4>1. Installs(p)' \in SUBSET (1..n+1) /\ n + 1 \in Installs(p)' /\ n + 1 \in Nat
        BY <2>3, <2>5, <2>7
      <4>2. \A j \in Installs(p)' : j \leq n + 1
        BY <4>1
      <4> QED  BY <4>1, <4>2, LastIs
    <3>2. /\ p \in DOMAIN plugins' /\ plugins'[p].state = "installed"
          /\ o.params = ParamsOf(plugins'[p].manifest)
      BY <1>4, <2>1, <2>7
    <3>3. VersionTold(p)'
      BY <2>3, <3>1, <3>2 DEF VersionTold
    <3> QED  BY <2>3, <2>4, <2>7, <3>2, <3>3 DEF TrailKnows
  <2>8. CASE o.eventType \notin {"plugin.removed", "plugin.installed"}
    <3>1. /\ p \in DOMAIN plugins' /\ plugins' = plugins /\ VersionTold(p)
          /\ \/ o.eventType = "plugin.enabled" /\ plugins'[p].state = "enabled"
             \/ o.eventType = "plugin.disabled" /\ plugins'[p].state = "disabled"
      BY <1>4, <2>1, <2>8
    <3>2. LastOf(Installs(p)) \in 1..n
      <4>1. Installs(p) # {}
        BY <3>1 DEF VersionTold
      <4> QED  BY <2>5, <4>1, LastExists
    <3>3. VersionTold(p)'
      BY <2>3, <2>8, <3>1, <3>2 DEF VersionTold
    <3> QED  BY <2>3, <2>4, <3>1, <3>3 DEF TrailKnows
  <2> QED  BY <2>6, <2>7, <2>8
<1> QED
  <2>1. \A q \in PluginIds \ untold' : TrailKnows(q)'
    BY <1>9, <1>10
  <2> QED  BY <1>4, <1>6, <1>7, <1>8, <2>1 DEF IInv, environment

(* An invocation is told, which changes no plugin.                         *)
LEMMA TellsKnows ==
  ASSUME IInv, NEW p \in PluginIds,
         NEW e \in {"plugin.capability.denied", "plugin.action.denied", "plugin.action"},
         Tells(e, p), acts' \in Seq(Act),
         \A k \in DOMAIN acts' : ActsRightly(audit', acts'[k])
  PROVE  IInv'
<1> DEFINE r == Event(e, p, NoParams)
<1>1. /\ owed = NoRecord /\ Len(audit) < MaxRecords /\ audit' = Append(audit, r)
      /\ UNCHANGED <<hasStore, plugins, environment, owed, since, untold, restarts>>
  BY DEF Tells, Idle
<1>2. r \in Record /\ r.eventType = e
  BY ParamsAreSayable, EventIsRecord DEF PluginEvent
<1> HIDE DEF r
<1>3. TypeOK'
  <2>1. audit' \in Seq(Record) /\ Len(audit') = Len(audit) + 1 /\ Len(audit) \in Nat
    BY <1>1, <1>2 DEF IInv, TypeOK
  <2> QED  BY <1>1, <2>1, PluginsAssumption DEF IInv, TypeOK, environment, PluginsAssumption
<1>4. ASSUME NEW q \in PluginIds \ untold'
      PROVE  TrailKnows(q)'
  <2>1. TrailKnows(q) /\ ~IsChange(r)
    BY <1>1, <1>2, <1>4 DEF IInv, IsChange
  <2> QED  BY <1>1, <1>2, <2>1, OtherRecord DEF IInv
<1>5. OwedIsDone'
  BY <1>1 DEF OwedIsDone
<1> QED  BY <1>1, <1>3, <1>4, <1>5 DEF IInv, environment

(* A refusal is told, and nothing is done.                                 *)
LEMMA RefusedKnows ==
  ASSUME IInv, NEW p \in PluginIds, NEW capability \in Capabilities,
         \/ InvokeUndeclared(p, capability)
         \/ \E s \in DOMAIN Sessions : InvokeDenied(p, s, capability)
  PROVE  IInv'
<1>1. /\ UNCHANGED acts
      /\ \E e \in {"plugin.capability.denied", "plugin.action.denied"} : Tells(e, p)
  BY DEF InvokeUndeclared, InvokeDenied
<1>2. PICK e \in {"plugin.capability.denied", "plugin.action.denied"} : Tells(e, p)
  BY <1>1
<1>3. \E r \in Record : audit' = Append(audit, r)
  BY <1>2, ParamsAreSayable, EventIsRecord DEF Tells, PluginEvent
<1>4. acts' \in Seq(Act) /\ \A k \in DOMAIN acts' : ActsRightly(audit', acts'[k])
  BY <1>1, <1>3, ActsStay DEF IInv, TypeOK
<1> QED  BY <1>2, <1>4, TellsKnows

-----------------------------------------------------------------------------
(* The first of the rules that matches decides.                            *)
LEMMA FirstDecides ==
  ASSUME NEW list, NEW ctx, NEW n \in DOMAIN list, DOMAIN list \subseteq Nat \ {0},
         \A i \in 1..n-1 : i \in DOMAIN list, IsFirstMatch(list, ctx, n)
  PROVE  Evaluate(list, ctx) = BuildDecision(list[n], ctx)
<1>1. ASSUME NEW i \in DOMAIN list, IsFirstMatch(list, ctx, i)
      PROVE  i = n
  <2>1. i \in Nat /\ n \in Nat /\ i > 0 /\ n > 0
    OBVIOUS
  <2>2. ~(i < n) /\ ~(n < i)
    BY <1>1, <2>1 DEF IsFirstMatch
  <2> QED  BY <2>1, <2>2
<1>2. (CHOOSE i \in DOMAIN list : IsFirstMatch(list, ctx, i)) = n
  BY <1>1
<1>3. \E i \in DOMAIN list : MatchesRule(list[i], ctx)
  BY DEF IsFirstMatch
<1> QED  BY <1>2, <1>3 DEF Evaluate

(* The default rules deny all but reading to a principal of low trust, and *)
(* in a readonly session, to any principal but the system.                 *)
LEMMA DefaultDenies ==
  ASSUME NEW ctx \in Context, ctx.principalTypes # "system", ctx.riskClasses # "A",
         ctx.trustLevels = "low" \/ ctx.sessionModes = "readonly"
  PROVE  Evaluate(DEFAULT_POLICY_RULES, ctx).mode = "deny"
<1> DEFINE list == DEFAULT_POLICY_RULES
<1>1. /\ DOMAIN list = 1..12
      /\ list[1].match = [principalTypes |-> {"system"}]
      /\ list[2].match = [sessionModes |-> {"readonly"}, riskClasses |-> AboveReadOnly]
      /\ list[3].match = [riskClasses |-> AboveReadOnly, trustLevels |-> {"low"}]
      /\ list[2].effect = "deny" /\ list[3].effect = "deny"
  <2>1. DOMAIN list = 1..12
    BY DEF DEFAULT_POLICY_RULES
  <2>2. list[1].match = [principalTypes |-> {"system"}]
    BY DEF DEFAULT_POLICY_RULES, Rule
  <2>3. /\ list[2].match = [sessionModes |-> {"readonly"}, riskClasses |-> AboveReadOnly]
        /\ list[2].effect = "deny"
    BY DEF DEFAULT_POLICY_RULES, Rule
  <2>4. /\ list[3].match = [riskClasses |-> AboveReadOnly, trustLevels |-> {"low"}]
        /\ list[3].effect = "deny"
    BY DEF DEFAULT_POLICY_RULES, Rule, ClassesFor
  <2> QED  BY <2>1, <2>2, <2>3, <2>4
<1>2. ctx.riskClasses \in AboveReadOnly
  BY DEF Context, AboveReadOnly
<1> HIDE DEF list
<1>3. ~MatchesRule(list[1], ctx)
  BY <1>1 DEF MatchesRule, Passes
<1>4. CASE ctx.sessionModes = "readonly"
  <2>1. MatchesRule(list[2], ctx)
    BY <1>1, <1>2, <1>4 DEF MatchesRule, Passes
  <2>2. IsFirstMatch(list, ctx, 2)
    BY <1>3, <2>1 DEF IsFirstMatch
  <2>3. Evaluate(list, ctx) = BuildDecision(list[2], ctx)
    BY <1>1, <2>2, FirstDecides
  <2> QED  BY <1>1, <2>3 DEF BuildDecision, list
<1>5. CASE ctx.sessionModes # "readonly"
  <2>1. ~MatchesRule(list[2], ctx)
    BY <1>1, <1>5 DEF MatchesRule, Passes
  <2>2. MatchesRule(list[3], ctx)
    BY <1>1, <1>2, <1>5 DEF MatchesRule, Passes
  <2>3. IsFirstMatch(list, ctx, 3)
    BY <1>3, <2>1, <2>2 DEF IsFirstMatch
  <2>4. Evaluate(list, ctx) = BuildDecision(list[3], ctx)
    BY <1>1, <2>3, FirstDecides
  <2> QED  BY <1>1, <2>4 DEF BuildDecision, list
<1> QED  BY <1>4, <1>5

(* What acts is the version installed last, which was enabled since.       *)
LEMMA ActsEnabled ==
  ASSUME IInv, owed = NoRecord, NEW r \in Record, audit' = Append(audit, r),
         NEW p \in PluginIds, Enabled(p), NEW act,
         act.at = Len(audit) + 1, act.told <=> p \notin untold,
         act.plugin = p, act.manifest = plugins[p].manifest
  PROVE  ActOfEnabled(audit', act)
<1> DEFINE n == Len(audit)
           before == {i \in 1..n : audit[i].plugin = p /\ IsChange(audit[i])}
           installs == {i \in before : audit[i].eventType = "plugin.installed"}
<1>1. /\ n \in Nat /\ since \in 0..n
      /\ \A i \in 1..n : audit'[i] = audit[i]
  BY DEF IInv, TypeOK
<1>2. /\ {i \in 1..act.at-1 : audit'[i].plugin = act.plugin /\ IsChange(audit'[i])} = before
      /\ {i \in before : audit'[i].eventType = "plugin.installed"} = installs
  BY <1>1
<1> SUFFICES ASSUME p \notin untold
             PROVE  /\ installs # {}
                    /\ audit'[LastOf(installs)].params = ParamsOf(plugins[p].manifest)
                    /\ audit'[LastOf(before)].eventType = "plugin.enabled"
  BY <1>2 DEF ActOfEnabled
<1>3. TrailKnows(p) /\ p \in DOMAIN plugins /\ plugins[p].state = "enabled"
  BY DEF IInv, Enabled
<1>4. /\ Told(p) # {} /\ Installs(p) # {}
      /\ audit[LastOf(Installs(p))].params = ParamsOf(plugins[p].manifest)
      /\ audit[LastOf(Told(p))].eventType = "plugin.enabled"
  BY <1>3 DEF TrailKnows, VersionTold
<1>5. /\ Told(p) \in SUBSET (1..n) /\ Installs(p) \in SUBSET (1..n)
      /\ Told(p) \subseteq before /\ Installs(p) \subseteq installs
      /\ before \in SUBSET (1..n) /\ installs \in SUBSET (1..n)
  BY <1>1 DEF Told, ChangesOf, Installs
<1>6. /\ \A i \in before : i \in Told(p) \/ i \leq since
      /\ \A i \in installs : i \in Installs(p) \/ i \leq since
      /\ \A i \in Told(p) : since < i
      /\ \A i \in Installs(p) : since < i
  BY <1>1 DEF Told, ChangesOf, Installs
<1> HIDE DEF n, before, installs
<1>7. /\ LastOf(Told(p)) \in Told(p) /\ \A j \in Told(p) : j \leq LastOf(Told(p))
      /\ LastOf(Installs(p)) \in Installs(p)
      /\ \A j \in Installs(p) : j \leq LastOf(Installs(p))
  BY <1>1, <1>4, <1>5, LastExists
<1>8. /\ \A j \in before : j \leq LastOf(Told(p))
      /\ \A j \in installs : j \leq LastOf(Installs(p))
  BY <1>1, <1>5, <1>6, <1>7
<1>9. LastOf(before) = LastOf(Told(p))
  BY <1>1, <1>5, <1>7, <1>8, LastIs
<1>10. LastOf(installs) = LastOf(Installs(p))
  BY <1>1, <1>5, <1>7, <1>8, LastIs
<1> QED  BY <1>1, <1>4, <1>5, <1>7, <1>9, <1>10

(* Who is not known is taken for a user of low trust.                      *)
LEMMA ActsKnown ==
  ASSUME IInv, NEW p \in DOMAIN plugins, NEW s \in DOMAIN Sessions,
         NEW capability \in Capabilities, Permitted(p, s, capability)
  PROVE  /\ InvokeContext(p, s, capability) \in Context
         /\ (/\ rules = "default"
             /\ \/ Sessions[s] \notin principals \ gone
                \/ /\ InvokeContext(p, s, capability).sessionModes = "readonly"
                   /\ InvokeContext(p, s, capability).principalTypes # "system")
               => plugins[p].manifest.riskClass = "A"
<1> DEFINE ctx == InvokeContext(p, s, capability)
<1>1. /\ p \in PluginIds /\ plugins[p].manifest \in Manifests
      /\ sessions[s] \in Session /\ principals \subseteq DOMAIN Principals
      /\ principals \cap gone = {}
  BY DEF IInv, TypeOK, Plugin
<1>2. plugins[p].manifest.riskClass \in ToolRiskClass
  BY <1>1, PluginsAssumption DEF PluginsAssumption, Manifest
<1>3. /\ EffectivePrincipal(Sessions[s]) \in Profile
      /\ Sessions[s] \notin principals =>
           EffectivePrincipal(Sessions[s]) =
             [type |-> "user", trustLevel |-> "low", policyGroup |-> "default"]
  <2>1. [type |-> "user", trustLevel |-> "low", policyGroup |-> "default"] \in Profile
    BY PluginsAssumption DEF PluginsAssumption, Profile, PrincipalType, TrustLevel
  <2>2. \A id \in principals : Principals[id] \in Profile
    BY <1>1, PluginsAssumption DEF PluginsAssumption
  <2> QED  BY <2>1, <2>2 DEF EffectivePrincipal
<1>4. /\ ctx \in Context /\ ctx.riskClasses = plugins[p].manifest.riskClass
      /\ ctx.principalTypes = EffectivePrincipal(Sessions[s]).type
      /\ ctx.trustLevels = EffectivePrincipal(Sessions[s]).trustLevel
  <2>1. /\ EffectivePrincipal(Sessions[s]).type \in PrincipalType
        /\ EffectivePrincipal(Sessions[s]).trustLevel \in TrustLevel
        /\ EffectivePrincipal(Sessions[s]).policyGroup \in PolicyGroups
    BY <1>3 DEF Profile
  <2>2. sessions[s].mode \in SessionMode /\ sessions[s].elevationState \in BOOLEAN
    BY <1>1 DEF Session
  <2> QED  BY <1>1, <1>2, <2>1, <2>2 DEF InvokeContext, Context
<1>5. Evaluate(Rulesets[rules], ctx).mode # "deny"
  BY DEF Permitted
<1> HIDE DEF ctx
<1>6. ASSUME rules = "default",
             \/ Sessions[s] \notin principals \ gone
             \/ ctx.sessionModes = "readonly" /\ ctx.principalTypes # "system"
      PROVE  ctx.riskClasses = "A"
  <2>1. Evaluate(DEFAULT_POLICY_RULES, ctx).mode # "deny"
    BY <1>5, <1>6, PluginsAssumption DEF PluginsAssumption
  <2>2. Sessions[s] \notin principals => ctx.principalTypes = "user" /\ ctx.trustLevels = "low"
    BY <1>3, <1>4
  <2>3. /\ ctx.principalTypes # "system"
        /\ ctx.trustLevels = "low" \/ ctx.sessionModes = "readonly"
    BY <1>1, <1>6, <2>2
  <2> QED  BY <1>4, <2>1, <2>3, DefaultDenies
<1> QED  BY <1>4, <1>6 DEF ctx

(* An action is carried out by an enabled version, under the rules in force.*)
LEMMA InvokeActsKnows ==
  ASSUME IInv, NEW p \in PluginIds, NEW s \in DOMAIN Sessions, NEW capability \in Capabilities,
         InvokeActs(p, s, capability)
  PROVE  IInv'
<1> DEFINE act == [at |-> Len(audit) + 1, told |-> p \notin untold,
                   plugin |-> p, manifest |-> plugins[p].manifest,
                   rules |-> rules, context |-> InvokeContext(p, s, capability),
                   known |-> Sessions[s] \in principals \ gone]
           r == Event("plugin.action", p, NoParams)
<1>1. /\ Enabled(p) /\ Permitted(p, s, capability) /\ Tells("plugin.action", p)
      /\ acts' = Append(acts, act) /\ audit' = Append(audit, r) /\ owed = NoRecord
  BY DEF InvokeActs, Tells, Idle
<1>2. p \in DOMAIN plugins /\ r \in Record
  BY <1>1, ParamsAreSayable, EventIsRecord DEF Enabled, PluginEvent
<1>3. /\ act.at = Len(audit) + 1 /\ (act.told <=> p \notin untold)
      /\ act.plugin = p /\ act.manifest = plugins[p].manifest /\ act.rules = rules
      /\ act.context = InvokeContext(p, s, capability)
      /\ (act.known <=> Sessions[s] \in principals \ gone)
  OBVIOUS
<1>4. act \in Act
  <2>1. /\ Len(audit) + 1 \in Nat /\ plugins[p].manifest \in Manifests
        /\ rules \in DOMAIN Rulesets /\ InvokeContext(p, s, capability) \in Context
    BY <1>1, <1>2, ActsKnown DEF IInv, TypeOK, Plugin
  <2> QED  BY <2>1 DEF Act
<1> HIDE DEF act, r
<1>5. acts' \in Seq(Act) /\ Len(acts') = Len(acts) + 1 /\ acts'[Len(acts) + 1] = act
        /\ (\A k \in 1..Len(acts) : acts'[k] = acts[k]) /\ Len(acts) \in Nat
        /\ DOMAIN acts = 1..Len(acts) /\ DOMAIN acts' = 1..Len(acts')
  BY <1>1, <1>4 DEF IInv, TypeOK
<1>6. ActsRightly(audit', act)
  <2>1. ActOfEnabled(audit', act)
    BY <1>1, <1>2, <1>3, ActsEnabled
  <2>2. ActOfKnown(act)
    BY <1>1, <1>2, <1>3, ActsKnown DEF ActOfKnown
  <2>3. act.at \leq Len(audit')
    BY <1>1, <1>2, <1>3 DEF IInv, TypeOK
  <2> QED  BY <2>1, <2>2, <2>3 DEF ActsRightly
<1>7. ASSUME NEW k \in 1..Len(acts)
      PROVE  ActsRightly(audit', acts[k])
  <2>1. acts[k].at \in Nat /\ ActsRightly(audit, acts[k])
    <3>1. acts[k] \in Act
      BY <1>5, <1>7 DEF IInv, TypeOK
    <3> QED  BY <1>5, <1>7, <3>1 DEF IInv, Act
  <2>2. /\ Len(audit) \in Nat /\ Len(audit') \in Nat /\ Len(audit) \leq Len(audit')
        /\ \A i \in 1..Len(audit) : audit'[i] = audit[i]
    BY <1>1, <1>2 DEF IInv, TypeOK
  <2> QED  BY <2>1, <2>2, ActStays
<1>8. \A k \in DOMAIN acts' : ActsRightly(audit', acts'[k])
  BY <1>5, <1>6, <1>7
<1> QED  BY <1>1, <1>5, <1>8, TellsKnows

-----------------------------------------------------------------------------
(* Principals, sessions and rules come and go; the plugins stay as they are.  *)
LEMMA EnvironmentKnows ==
  ASSUME IInv,
         \/ \E id \in DOMAIN Principals : RegisterPrincipal(id)
         \/ \E s \in DOMAIN Sessions, mode \in PatchModes, elevation \in BOOLEAN :
              PatchSession(s, mode, elevation)
         \/ \E name \in DOMAIN Rulesets : SetRules(name)
  PROVE  IInv'
<1>1. UNCHANGED <<hasStore, plugins, audit, owed, acts, since, untold, restarts>>
  BY DEF RegisterPrincipal, PatchSession, SetRules
<1>2. /\ principals' \subseteq DOMAIN Principals /\ gone' \subseteq DOMAIN Principals
      /\ principals' \cap gone' = {}
  BY DEF RegisterPrincipal, PatchSession, SetRules, IInv, TypeOK
<1>3. sessions' \in [DOMAIN Sessions -> Session]
  <2>1. sessions \in [DOMAIN Sessions -> Session]
    BY DEF IInv, TypeOK
  <2>2. ASSUME NEW s \in DOMAIN Sessions, NEW mode \in PatchModes, NEW elevation \in BOOLEAN,
               PatchSession(s, mode, elevation)
        PROVE  sessions' \in [DOMAIN Sessions -> Session]
    <3>1. [mode |-> mode, elevationState |-> elevation] \in Session
      BY PluginsAssumption DEF PluginsAssumption, Session
    <3> QED  BY <2>1, <2>2, <3>1 DEF PatchSession
  <2> QED  BY <2>1, <2>2 DEF RegisterPrincipal, SetRules
<1>4. rules' \in DOMAIN Rulesets
  BY DEF RegisterPrincipal, PatchSession, SetRules, IInv, TypeOK
<1>5. TypeOK'
  BY <1>1, <1>2, <1>3, <1>4 DEF IInv, TypeOK
<1>6. ASSUME NEW q \in PluginIds \ untold', owed' = NoRecord \/ owed'.plugin # q
      PROVE  TrailKnows(q)'
  BY <1>1, <1>6, SameTrail DEF IInv
<1>7. OwedIsDone'
  <2>1. ASSUME NEW q PROVE VersionTold(q) => VersionTold(q)'
    BY <1>1, SameTrail
  <2> QED  BY <1>1, <2>1 DEF IInv, OwedIsDone
<1>8. \A k \in DOMAIN acts' : ActsRightly(audit', acts'[k])
  BY <1>1 DEF IInv
<1> QED  BY <1>2, <1>5, <1>6, <1>7, <1>8 DEF IInv

(* A stop may cut a change off from its record; what is left of the        *)
(* plugins is the table, or nothing, of which nothing is told.             *)
LEMMA RestartKnows ==
  ASSUME IInv, Restart
  PROVE  IInv'
<1>1. /\ owed' = NoRecord /\ principals' = {} /\ gone' = gone \cup principals
      /\ rules' = "default" /\ restarts' = restarts + 1 /\ restarts < MaxRestarts
      /\ UNCHANGED <<hasStore, sessions, audit, acts>>
  BY DEF Restart
<1>2. OwedIsDone'
  BY <1>1 DEF OwedIsDone
<1>3. \A k \in DOMAIN acts' : ActsRightly(audit', acts'[k])
  BY <1>1 DEF IInv
<1>4. /\ principals' \subseteq DOMAIN Principals /\ gone' \subseteq DOMAIN Principals
      /\ rules' \in DOMAIN Rulesets /\ restarts' \in 0..MaxRestarts
      /\ Len(audit) \in Nat
  BY <1>1, PluginsAssumption DEF IInv, TypeOK, PluginsAssumption
<1>5. CASE hasStore
  <2>1. /\ untold' = IF owed = NoRecord THEN untold ELSE untold \cup {owed.plugin}
        /\ UNCHANGED <<plugins, since>>
    BY <1>5 DEF Restart
  <2>2. TypeOK'
    <3>1. untold' \subseteq PluginIds
      BY <2>1 DEF IInv, TypeOK, Record
    <3> QED  BY <1>1, <1>4, <2>1, <3>1 DEF IInv, TypeOK
  <2>3. ASSUME NEW q \in PluginIds \ untold' PROVE TrailKnows(q)'
    <3>1. q \notin untold /\ (owed = NoRecord \/ owed.plugin # q)
      BY <2>1, <2>3
    <3>2. TrailKnows(q)
      BY <3>1 DEF IInv
    <3> QED  BY <1>1, <2>1, <3>2, SameTrail
  <2> QED  BY <1>1, <1>2, <1>3, <2>2, <2>3 DEF IInv
<1>6. CASE ~hasStore
  <2>1. /\ plugins' = NoPlugins /\ since' = Len(audit) /\ untold' = {}
    BY <1>6 DEF Restart
  <2>2. TypeOK'
    <3>1. NoPlugins \in [DOMAIN NoPlugins -> Plugin] /\ DOMAIN NoPlugins = {}
      BY DEF NoPlugins
    <3> QED  BY <1>1, <1>4, <2>1, <3>1 DEF IInv, TypeOK
  <2>3. ASSUME NEW q \in PluginIds PROVE TrailKnows(q)'
    <3>1. Told(q)' = {}
      BY <1>1, <1>4, <2>1 DEF Told, ChangesOf
    <3> QED  BY <2>1, <3>1 DEF TrailKnows, NoPlugins
  <2> QED  BY <1>1, <1>2, <1>3, <2>2, <2>3 DEF IInv
<1> QED  BY <1>5, <1>6

(* IInv is inductive.                                                      *)
LEMMA StepKnows == IInv /\ [Next]_vars => IInv'
<1> SUFFICES ASSUME IInv, [Next]_vars PROVE IInv'
  OBVIOUS
<1>1. ASSUME NEW p \in PluginIds, NEW m \in Manifests, Install(p, m) PROVE IInv'
  BY <1>1, InstallKnows
<1>2. ASSUME NEW p \in PluginIds, NEW state \in {"enabled", "disabled"}, SetState(p, state)
      PROVE  IInv'
  BY <1>2, SetStateKnows
<1>3. ASSUME NEW p \in PluginIds, Remove(p) PROVE IInv'
  BY <1>3, RemoveKnows
<1>4. CASE WriteRecord
  BY <1>4, WriteRecordKnows
<1>5. ASSUME NEW p \in PluginIds, NEW capability \in Capabilities,
             InvokeUndeclared(p, capability)
      PROVE  IInv'
  BY <1>5, RefusedKnows
<1>6. ASSUME NEW p \in PluginIds, NEW s \in DOMAIN Sessions, NEW capability \in Capabilities,
             InvokeDenied(p, s, capability) \/ InvokeActs(p, s, capability)
      PROVE  IInv'
  BY <1>6, RefusedKnows, InvokeActsKnows
<1>7. CASE \/ \E id \in DOMAIN Principals : RegisterPrincipal(id)
           \/ \E s \in DOMAIN Sessions, mode \in PatchModes, elevation \in BOOLEAN :
              PatchSession(s, mode, elevation)
           \/ \E name \in DOMAIN Rulesets : SetRules(name)
  BY <1>7, EnvironmentKnows
<1>8. CASE Restart
  BY <1>8, RestartKnows
<1>9. CASE UNCHANGED vars
  <2>1. /\ UNCHANGED <<hasStore, plugins, environment, audit, owed, acts, since, untold>>
        /\ UNCHANGED <<principals, sessions, rules, gone, restarts>>
    BY <1>9 DEF vars, environment
  <2>2. TypeOK'
    BY <2>1 DEF IInv, TypeOK
  <2>3. ASSUME NEW q \in PluginIds \ untold', owed' = NoRecord \/ owed'.plugin # q
        PROVE  TrailKnows(q)'
    BY <2>1, <2>3, SameTrail DEF IInv
  <2>4. OwedIsDone'
    <3>1. ASSUME NEW q PROVE VersionTold(q) => VersionTold(q)'
      BY <2>1, SameTrail
    <3> QED  BY <2>1, <3>1 DEF IInv, OwedIsDone
  <2> QED  BY <2>1, <2>2, <2>3, <2>4 DEF IInv
<1> QED  BY <1>1, <1>2, <1>3, <1>4, <1>5, <1>6, <1>7, <1>8, <1>9 DEF Next

-----------------------------------------------------------------------------
(* Plugins, acts and the trail have the form TypeOK gives them.            *)
THEOREM TypeCorrect == Spec => []TypeOK
<1>1. IInv => TypeOK
  BY DEF IInv
<1> QED  BY <1>1, InitKnows, StepKnows, PTL DEF Spec

(* The trail of plugin events tells which plugins there are, in which      *)
(* version and state, all but those a change of which a stop of the        *)
(* process cut off from its record.                                        *)
THEOREM TrailHolds == Spec => []TrailTellsPlugins
<1>1. IInv => TrailTellsPlugins
  BY DEF IInv, TrailTellsPlugins, TrailKnows, TrailTells, VersionTold, Told, Installs
<1> QED  BY <1>1, InitKnows, StepKnows, PTL DEF Spec

(* A plugin acts only in the version installed last, and enabled since.    *)
THEOREM UpgradesHold == Spec => []UpgradesAreEnabledAnew
<1>1. IInv => UpgradesAreEnabledAnew
  BY DEF IInv, UpgradesAreEnabledAnew, ActsRightly, ActOfEnabled
<1> QED  BY <1>1, InitKnows, StepKnows, PTL DEF Spec

(* Under the default rules a plugin no more than reads for a principal the *)
(* gateway does not know, and in a readonly session for any but the system. *)
THEOREM ForgottenHold == Spec => []ForgottenPrincipalsOnlyRead
<1>1. IInv => ForgottenPrincipalsOnlyRead
  BY DEF IInv, ForgottenPrincipalsOnlyRead, ActsRightly, ActOfKnown
<1> QED  BY <1>1, InitKnows, StepKnows, PTL DEF Spec
=============================================================================
