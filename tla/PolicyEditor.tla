---------------------------- MODULE PolicyEditor ----------------------------
(***************************************************************************)
(* The policy editor: the routes under /policy/rules of src/core/gateway.ts *)
(* over the rule table of src/core/policy-store.ts and the list of rules   *)
(* the engine of src/core/policy.ts decides by.  A gateway has a table or  *)
(* does without; each route is synchronous, so it is one step.             *)
(*                                                                         *)
(* Of a rule only its id matters here, and whether its contents changed.   *)
(* The table lists its rows in the order they were inserted, which is that *)
(* of created_at; an update leaves a row where it is.                      *)
(***************************************************************************)
EXTENDS Integers, Sequences, FiniteSets, SequencesExt

CONSTANTS
  Ids,           \* ids of rules
  Bodies,        \* what else a rule may contain
  DefaultRules,  \* DEFAULT_POLICY_RULES
  Orders,        \* the orders clients give
  Bundles,       \* rule sets clients import, other than exported ones
  NoOrder,       \* the order field of a request is absent
  MaxEdits,      \* bound: requests that change rules
  MaxRestarts    \* bound: how often the process is restarted

Rule == [id : Ids, body : Bodies]
Draft == [id : Ids, body : Bodies, order : Int \cup {NoOrder}]

ASSUME EditorAssumption ==
  /\ DefaultRules \in Seq(Rule)
  /\ Orders \subseteq Int /\ NoOrder \notin Int
  /\ Bundles \subseteq Seq(Draft)
  /\ MaxRestarts \in Nat

VARIABLES
  hasStore,  \* the gateway has a policyRuleStore
  table,     \* policy_rules
  engine,    \* the rules of the engine
  exported,  \* the rule set a client exported last
  edits,     \* how many requests changed rules
  restarts   \* how often the process was restarted

vars == <<hasStore, table, engine, exported, edits, restarts>>

RuleOf(row) == [id |-> row.id, body |-> row.body]
RulesOf(rows) == [i \in DOMAIN rows |-> RuleOf(rows[i])]
IdsOf(rows) == [i \in DOMAIN rows |-> rows[i].id]
Row(id, body, order) == [id |-> id, body |-> body, order |-> order]
OrderOr(order, default) == IF order = NoOrder THEN default ELSE order

Has(rows, id) == \E i \in DOMAIN rows : rows[i].id = id
IsFirstOf(rows, id, i) == rows[i].id = id /\ \A j \in 1..i-1 : rows[j].id # id

(* The row replaces the first one of its id; without one, it is appended.  *)
Put(rows, row) ==
  IF Has(rows, row.id)
    THEN [i \in DOMAIN rows |-> IF IsFirstOf(rows, row.id, i) THEN row ELSE rows[i]]
    ELSE Append(rows, row)

WithoutId(rows, id) == SelectSeq(rows, LAMBDA row : row.id # id)

(* Mutant: INSERT OR REPLACE, which makes a new row of an old one.         *)
UpsertReplacing(rows, row) == Append(WithoutId(rows, row.id), row)

UpsertRule(rows, row) == Put(rows, row)

(* ORDER BY rule_order ASC, created_at ASC: a row is listed after all that *)
(* come before it.                                                         *)
Before(rows, i, j) ==
  \/ rows[i].order < rows[j].order
  \/ rows[i].order = rows[j].order /\ i < j
Place(rows, i) == Cardinality({j \in DOMAIN rows : Before(rows, j, i)}) + 1
RowAt(rows, k) == CHOOSE i \in DOMAIN rows : Place(rows, i) = k
Sorted(rows) == [k \in DOMAIN rows |-> rows[RowAt(rows, k)]]

ListRules(rows) == RulesOf(Sorted(rows))

(* Mutant of ImportRules: replaces nothing, merges always.                 *)
ImportMerging(rows, bundle, merge) == FoldLeft(UpsertRule, rows, bundle)

ImportRules(rows, bundle, merge) ==
  FoldLeft(UpsertRule, IF merge THEN rows ELSE <<>>, bundle)

(* The import route without a table: a replacing import is taken as it is. *)
ImportInMemory(rules, bundle, merge) ==
  IF merge THEN FoldLeft(Put, rules, RulesOf(bundle)) ELSE RulesOf(bundle)

ExportRules(rows) == Sorted(rows)
ExportInMemory(rules) ==
  [i \in DOMAIN rules |-> Row(rules[i].id, rules[i].body, (i - 1) * 10)]

(* What GET /policy/rules and the export route show.                       *)
Listed == IF hasStore THEN ListRules(table) ELSE engine
Exported == IF hasStore THEN ExportRules(table) ELSE ExportInMemory(engine)

-----------------------------------------------------------------------------
TypeOK ==
  /\ hasStore \in BOOLEAN
  /\ engine \in Seq(Rule)
  /\ RulesOf(table) \in Seq(Rule)
  /\ RulesOf(exported) \in Seq(Rule)
  /\ \A i \in DOMAIN table : table[i].order \in Int
  /\ \A i, j \in DOMAIN table : table[i].id = table[j].id => i = j
  /\ edits \in 0..MaxEdits
  /\ restarts \in 0..MaxRestarts

Init ==
  /\ hasStore \in BOOLEAN
  /\ table = <<>>
  /\ engine = DefaultRules
  /\ exported = <<>>
  /\ edits = 0
  /\ restarts = 0

Edit == edits < MaxEdits /\ edits' = edits + 1 /\ UNCHANGED restarts

(* POST /policy/rules with a rule that passes validatePolicyRule().        *)
Post(id, body, order) ==
  /\ Edit
  /\ IF hasStore
       THEN /\ table' = UpsertRule(table, Row(id, body, OrderOr(order, 100)))
            /\ engine' = ListRules(table')
       ELSE /\ engine' = Put(engine, [id |-> id, body |-> body])
            /\ UNCHANGED table
  /\ UNCHANGED <<hasStore, exported>>

(* DELETE FROM policy_rules WHERE id: the one row of a primary key.         *)
DeleteRule(id) ==
  \E i \in DOMAIN table : table[i].id = id /\ table' = RemoveAt(table, i)

(* Mutant of Delete: the row goes, the engine is not told.                 *)
DeleteFromTable(id) ==
  /\ Edit
  /\ Has(Listed, id)
  /\ IF hasStore
       THEN DeleteRule(id) /\ UNCHANGED engine
       ELSE engine' = WithoutId(engine, id) /\ UNCHANGED table
  /\ UNCHANGED <<hasStore, exported>>

(* DELETE /policy/rules/:id of a rule that is there.                       *)
Delete(id) ==
  /\ Edit
  /\ Has(Listed, id)
  /\ IF hasStore
       THEN /\ DeleteRule(id)
            /\ engine' = ListRules(table')
       ELSE engine' = WithoutId(engine, id) /\ UNCHANGED table
  /\ UNCHANGED <<hasStore, exported>>

(* PUT /policy/rules/reset: the engine only.                               *)
Reset ==
  /\ Edit
  /\ engine' = DefaultRules
  /\ UNCHANGED <<hasStore, table, exported>>

(* GET /policy/rules/export.                                               *)
Export ==
  /\ exported # Exported
  /\ exported' = Exported
  /\ UNCHANGED <<hasStore, table, engine, edits, restarts>>

(* The orders the import route gives to rules that have none.              *)
Numbered(bundle) ==
  [i \in DOMAIN bundle |->
     Row(bundle[i].id, bundle[i].body, OrderOr(bundle[i].order, (i - 1) * 10))]

(* POST /policy/rules/import of a bundle whose rules are all valid.        *)
Import(bundle, merge) ==
  /\ Edit
  /\ IF hasStore
       THEN /\ table' = ImportRules(table, Numbered(bundle), merge)
            /\ engine' = ListRules(table')
       ELSE /\ engine' = ImportInMemory(engine, Numbered(bundle), merge)
            /\ UNCHANGED table
  /\ UNCHANGED <<hasStore, exported>>

(* The process restarts: a new engine has the default rules, the table is  *)
(* on disk, and nothing loads it.                                          *)
Restart ==
  /\ restarts < MaxRestarts
  /\ restarts' = restarts + 1
  /\ engine' = DefaultRules
  /\ UNCHANGED <<hasStore, table, exported, edits>>

Next ==
  \/ \E id \in Ids, body \in Bodies, order \in Orders \cup {NoOrder} : Post(id, body, order)
  \/ \E id \in Ids : Delete(id)
  \/ Reset
  \/ Export
  \/ \E bundle \in Bundles \cup {exported}, merge \in BOOLEAN : Import(bundle, merge)
  \/ Restart

Spec == Init /\ [][Next]_vars

-----------------------------------------------------------------------------
(* With a table, a route that writes it leaves the engine with all of the  *)
(* new listing, also when a reset or a restart had parted the two: no rule *)
(* that was deleted or replaced goes on deciding.  Nothing else moves the  *)
(* engine but a reset and a restart, and these two do leave the table      *)
(* behind: see ListedRulesAreActive.                                       *)
WritesAreInForce ==
  [][hasStore =>
       /\ table' # table => engine' = ListRules(table')
       /\ engine' # engine => engine' = ListRules(table') \/ Reset \/ Restart]_vars

(* "List all active policy rules" (OPERATOR_DOCS.md:498), rules which a    *)
(* table keeps "so they survive restarts" (policy-store.ts:4): once rules  *)
(* are stored, what GET /policy/rules lists is what the engine decides by. *)
(* A reset changes the engine and leaves the listing, and nothing in src/  *)
(* loads the table into the engine of a process that starts.               *)
ListedRulesAreActive == table # <<>> => Listed = engine

(* An export is a backup: whatever edits have followed, importing it in    *)
(* place of the rules brings back the list it was taken from, in order,    *)
(* although orders may be equal and rows were inserted in another order.   *)
ExportRestores ==
  IF hasStore
    THEN ListRules(ImportRules(table, Numbered(exported), FALSE)) = RulesOf(exported)
    ELSE ImportInMemory(engine, Numbered(exported), FALSE) = RulesOf(exported)

(* What the listing is after a rule was posted again with the order it has:*)
(* as it was, although orders may be equal.                                *)
KeepsPlace(id, order) ==
  (IF hasStore
     THEN \E i \in DOMAIN table : table[i].id = id /\ table[i].order = OrderOr(order, 100)
     ELSE Has(engine, id))
   => IdsOf(Listed') = IdsOf(Listed)

(* The engine tries the posted rule after every rule of a lower order and  *)
(* before every rule of a higher one.                                      *)
TakesPlace(id, body, order) ==
  \E k \in DOMAIN engine' :
    /\ engine'[k] = [id |-> id, body |-> body]
    /\ \A i \in DOMAIN table', j \in DOMAIN engine' :
         table'[i].id = engine'[j].id =>
           /\ table'[i].order < OrderOr(order, 100) => j < k
           /\ table'[i].order > OrderOr(order, 100) => j > k

(* "Lower order values fire first" (policy-store.ts:8): a post puts the    *)
(* rule where its order says, whatever edits came before; and editing the  *)
(* text of a rule never changes which rule matches first.                  *)
OrderDecides ==
  [][\A id \in Ids, body \in Bodies, order \in Orders \cup {NoOrder} :
       Post(id, body, order) =>
         /\ KeepsPlace(id, order)
         /\ hasStore => TakesPlace(id, body, order)]_vars
=============================================================================
