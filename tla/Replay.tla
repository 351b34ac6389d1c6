------------------------------- MODULE Replay -------------------------------
(***************************************************************************)
(* The operators' view of the audit trail: the queries of                  *)
(* src/core/audit.ts and the pure functions of src/core/replay.ts.         *)
(*                                                                         *)
(* A trail is a sequence of records in the order in which they were        *)
(* written.  A record has the fields eventType, sessionId, taskId,         *)
(* principalId, toolName, startedAt, policyDecision, runtimeTarget, error, *)
(* budgetRemaining and artifacts, of which those that are absent are None. *)
(***************************************************************************)
EXTENDS Integers, Sequences, FiniteSets, SequencesExt

CONSTANT None   \* a field that is undefined

(* ORDER BY key: a row is listed after the rows of S that come before it,  *)
(* where rows of one key come in the order in which they were written.     *)
ComesBefore(key, i, j) == key[i] < key[j] \/ (key[i] = key[j] /\ i < j)
Place(S, key, i) == Cardinality({j \in S : ComesBefore(key, j, i)}) + 1
RowAt(S, key, k) == CHOOSE i \in S : Place(S, key, i) = k
Listed(rows, S, key) == [k \in 1..Cardinality(S) |-> rows[RowAt(S, key, k)]]

AsWritten(rows) == [i \in DOMAIN rows |-> 0]
Starts(trail) == [i \in DOMAIN trail |-> trail[i].startedAt]
OfSession(trail, s) == {i \in DOMAIN trail : trail[i].sessionId = s}

(* Mutant of QueryBySession: records are listed as they were written.      *)
QueryAsWritten(trail, s) == Listed(trail, OfSession(trail, s), AsWritten(trail))

(* queryBySession(), which lists the records by started_at.                *)
QueryBySession(trail, s) == Listed(trail, OfSession(trail, s), Starts(trail))

(* buildReplayPack(): the records of a session and the artifacts whose     *)
(* provenance is one of the tasks they mention, with what the manifest     *)
(* says of them.                                                           *)
BuildReplayPack(trail, artifactRows, s) ==
  LET records == QueryBySession(trail, s)
      taskIds == {records[i].taskId : i \in DOMAIN records} \ {None}
      budgets == {i \in DOMAIN records : records[i].budgetRemaining # None}
      Count(events) == Cardinality({i \in DOMAIN records : records[i].eventType \in events})
  IN  [auditRecords    |-> records,
       artifacts       |-> {a \in artifactRows : a.provenanceId \in taskIds},
       denialCount     |-> Count({"tool.denied", "policy.denied"}),
       executionCount  |-> Count({"tool.finished"}),
       budgetExhaustedCount |-> Count({"budget.exhausted"}),
       lastKnownBudgetRemaining |->
         IF budgets = {} THEN None
         ELSE records[CHOOSE i \in budgets : \A j \in budgets : j \leq i].budgetRemaining]

-----------------------------------------------------------------------------
InvKey(r) == <<r.taskId, r.toolName, r.principalId>>

Violation(kind, r) == [kind |-> kind, record |-> r]

Closing == {"tool.finished", "tool.error"}
Denying == {"tool.denied", "policy.denied"}
OfKey(starts, r) == {o \in starts : InvKey(o) = InvKey(r)}

(* What a record says that cannot be right, with these starts open.        *)
Objections(starts, r) ==
  (IF r.eventType \in Closing /\ OfKey(starts, r) = {}
     THEN {Violation("orphaned_finished", r)} ELSE {})
    \cup (IF r.eventType \in Denying /\ r.policyDecision = None
             THEN {Violation("denial_without_policy", r)} ELSE {})

(* Mutant of Examine: a start that was closed stays open.                  *)
ExamineLeavingOpen(state, r) ==
  [open |-> IF r.eventType = "tool.started"
              THEN (state.open \ OfKey(state.open, r)) \cup {r} ELSE state.open,
   violations |-> state.violations \cup Objections(state.open, r)]

(* What the loop of checkAuditIntegrity() does with one record: `open` has *)
(* the last start of each key that nothing has closed since.               *)
Examine(state, r) ==
  [open |-> CASE r.eventType = "tool.started" ->
                   (state.open \ OfKey(state.open, r)) \cup {r}
              [] r.eventType \in Closing -> state.open \ OfKey(state.open, r)
              [] OTHER -> state.open,
   violations |-> state.violations \cup Objections(state.open, r)]

(* checkAuditIntegrity().  Nothing writes approval.requested records, and  *)
(* the check of those is left out.                                         *)
CheckAuditIntegrity(records) ==
  LET examined == FoldLeft(Examine, [open |-> {}, violations |-> {}], records)
  IN  examined.violations \cup {Violation("unmatched_started", r) : r \in examined.open}

-----------------------------------------------------------------------------
DiffKey(r) == <<r.eventType, r.toolName, r.taskId>>

(* The fields a matched pair of records is compared in.                    *)
Compared(r) == <<r.error, r.policyDecision, r.runtimeTarget>>

(* Mutant of MatchOne: any record of the key will do, matched or not.      *)
MatchAny(state, place, a, b) ==
  LET candidates == {j \in DOMAIN b : DiffKey(b[j]) = DiffKey(a[place])}
      match == CHOOSE j \in candidates : \A k \in candidates : j \leq k
  IN  IF candidates = {}
      THEN [state EXCEPT !.onlyInA = @ \cup {place}]
      ELSE [state EXCEPT !.matched = @ \cup {match},
                         !.changed = IF Compared(a[place]) # Compared(b[match])
                                       THEN @ \cup {<<place, match>>} ELSE @]

(* What the loop of diffReplayPacks() does with one record of A: it takes  *)
(* the first record of B with its key that is not taken yet.               *)
MatchOne(state, place, a, b) ==
  LET candidates == {j \in DOMAIN b : /\ DiffKey(b[j]) = DiffKey(a[place])
                                      /\ j \notin state.matched}
      match == CHOOSE j \in candidates : \A k \in candidates : j \leq k
  IN  IF candidates = {}
      THEN [state EXCEPT !.onlyInA = @ \cup {place}]
      ELSE [state EXCEPT !.matched = @ \cup {match},
                         !.changed = IF Compared(a[place]) # Compared(b[match])
                                       THEN @ \cup {<<place, match>>} ELSE @]

(* diffReplayPacks(): places in the records of A and of B.                 *)
DiffReplayPacks(a, b) ==
  LET final == FoldLeft(LAMBDA state, place : MatchOne(state, place, a, b),
                        [onlyInA |-> {}, matched |-> {}, changed |-> {}],
                        [i \in DOMAIN a |-> i])
      onlyInB == DOMAIN b \ final.matched
  IN  [onlyInA |-> final.onlyInA, onlyInB |-> onlyInB, changed |-> final.changed,
       identical |-> final.onlyInA = {} /\ onlyInB = {} /\ final.changed = {}]

-----------------------------------------------------------------------------
(* validateReplaySequence(): the places at which a pack departs from what  *)
(* was expected; only as many records are looked at as are expected.       *)
ValidateReplaySequence(records, expected) ==
  {i \in DOMAIN expected :
     \/ i \notin DOMAIN records
     \/ records[i].eventType # expected[i].eventType
     \/ expected[i].toolName # None /\ records[i].toolName # expected[i].toolName
     \/ expected[i].taskId # None /\ records[i].taskId # expected[i].taskId}

(* validateExportBundle(): the counts of the manifest are taken from the   *)
(* same pack; the artifacts whose provenance no record mentions are left.  *)
ValidateExportBundle(pack) ==
  LET knownTaskIds == {pack.auditRecords[i].taskId : i \in DOMAIN pack.auditRecords} \ {None}
  IN  {a \in pack.artifacts : a.provenanceId \notin knownTaskIds}

=============================================================================
