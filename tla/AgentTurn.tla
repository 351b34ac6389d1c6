------------------------------ MODULE AgentTurn ------------------------------
(***************************************************************************)
(* AgentRuntime.process() of src/core/agent.ts: the loop of model calls    *)
(* and tool calls of a turn, for several runtimes of one session, each of  *)
(* which may have several turns under way.                                 *)
(*                                                                         *)
(* A runtime keeps the Session object it was constructed with.  Each model *)
(* call is charged to that object, and the caller is asked to store what   *)
(* is left (onBudgetUpdate); the broker charges what a tool used to the    *)
(* session's row.  process() gives up control while the provider and while *)
(* the broker is at work.  Of what is said, only who is to speak is kept.  *)
(***************************************************************************)
EXTENDS Integers

CONSTANTS
  Runtimes,       \* the runtimes constructed for the session
  MaxTurns,       \* bound: how many calls of process() are ever made
  maxRounds,      \* AgentRuntimeOptions.maxRounds
  Responses,      \* what the provider may answer
  TokensUsed,     \* what the worker of a tool may report
  InitialBudget,  \* the row's budget at the start
  PatchBudgets,   \* budgets a client sends to PATCH /sessions/:id
  MaxPatches      \* bound: how often the budget is patched

NoUsage == -1          \* the provider does not report usage
NoSession == -1        \* the runtime is not constructed
NoRuntime == "none"    \* the turn has not begun
Session == "session"   \* the account in used of all that models and tools used
Response == [completionTokens : Nat \cup {NoUsage}, toolCalls : Nat]

ASSUME AgentAssumption ==
  /\ MaxTurns \in Nat /\ maxRounds \in Nat \ {0}
  /\ Responses \subseteq Response
  /\ TokensUsed \subseteq Nat
  /\ InitialBudget \in Nat /\ PatchBudgets \subseteq Nat
  /\ MaxPatches \in Nat
  /\ {Session, NoRuntime} \cap Runtimes = {}

Turns == 1..MaxTurns   \* numbered in the order in which they begin

VARIABLES
  stores,    \* the callers store what onBudgetUpdate tells them
  budget,    \* the budget in the session's row
  copy,      \* Session.budget of each runtime
  runtime,   \* the runtime of each turn
  pc,        \* where each turn is
  rounds,    \* how often each turn called the model
  toolCalls, \* the tool calls of the last response that are not done
  admitted,  \* the broker found budget left for the tool call
  used,      \* history: tokens charged to each runtime and in all
  read,      \* history: the budget each runtime was constructed with
  patches    \* how often the budget was patched

locals == <<runtime, pc, rounds, toolCalls, admitted>>
vars == <<stores, budget, copy, locals, used, read, patches>>

Where == {"idle", "inferring", "dispatching", "answered", "gave_up", "threw"}

TypeOK ==
  /\ stores \in BOOLEAN
  /\ budget \in Nat
  /\ copy \in [Runtimes -> Nat \cup {NoSession}]
  /\ pc \in [Turns -> Where]
  /\ runtime \in [Turns -> Runtimes \cup {NoRuntime}]
  /\ \A t \in Turns : pc[t] # "idle" =>
       runtime[t] \in Runtimes /\ copy[runtime[t]] # NoSession
  /\ rounds \in [Turns -> 0..maxRounds]
  /\ toolCalls \in [Turns -> Nat]
  /\ \A t \in Turns : pc[t] = "dispatching" => toolCalls[t] > 0
  /\ admitted \in [Turns -> BOOLEAN]
  /\ used \in [Runtimes \cup {Session} -> Nat]
  /\ read \in [Runtimes -> Nat]
  /\ patches \in 0..MaxPatches

Init ==
  /\ stores \in BOOLEAN
  /\ budget = InitialBudget
  /\ copy = [r \in Runtimes |-> NoSession]
  /\ runtime = [t \in Turns |-> NoRuntime]
  /\ pc = [t \in Turns |-> "idle"]
  /\ rounds = [t \in Turns |-> 0]
  /\ toolCalls = [t \in Turns |-> 0]
  /\ admitted = [t \in Turns |-> FALSE]
  /\ used = [r \in Runtimes \cup {Session} |-> 0]
  /\ read = [r \in Runtimes |-> 0]
  /\ patches = 0

(* Math.max(0, n - tokens), here and in SessionStore.decrementBudget().    *)
Less(n, tokens) == IF tokens < n THEN n - tokens ELSE 0

-----------------------------------------------------------------------------
(* A caller reads the session and constructs a runtime with it.            *)
Construct(r) ==
  /\ copy[r] = NoSession
  /\ copy' = [copy EXCEPT ![r] = budget]
  /\ read' = [read EXCEPT ![r] = budget]
  /\ UNCHANGED <<stores, budget, locals, used, patches>>

(* process() is called and calls the provider for the first time.          *)
Begin(t, r) ==
  /\ pc[t] = "idle" /\ \A u \in 1..t-1 : pc[u] # "idle"
  /\ copy[r] # NoSession
  /\ runtime' = [runtime EXCEPT ![t] = r]
  /\ pc' = [pc EXCEPT ![t] = "inferring"]
  /\ rounds' = [rounds EXCEPT ![t] = 1]
  /\ UNCHANGED <<stores, budget, copy, toolCalls, admitted, used, read, patches>>

(* Mutant of Remaining: earlier model calls are forgotten.                 *)
RemainingOfRead(r, tokens) == Less(read[r], tokens)

(* The new value of session.budget, from the object all turns share.       *)
Remaining(r, tokens) == Less(copy[r], tokens)

(* Mutant of Stored: the remainder is taken for an amount to deduct.       *)
StoredAsAmount(remaining) == IF stores THEN Less(budget, remaining) ELSE budget

(* The row after onBudgetUpdate(remaining), which a caller answers with    *)
(* updateSession(id, { budget: remaining }).                               *)
Stored(remaining) == IF stores THEN remaining ELSE budget

(* What was used, by this account and in all.                              *)
Charged(account, tokens) ==
  [a \in DOMAIN used |-> IF a \in {account, Session} THEN used[a] + tokens ELSE used[a]]

(* With calls left to do, the next goes to the broker at once, which looks *)
(* at the row (dispatch(), budget guard).                                  *)
CallTool(t, calls, row) ==
  /\ pc' = [pc EXCEPT ![t] = "dispatching"]
  /\ toolCalls' = [toolCalls EXCEPT ![t] = calls]
  /\ admitted' = [admitted EXCEPT ![t] = row > 0]

(* The provider answers: usage is charged and stored, then the turn ends   *)
(* or the first tool call goes out.                                        *)
Answer(t, response) ==
  LET r == runtime[t] IN
  /\ pc[t] = "inferring"
  /\ IF response.completionTokens = NoUsage
       THEN UNCHANGED <<budget, copy, used>>
       ELSE /\ copy' = [copy EXCEPT ![r] = Remaining(r, response.completionTokens)]
            /\ budget' = Stored(copy'[r])
            /\ used' = Charged(r, response.completionTokens)
  /\ IF response.toolCalls = 0
       THEN pc' = [pc EXCEPT ![t] = "answered"] /\ UNCHANGED <<toolCalls, admitted>>
       ELSE CallTool(t, response.toolCalls, budget')
  /\ UNCHANGED <<stores, runtime, rounds, read, patches>>

(* The provider fails: model.error, and process() rejects.                 *)
ProviderFails(t) ==
  /\ pc[t] = "inferring"
  /\ pc' = [pc EXCEPT ![t] = "threw"]
  /\ UNCHANGED <<stores, budget, copy, runtime, rounds, toolCalls, admitted, used, read,
                 patches>>

(* Mutant of AnotherRound: the round is not counted.                       *)
AnotherRoundUncounted(t) ==
  /\ pc' = [pc EXCEPT ![t] = "inferring"]
  /\ rounds' = rounds

(* The loop's condition: another model call, or the turn is over with no   *)
(* answer.                                                                 *)
AnotherRound(t) ==
  IF rounds[t] < maxRounds
    THEN /\ pc' = [pc EXCEPT ![t] = "inferring"]
         /\ rounds' = [rounds EXCEPT ![t] = @ + 1]
    ELSE pc' = [pc EXCEPT ![t] = "gave_up"] /\ UNCHANGED rounds

(* dispatch() is done, with tokens to charge unless it was denied; the     *)
(* next tool call goes out, or the results go to the model.                *)
DispatchReturns(t, tokens) ==
  /\ pc[t] = "dispatching"
  /\ tokens > 0 => admitted[t]
  /\ budget' = Less(budget, tokens)
  /\ used' = Charged(Session, tokens)
  /\ IF toolCalls[t] > 1
       THEN CallTool(t, toolCalls[t] - 1, budget') /\ UNCHANGED rounds
       ELSE /\ AnotherRound(t)
            /\ toolCalls' = [toolCalls EXCEPT ![t] = 0]
            /\ UNCHANGED admitted
  /\ UNCHANGED <<stores, copy, runtime, read, patches>>

(* dispatch() throws, as it does when the approval resolver throws.        *)
DispatchThrows(t) ==
  /\ pc[t] = "dispatching"
  /\ pc' = [pc EXCEPT ![t] = "threw"]
  /\ UNCHANGED <<stores, budget, copy, runtime, rounds, toolCalls, admitted, used, read,
                 patches>>

(* PATCH /sessions/:id with a budget.                                      *)
PatchBudget(b) ==
  /\ patches < MaxPatches
  /\ patches' = patches + 1
  /\ budget' = b
  /\ UNCHANGED <<stores, copy, locals, used, read>>

Progress(t) ==
  \/ \E response \in Responses : Answer(t, response)
  \/ ProviderFails(t)
  \/ \E tokens \in TokensUsed \cup {0} : DispatchReturns(t, tokens)
  \/ DispatchThrows(t)

Next ==
  \/ \E r \in Runtimes : Construct(r)
  \/ \E t \in Turns, r \in Runtimes : Begin(t, r)
  \/ \E t \in Turns : Progress(t)
  \/ \E b \in PatchBudgets : PatchBudget(b)

Spec == Init /\ [][Next]_vars

(* Providers answer or time out, and dispatches end (CallsAreAnswered of   *)
(* Broker).                                                                *)
Fairness == \A t \in Turns : WF_vars(Progress(t))

FairSpec == Spec /\ Fairness

-----------------------------------------------------------------------------
(* Every turn ends, although a model may ask for tools for ever: the loop  *)
(* is bounded by maxRounds.                                                *)
TurnsEnd ==
  \A t \in Turns : pc[t] # "idle" ~> pc[t] \in {"answered", "gave_up", "threw"}

(* What is left in a runtime's session is what it was constructed with,    *)
(* less every completion its turns were charged for, however the turns     *)
(* interleave: each model call is deducted exactly once.                   *)
ModelCallsAccounted ==
  \A r \in Runtimes : copy[r] # NoSession => copy[r] = Less(read[r], used[r])

(* Storing what is left never takes from the row what nobody used: without *)
(* a patch the row holds no less than the first budget less all that       *)
(* models and tools have used, whichever of the writers wrote last.        *)
NothingChargedTwice ==
  patches = 0 => budget >= Less(InitialBudget, used[Session])
=============================================================================
