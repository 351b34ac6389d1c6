--------------------------- MODULE AgentTurnProofs ---------------------------
(***************************************************************************)
(* That every model call is charged to its runtime exactly once, for any   *)
(* number of runtimes, turns and rounds and any answers of a provider.     *)
(***************************************************************************)
EXTENDS AgentTurn, TLAPS

(* Nothing is charged to a runtime that has not been constructed.          *)
NothingUsedBefore == \A r \in Runtimes : copy[r] = NoSession => used[r] = 0

IInv == TypeOK /\ NothingUsedBefore /\ ModelCallsAccounted

(* Two deductions in a row are the deduction of the sum, and deducting     *)
(* nothing changes nothing.                                                *)
LEMMA LessTwice ==
  ASSUME NEW n \in Nat, NEW a \in Nat, NEW b \in Nat
  PROVE  /\ Less(n, a) \in Nat
         /\ Less(Less(n, a), b) = Less(n, a + b)
         /\ Less(n, 0) = n
  BY DEF Less

(* The accounts are in order at the start.                                 *)
LEMMA InitAccounts == Init => IInv
  BY AgentAssumption
     DEF Init, IInv, TypeOK, NothingUsedBefore, ModelCallsAccounted,
         AgentAssumption, NoSession, NoRuntime, Where, Turns

(* A runtime starts out with what it read and nothing used.                *)
LEMMA ConstructAccounts ==
  ASSUME IInv, NEW r \in Runtimes, Construct(r)
  PROVE  IInv'
<1> USE DEF NoSession
<1>1. TypeOK'
  BY DEF IInv, TypeOK, Construct, locals
<1>2. NothingUsedBefore'
  BY DEF IInv, TypeOK, NothingUsedBefore, Construct
<1>3. ModelCallsAccounted'
  <2> SUFFICES ASSUME NEW q \in Runtimes, copy'[q] # NoSession
               PROVE  copy'[q] = Less(read'[q], used'[q])
    BY DEF ModelCallsAccounted
  <2>1. CASE q = r
    BY <2>1, LessTwice DEF IInv, TypeOK, NothingUsedBefore, Construct
  <2>2. CASE q # r
    BY <2>2 DEF IInv, TypeOK, ModelCallsAccounted, Construct
  <2> QED  BY <2>1, <2>2
<1> QED  BY <1>1, <1>2, <1>3 DEF IInv

(* The broker's call leaves the turn with something to do.                 *)
LEMMA CallToolTyped ==
  ASSUME TypeOK, NEW t \in Turns, NEW calls \in Nat \ {0}, NEW row \in Nat,
         CallTool(t, calls, row)
  PROVE  /\ pc' \in [Turns -> Where]
         /\ pc' = [pc EXCEPT ![t] = "dispatching"]
         /\ toolCalls' \in [Turns -> Nat]
         /\ \A u \in Turns : pc'[u] = "dispatching" => toolCalls'[u] > 0
         /\ admitted' \in [Turns -> BOOLEAN]
  BY DEF TypeOK, CallTool, Where

(* An answer charges the completion to the runtime of its turn only.       *)
LEMMA AnswerAccounts ==
  ASSUME IInv, NEW t \in Turns, NEW response \in Responses, Answer(t, response)
  PROVE  IInv'
<1> DEFINE r == runtime[t]
           tokens == response.completionTokens
<1> USE DEF NoSession, NoUsage
<1>1. /\ response \in Response
      /\ r \in Runtimes /\ copy[r] \in Nat /\ r # Session
  BY AgentAssumption DEF AgentAssumption, IInv, TypeOK, Answer
<1>2. /\ copy' \in [Runtimes -> Nat \cup {NoSession}]
      /\ budget' \in Nat
      /\ used' \in [Runtimes \cup {Session} -> Nat]
      /\ \A q \in Runtimes : (copy'[q] = NoSession) <=> (copy[q] = NoSession)
  <2>1. CASE tokens = NoUsage
    BY <2>1 DEF IInv, TypeOK, Answer
  <2>2. CASE tokens # NoUsage
    <3>1. tokens \in Nat
      BY <1>1, <2>2 DEF Response
    <3>2. copy' = [copy EXCEPT ![r] = Less(copy[r], tokens)]
      BY <2>2 DEF Answer, Remaining
    <3>3. Less(copy[r], tokens) \in Nat
      BY <1>1, <3>1, LessTwice
    <3>4. budget' = IF stores THEN copy'[r] ELSE budget
      BY <2>2 DEF Answer, Stored
    <3>5. used' = Charged(r, tokens)
      BY <2>2 DEF Answer
    <3>6. used' \in [Runtimes \cup {Session} -> Nat]
      BY <3>1, <3>5 DEF IInv, TypeOK, Charged
    <3>7. /\ copy' \in [Runtimes -> Nat \cup {NoSession}]
          /\ \A q \in Runtimes : (copy'[q] = NoSession) <=> (copy[q] = NoSession)
      BY <1>1, <3>2, <3>3 DEF IInv, TypeOK
    <3>8. budget' \in Nat
      BY <1>1, <3>2, <3>3, <3>4 DEF IInv, TypeOK
    <3> QED  BY <3>6, <3>7, <3>8
  <2> QED  BY <2>1, <2>2
<1>3. TypeOK'
  <2>1. CASE response.toolCalls = 0
    BY <1>1, <1>2, <2>1 DEF IInv, TypeOK, Answer, Where
  <2>2. CASE response.toolCalls # 0
    <3>1. response.toolCalls \in Nat \ {0}
      BY <1>1, <2>2 DEF Response
    <3>2. CallTool(t, response.toolCalls, budget')
      BY <2>2 DEF Answer
    <3>3. TypeOK
      BY DEF IInv
    <3>4. /\ pc' \in [Turns -> Where]
          /\ pc' = [pc EXCEPT ![t] = "dispatching"]
          /\ toolCalls' \in [Turns -> Nat]
          /\ \A u \in Turns : pc'[u] = "dispatching" => toolCalls'[u] > 0
          /\ admitted' \in [Turns -> BOOLEAN]
      BY <1>2, <3>1, <3>2, <3>3, CallToolTyped
    <3>5. /\ UNCHANGED <<stores, runtime, rounds, read, patches>>
          /\ pc[t] = "inferring"
      BY DEF Answer
    <3> QED  BY <1>1, <1>2, <3>3, <3>4, <3>5 DEF TypeOK
  <2> QED  BY <2>1, <2>2
<1>4. NothingUsedBefore'
  <2> SUFFICES ASSUME NEW q \in Runtimes, copy'[q] = NoSession
               PROVE  used'[q] = 0
    BY DEF NothingUsedBefore
  <2>1. copy[q] = NoSession /\ q # r
    BY <1>1, <1>2
  <2> QED  BY <1>1, <2>1, AgentAssumption
           DEF AgentAssumption, IInv, TypeOK, NothingUsedBefore, Answer, Charged
<1>5. ModelCallsAccounted'
  <2> SUFFICES ASSUME NEW q \in Runtimes, copy'[q] # NoSession
               PROVE  copy'[q] = Less(read'[q], used'[q])
    BY DEF ModelCallsAccounted
  <2>1. /\ copy[q] = Less(read[q], used[q])
        /\ read' = read /\ read[q] \in Nat /\ used[q] \in Nat
    BY <1>2 DEF IInv, TypeOK, ModelCallsAccounted, Answer
  <2>2. CASE q = r /\ tokens # NoUsage
    <3>1. tokens \in Nat
      BY <1>1, <2>2 DEF Response
    <3>2. copy'[q] = Less(copy[q], tokens) /\ used'[q] = used[q] + tokens
      BY <1>1, <2>2 DEF IInv, TypeOK, Answer, Remaining, Charged
    <3> QED  BY <2>1, <3>1, <3>2, LessTwice
  <2>3. CASE ~(q = r /\ tokens # NoUsage)
    <3>1. copy'[q] = copy[q] /\ used'[q] = used[q]
      BY <1>1, <2>3, AgentAssumption DEF AgentAssumption, IInv, TypeOK, Answer, Charged
    <3> QED  BY <2>1, <3>1
  <2> QED  BY <2>2, <2>3
<1> QED  BY <1>3, <1>4, <1>5 DEF IInv

(* The end of a tool call is charged to the row and to no runtime.         *)
LEMMA DispatchAccounts ==
  ASSUME IInv, NEW t \in Turns, NEW tokens \in Nat, DispatchReturns(t, tokens)
  PROVE  IInv'
<1>1. /\ TypeOK
      /\ copy' = copy /\ read' = read
      /\ \A q \in Runtimes : used'[q] = used[q]
      /\ used' \in [Runtimes \cup {Session} -> Nat]
  BY AgentAssumption DEF AgentAssumption, IInv, TypeOK, DispatchReturns, Charged
<1>2. budget' \in Nat
  BY <1>1, LessTwice DEF TypeOK, DispatchReturns
<1>3. TypeOK'
  <2>1. CASE toolCalls[t] > 1
    <3>1. toolCalls[t] - 1 \in Nat \ {0}
      BY <1>1, <2>1 DEF TypeOK
    <3>2. CallTool(t, toolCalls[t] - 1, budget') /\ rounds' = rounds
      BY <2>1 DEF DispatchReturns
    <3>3. /\ pc' \in [Turns -> Where]
          /\ pc' = [pc EXCEPT ![t] = "dispatching"]
          /\ toolCalls' \in [Turns -> Nat]
          /\ \A u \in Turns : pc'[u] = "dispatching" => toolCalls'[u] > 0
          /\ admitted' \in [Turns -> BOOLEAN]
      BY <1>1, <1>2, <3>1, <3>2, CallToolTyped
    <3>4. /\ UNCHANGED <<stores, copy, runtime, read, patches>>
          /\ pc[t] = "dispatching"
      BY DEF DispatchReturns
    <3> QED  BY <1>1, <1>2, <3>2, <3>3, <3>4 DEF TypeOK
  <2>2. CASE ~(toolCalls[t] > 1)
    BY <1>1, <1>2, <2>2, AgentAssumption
       DEF AgentAssumption, TypeOK, DispatchReturns, AnotherRound, Where
  <2> QED  BY <2>1, <2>2
<1>4. NothingUsedBefore'
  BY <1>1 DEF IInv, NothingUsedBefore
<1>5. ModelCallsAccounted'
  BY <1>1 DEF IInv, ModelCallsAccounted
<1> QED  BY <1>3, <1>4, <1>5 DEF IInv

(* Every step keeps the accounts in order.                                 *)
LEMMA StepAccounts == IInv /\ [Next]_vars => IInv'
<1> SUFFICES ASSUME IInv, [Next]_vars PROVE IInv'
  OBVIOUS
<1> USE DEF NoSession
<1>1. ASSUME NEW r \in Runtimes, Construct(r) PROVE IInv'
  BY <1>1, ConstructAccounts
<1>2. ASSUME NEW t \in Turns, NEW r \in Runtimes, Begin(t, r) PROVE IInv'
  <2>1. TypeOK'
    BY <1>2, AgentAssumption DEF AgentAssumption, IInv, TypeOK, Begin, Where
  <2> QED  BY <1>2, <2>1 DEF IInv, NothingUsedBefore, ModelCallsAccounted, Begin
<1>3. ASSUME NEW t \in Turns, NEW response \in Responses, Answer(t, response)
      PROVE  IInv'
  BY <1>3, AnswerAccounts
<1>4. ASSUME NEW t \in Turns, ProviderFails(t) \/ DispatchThrows(t) PROVE IInv'
  <2>1. TypeOK'
    BY <1>4 DEF IInv, TypeOK, ProviderFails, DispatchThrows, Where
  <2> QED
    BY <1>4, <2>1
       DEF IInv, NothingUsedBefore, ModelCallsAccounted, ProviderFails, DispatchThrows
<1>5. ASSUME NEW t \in Turns, NEW tokens \in TokensUsed \cup {0},
             DispatchReturns(t, tokens)
      PROVE  IInv'
  <2>1. tokens \in Nat
    BY <1>5, AgentAssumption DEF AgentAssumption
  <2> QED  BY <1>5, <2>1, DispatchAccounts
<1>6. ASSUME NEW b \in PatchBudgets, PatchBudget(b) PROVE IInv'
  <2>1. TypeOK'
    BY <1>6, AgentAssumption DEF AgentAssumption, IInv, TypeOK, PatchBudget, locals
  <2> QED
    BY <1>6, <2>1 DEF IInv, NothingUsedBefore, ModelCallsAccounted, PatchBudget
<1>7. CASE UNCHANGED vars
  BY <1>7 DEF IInv, TypeOK, NothingUsedBefore, ModelCallsAccounted, vars, locals
<1> QED
  BY <1>1, <1>2, <1>3, <1>4, <1>5, <1>6, <1>7 DEF Next, Progress

(* Budgets, turns and rounds have the form TypeOK gives them, and rounds   *)
(* stay within maxRounds.                                                  *)
THEOREM TypeCorrect == Spec => []TypeOK
<1>1. IInv => TypeOK
  BY DEF IInv
<1> QED  BY <1>1, InitAccounts, StepAccounts, PTL DEF Spec

(* What a runtime has left is what it was constructed with less every      *)
(* completion that was charged, however its turns interleave.              *)
THEOREM ModelCallsCharged == Spec => []ModelCallsAccounted
<1>1. IInv => ModelCallsAccounted
  BY DEF IInv
<1> QED  BY <1>1, InitAccounts, StepAccounts, PTL DEF Spec

(* Before the first patch, neither the row nor the session object of any   *)
(* runtime holds less than the first budget less all that was used.  The   *)
(* objects matter: any of them may be what the row is overwritten with.    *)
Left == Less(InitialBudget, used[Session])
NobodyShort ==
  patches = 0 => /\ budget >= Left
                 /\ \A r \in Runtimes : copy[r] # NoSession => copy[r] >= Left

(* Deducting less from more leaves more.                                   *)
LEMMA LessOrdered ==
  ASSUME NEW a \in Nat, NEW b \in Nat, a >= b, NEW n \in Nat, NEW m \in Nat, n <= m
  PROVE  Less(a, n) >= Less(b, m)
  BY DEF Less

(* An answer is deducted from one object, and the row may become that one. *)
LEMMA AnswerCharges ==
  ASSUME IInv, NobodyShort, NEW t \in Turns, NEW response \in Responses,
         Answer(t, response)
  PROVE  NobodyShort'
<1> DEFINE r == runtime[t]
           tokens == response.completionTokens
<1> USE DEF NoSession, NoUsage
<1> SUFFICES ASSUME patches = 0 PROVE NobodyShort'
  BY DEF NobodyShort, Answer
<1>1. /\ response \in Response
      /\ r \in Runtimes /\ copy[r] \in Nat
      /\ used[Session] \in Nat /\ InitialBudget \in Nat /\ budget \in Nat
  BY AgentAssumption DEF AgentAssumption, IInv, TypeOK, Answer
<1>2. /\ budget >= Left
      /\ \A q \in Runtimes : copy[q] # NoSession => copy[q] >= Left
  BY DEF NobodyShort
<1>3. CASE tokens = NoUsage
  BY <1>2, <1>3 DEF NobodyShort, Left, Answer
<1>4. CASE tokens # NoUsage
  <2>1. tokens \in Nat
    BY <1>1, <1>4 DEF Response
  <2>2. /\ copy' = [copy EXCEPT ![r] = Less(copy[r], tokens)]
        /\ used'[Session] = used[Session] + tokens
        /\ budget' = IF stores THEN copy'[r] ELSE budget
    BY <1>4 DEF Answer, Remaining, Stored, Charged, IInv, TypeOK
  <2>3. Less(copy[r], tokens) >= Left' /\ Left >= Left'
    <3>1. Left' = Less(InitialBudget, used[Session] + tokens)
      BY <2>2 DEF Left
    <3>2. Left' = Less(Left, tokens) /\ Left \in Nat
      BY <1>1, <2>1, <3>1, LessTwice DEF Left
    <3>3. copy[r] >= Left
      BY <1>1, <1>2
    <3>4. Less(Left, tokens) <= Left
      BY <2>1, <3>2 DEF Less
    <3> QED  BY <1>1, <2>1, <3>2, <3>3, <3>4, LessOrdered
  <2>4. Left' \in Nat /\ Left \in Nat /\ copy \in [Runtimes -> Nat \cup {NoSession}]
    <3>1. Left' = Less(InitialBudget, used[Session] + tokens)
      BY <2>2 DEF Left
    <3>2. used[Session] + tokens \in Nat
      BY <1>1, <2>1
    <3>3. Left' \in Nat /\ Left \in Nat
      BY <1>1, <3>1, <3>2, LessTwice DEF Left
    <3> QED  BY <3>3 DEF IInv, TypeOK
  <2>5. ASSUME NEW q \in Runtimes, copy'[q] # NoSession PROVE copy'[q] >= Left'
    <3>1. CASE q = r
      BY <2>2, <2>3, <2>4, <3>1
    <3>2. CASE q # r
      <4>1. copy'[q] = copy[q] /\ copy[q] \in Nat
        BY <2>2, <2>4, <2>5, <3>2
      <4>2. copy[q] >= Left
        BY <1>2, <2>5, <4>1
      <4> QED  BY <2>3, <2>4, <4>1, <4>2
    <3> QED  BY <3>1, <3>2
  <2>6. budget' >= Left'
    <3>1. CASE stores
      BY <1>1, <2>2, <2>3, <2>4, <3>1
    <3>2. CASE ~stores
      BY <1>1, <1>2, <2>2, <2>3, <2>4, <3>2
    <3> QED  BY <3>1, <3>2
  <2> QED  BY <2>5, <2>6 DEF NobodyShort
<1> QED  BY <1>3, <1>4

(* What a tool used is deducted from the row.                              *)
LEMMA DispatchCharges ==
  ASSUME IInv, NobodyShort, NEW t \in Turns, NEW tokens \in Nat, DispatchReturns(t, tokens)
  PROVE  NobodyShort'
<1> SUFFICES ASSUME patches = 0 PROVE NobodyShort'
  BY DEF NobodyShort, DispatchReturns
<1>1. /\ used[Session] \in Nat /\ InitialBudget \in Nat /\ budget \in Nat
      /\ copy \in [Runtimes -> Nat \cup {NoSession}] /\ copy' = copy
      /\ used'[Session] = used[Session] + tokens
      /\ budget' = Less(budget, tokens)
  BY AgentAssumption DEF AgentAssumption, IInv, TypeOK, DispatchReturns, Charged
<1>2. Left \in Nat /\ Left' = Less(Left, tokens) /\ Left' \in Nat
  BY <1>1, LessTwice DEF Left
<1>3. Left >= Left'
  BY <1>2 DEF Less
<1>4. budget' >= Left'
  BY <1>1, <1>2, LessOrdered DEF NobodyShort
<1>5. ASSUME NEW q \in Runtimes, copy'[q] # NoSession PROVE copy'[q] >= Left'
  <2>1. copy[q] \in Nat /\ copy[q] >= Left /\ copy'[q] = copy[q]
    BY <1>1, <1>5 DEF NobodyShort
  <2> QED  BY <1>2, <1>3, <2>1
<1> QED  BY <1>4, <1>5 DEF NobodyShort

(* Every step keeps it: the others charge nothing, and a runtime starts    *)
(* with the row's budget.                                                  *)
LEMMA StepCharges == IInv /\ NobodyShort /\ [Next]_vars => NobodyShort'
<1> SUFFICES ASSUME IInv, NobodyShort, [Next]_vars PROVE NobodyShort'
  OBVIOUS
<1>1. ASSUME NEW r \in Runtimes, Construct(r) PROVE NobodyShort'
  BY <1>1 DEF IInv, TypeOK, Construct, NobodyShort, Left
<1>2. ASSUME NEW t \in Turns, NEW r \in Runtimes, Begin(t, r) PROVE NobodyShort'
  BY <1>2 DEF Begin, NobodyShort, Left
<1>3. ASSUME NEW t \in Turns, NEW response \in Responses, Answer(t, response)
      PROVE  NobodyShort'
  BY <1>3, AnswerCharges
<1>4. ASSUME NEW t \in Turns, ProviderFails(t) \/ DispatchThrows(t) PROVE NobodyShort'
  BY <1>4 DEF ProviderFails, DispatchThrows, NobodyShort, Left
<1>5. ASSUME NEW t \in Turns, NEW tokens \in TokensUsed \cup {0},
             DispatchReturns(t, tokens)
      PROVE  NobodyShort'
  <2>1. tokens \in Nat
    BY <1>5, AgentAssumption DEF AgentAssumption
  <2> QED  BY <1>5, <2>1, DispatchCharges
<1>6. ASSUME NEW b \in PatchBudgets, PatchBudget(b) PROVE NobodyShort'
  BY <1>6 DEF PatchBudget, NobodyShort, IInv, TypeOK
<1>7. CASE UNCHANGED vars
  BY <1>7 DEF vars, NobodyShort, Left
<1> QED
  BY <1>1, <1>2, <1>3, <1>4, <1>5, <1>6, <1>7 DEF Next, Progress

(* Nobody is charged for what was not used: without a patch the row never  *)
(* holds less than the first budget less all that models and tools used.   *)
THEOREM ChargesHold == Spec => []NothingChargedTwice
<1>1. Init => NobodyShort
  BY AgentAssumption, LessTwice DEF AgentAssumption, Init, NobodyShort, Left, NoSession
<1>2. NobodyShort => NothingChargedTwice
  BY DEF NobodyShort, NothingChargedTwice, Left
<1> QED  BY <1>1, <1>2, InitAccounts, StepAccounts, StepCharges, PTL DEF Spec
=============================================================================
