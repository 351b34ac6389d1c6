------------------------------ MODULE Approvals ------------------------------
(***************************************************************************)
(* The approvals inbox: ApprovalStore of src/core/approval.ts, which the   *)
(* gateway's routes and the commands `approve` and `deny` of the CLI use,  *)
(* each in a process of its own, on one database file.                     *)
(*                                                                         *)
(* resolve() reads the request and then updates it, in two statements.     *)
(* Within a process nothing comes between them, as nothing awaits; another *)
(* process may do anything in between.                                     *)
(***************************************************************************)
EXTENDS Naturals

CONSTANTS
  Requests,     \* the requests that may be put into the inbox
  Callers,      \* the calls of resolve() that are made
  Approvers,    \* Principal.id of those who resolve
  Gateway,      \* the calls that arrive at the gateway, the others are CLI runs
  NoOne         \* a column that is NULL

ASSUME ApprovalsAssumption ==
  /\ Gateway \subseteq Callers
  /\ NoOne \notin Approvers

Answer == {"approved", "denied"}

VARIABLES
  inbox,      \* table approval_requests: the rows there are
  pc,         \* where each call of resolve() is
  call,       \* what each call was made with
  resolvedBefore, \* history: the calls that had succeeded when each one began
  existed     \* history: the calls whose request was in the inbox as they read

inboxVars == <<inbox, pc, call, resolvedBefore, existed>>

InboxRow == [outcome : Answer \cup {"pending"}, approver : Approvers \cup {NoOne}]
Call == [request : Requests, approver : Approvers, outcome : Answer]
NoCall == [request |-> NoOne, approver |-> NoOne, outcome |-> NoOne]

(* A call has been read to be pending and not updated yet, has been         *)
(* answered either way, or its process stopped.                             *)
Where == {"idle", "found_pending", "resolved", "refused", "stopped"}

InboxTypeOK ==
  /\ DOMAIN inbox \subseteq Requests
  /\ inbox \in [DOMAIN inbox -> InboxRow]
  /\ pc \in [Callers -> Where]
  /\ call \in [Callers -> Call \cup {NoCall}]
  /\ \A c \in Callers : pc[c] # "idle" => call[c] \in Call
  /\ resolvedBefore \in [Callers -> SUBSET Callers]
  /\ existed \subseteq Callers

InboxInit ==
  /\ inbox = [r \in {} |-> NoOne]
  /\ pc = [c \in Callers |-> "idle"]
  /\ call = [c \in Callers |-> NoCall]
  /\ resolvedBefore = [c \in Callers |-> {}]
  /\ existed = {}

-----------------------------------------------------------------------------
(* POST /approvals: a new row, pending and with nobody's name.             *)
CreateRequest(r) ==
  /\ r \notin DOMAIN inbox
  /\ inbox' = [q \in DOMAIN inbox \cup {r} |->
                 IF q = r THEN [outcome |-> "pending", approver |-> NoOne]
                          ELSE inbox[q]]
  /\ UNCHANGED <<pc, call, resolvedBefore, existed>>

(* listPending(), and what resolve() looks at.                             *)
Pending == {r \in DOMAIN inbox : inbox[r].outcome = "pending"}

(* Mutant of ProcessFree: a handler that awaits between its statements.    *)
ProcessAlwaysFree(c) == c \in Callers

(* The gateway is at most in one handler.                                  *)
ProcessFree(c) ==
  c \in Gateway => \A d \in Gateway : pc[d] # "found_pending"

(* resolve(), to its first statement: the caller is told that there is     *)
(* nothing to resolve, or goes on.                                         *)
ResolveReads(c, k) ==
  /\ pc[c] = "idle"
  /\ ProcessFree(c)
  /\ call' = [call EXCEPT ![c] = k]
  /\ pc' = [pc EXCEPT ![c] =
              IF k.request \in Pending THEN "found_pending" ELSE "refused"]
  /\ resolvedBefore' = [resolvedBefore EXCEPT ![c] = {d \in Callers : pc[d] = "resolved"}]
  /\ existed' = IF k.request \in DOMAIN inbox THEN existed \cup {c} ELSE existed
  /\ UNCHANGED inbox

(* Mutant of ResolveUpdates: the name of an earlier approver is kept.       *)
ResolveUpdatesOutcome(c) ==
  /\ pc[c] = "found_pending"
  /\ inbox' = [inbox EXCEPT ![call[c].request] =
                 [outcome |-> call[c].outcome,
                  approver |-> IF @.approver = NoOne THEN call[c].approver ELSE @.approver]]
  /\ pc' = [pc EXCEPT ![c] = "resolved"]
  /\ UNCHANGED <<call, resolvedBefore, existed>>

(* The UPDATE, which sets outcome and name together and looks at nothing   *)
(* but the id, and the answer to the caller.                               *)
ResolveUpdates(c) ==
  /\ pc[c] = "found_pending"
  /\ inbox' = [inbox EXCEPT ![call[c].request] =
                 [outcome |-> call[c].outcome, approver |-> call[c].approver]]
  /\ pc' = [pc EXCEPT ![c] = "resolved"]
  /\ UNCHANGED <<call, resolvedBefore, existed>>

(* A process stops between the two statements. If it is the gateway, it    *)
(* takes no other handler with it, as it is in this one.                   *)
Stop(c) ==
  /\ pc[c] = "found_pending"
  /\ pc' = [pc EXCEPT ![c] = "stopped"]
  /\ UNCHANGED <<inbox, call, resolvedBefore, existed>>

InboxNext ==
  \/ \E r \in Requests : CreateRequest(r)
  \/ \E c \in Callers, k \in Call : ResolveReads(c, k)
  \/ \E c \in Callers : ResolveUpdates(c) \/ Stop(c)

InboxSpec == InboxInit /\ [][InboxNext]_inboxVars

-----------------------------------------------------------------------------
Resolved(c) == pc[c] = "resolved"

(* "Cannot resolve an already-resolved request", as far as it goes: two    *)
(* callers are told that they resolved the same request only if they were  *)
(* in two processes and neither began after the other had succeeded. So    *)
(* a retry of a call that went through is refused, and so is whoever comes *)
(* after a decision was told.                                              *)
OneAnswerUnlessProcessesRace ==
  \A c, d \in Callers :
    (c # d /\ Resolved(c) /\ Resolved(d) /\ call[c].request = call[d].request) =>
      /\ ~(c \in Gateway /\ d \in Gateway)
      /\ c \notin resolvedBefore[d]
      /\ d \notin resolvedBefore[c]

(* What callers are told agrees with the inbox: a request is pending as    *)
(* long as nobody was told that he resolved it, a decided one bears the    *)
(* answer and the name of the same caller, one who was told so; who was    *)
(* refused had asked for what was not there or already decided.            *)
AnswersAgreeWithInbox ==
  /\ \A r \in DOMAIN inbox :
       IF r \in Pending
       THEN /\ inbox[r].approver = NoOne
            /\ \A c \in Callers : Resolved(c) => call[c].request # r
       ELSE \E c \in Callers :
              /\ Resolved(c)
              /\ call[c] = [request |-> r, approver |-> inbox[r].approver,
                            outcome |-> inbox[r].outcome]
  /\ \A c \in Callers :
       (pc[c] = "refused" /\ c \in existed) => call[c].request \notin Pending

=============================================================================
