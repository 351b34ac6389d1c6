--------------------------- MODULE ModelScheduler ---------------------------
(***************************************************************************)
(* The in-memory model scheduler of src/core/scheduler.ts: a pool of local *)
(* models, each with a number of slots, leases on the slots, and one FIFO  *)
(* queue of waiting acquireLease() promises per model.                     *)
(*                                                                         *)
(* The class is synchronous between two awaits, so each method is a single *)
(* action.  A call of acquireLease() is identified by a member of Calls;   *)
(* it yields at most one lease, and newLeaseId() never repeats an id, so   *)
(* the call also names its lease.                                          *)
(***************************************************************************)
EXTENDS Integers, Sequences, FiniteSets

CONSTANTS
  Calls,          \* the calls of acquireLease() that are ever made
  TaskIds,        \* the task ids callers pass
  Models,         \* every provider/model pair a caller may name
  Pool,           \* the pairs the pool has an entry for
  MaxConcurrent   \* ModelPoolEntry.maxConcurrent of each pool entry

ASSUME PoolAssumption ==
  /\ Pool \subseteq Models
  /\ MaxConcurrent \in [Pool -> Nat]

VARIABLES
  activeLeases,   \* the values of the Map activeLeases
  queues,         \* the Map queues: a FIFO of waiting calls for each model
  promise         \* what became of the promise each call returned

vars == <<activeLeases, queues, promise>>

Lease == [id : Calls, taskId : TaskIds, model : Pool]
QueueEntry == [id : Calls, taskId : TaskIds]
PromiseState == {"unmade", "pending", "granted", "rejected"}

TypeOK ==
  /\ activeLeases \in SUBSET Lease
  /\ queues \in [Pool -> Seq(QueueEntry)]
  /\ promise \in [Calls -> PromiseState]

-----------------------------------------------------------------------------
Init ==
  /\ activeLeases = {}
  /\ queues = [m \in Pool |-> <<>>]
  /\ promise = [c \in Calls |-> "unmade"]

LeasesOn(m) == {l \in activeLeases : l.model = m}

countActiveLeases(m) == Cardinality(LeasesOn(m))

LeaseFor(e, m) == [id |-> e.id, taskId |-> e.taskId, model |-> m]

(* Mutant of AcquireFree: the comparison with the slots is off by one.     *)
AcquireFreeOffByOne(c, t, m) ==
  /\ m \in Pool
  /\ promise[c] = "unmade"
  /\ countActiveLeases(m) <= MaxConcurrent[m]
  /\ activeLeases' = activeLeases \cup {[id |-> c, taskId |-> t, model |-> m]}
  /\ promise' = [promise EXCEPT ![c] = "granted"]
  /\ UNCHANGED queues

(* acquireLease() of a model that has a free slot. *)
AcquireFree(c, t, m) ==
  /\ m \in Pool
  /\ promise[c] = "unmade"
  /\ countActiveLeases(m) < MaxConcurrent[m]
  /\ activeLeases' = activeLeases \cup {[id |-> c, taskId |-> t, model |-> m]}
  /\ promise' = [promise EXCEPT ![c] = "granted"]
  /\ UNCHANGED queues

(* Mutant of AcquireQueued: the newcomer goes to the front of the queue.   *)
AcquireQueuedInFront(c, t, m) ==
  /\ m \in Pool
  /\ promise[c] = "unmade"
  /\ countActiveLeases(m) >= MaxConcurrent[m]
  /\ queues' = [queues EXCEPT ![m] = <<[id |-> c, taskId |-> t]>> \o @]
  /\ promise' = [promise EXCEPT ![c] = "pending"]
  /\ UNCHANGED activeLeases

(* acquireLease() of a model all of whose slots are taken. *)
AcquireQueued(c, t, m) ==
  /\ m \in Pool
  /\ promise[c] = "unmade"
  /\ countActiveLeases(m) >= MaxConcurrent[m]
  /\ queues' = [queues EXCEPT ![m] = Append(@, [id |-> c, taskId |-> t])]
  /\ promise' = [promise EXCEPT ![c] = "pending"]
  /\ UNCHANGED activeLeases

(* acquireLease() of a model the pool does not have: it throws. *)
AcquireUnknown(c, m) ==
  /\ m \notin Pool
  /\ promise[c] = "unmade"
  /\ promise' = [promise EXCEPT ![c] = "rejected"]
  /\ UNCHANGED <<activeLeases, queues>>

AcquireLease(c, t, m) ==
  AcquireFree(c, t, m) \/ AcquireQueued(c, t, m) \/ AcquireUnknown(c, m)

Smaller(a, b) == IF a <= b THEN a ELSE b

(* Mutants of drained: drainQueue() is never called; or only once for all  *)
(* the leases of a cancelled task.                                         *)
drainedNever(gone, m) == 0
drainedOnce(gone, m) ==
  IF \E l \in gone : l.model = m THEN Smaller(1, Len(queues[m])) ELSE 0

(***************************************************************************)
(* Every lease that is deleted from activeLeases is followed by one        *)
(* drainQueue() of its model, which grants one slot to the head of the     *)
(* queue when there is a head and a slot is free.  After the leases of     *)
(* gone have been released one by one, drained(gone, m) waiters of m have  *)
(* been served, in the order of the queue.                                 *)
(***************************************************************************)
drained(gone, m) ==
  LET freed == Cardinality({l \in gone : l.model = m})
      room  == MaxConcurrent[m] - (countActiveLeases(m) - freed)
  IN  Smaller(freed, Smaller(Len(queues[m]), room))

Served(gone, m) == {queues[m][i] : i \in 1..drained(gone, m)}

StillQueued(gone, m) == SubSeq(queues[m], drained(gone, m) + 1, Len(queues[m]))

LeasesAfter(gone) ==
  (activeLeases \ gone)
    \cup UNION {{LeaseFor(e, m) : e \in Served(gone, m)} : m \in Pool}

(* releaseLease() of an id activeLeases does not have returns at once, so  *)
(* only the release of an active lease is a step.                          *)
ReleaseLease(id) ==
  LET gone == {l \in activeLeases : l.id = id} IN
  /\ gone # {}
  /\ activeLeases' = LeasesAfter(gone)
  /\ queues' = [m \in Pool |-> StillQueued(gone, m)]
  /\ promise' = [c \in Calls |->
                  IF \E m \in Pool : \E e \in Served(gone, m) : e.id = c
                    THEN "granted" ELSE promise[c]]

(* The k-th of a set of positions: k of them lie up to it.                 *)
Place(kept, k) == CHOOSE i \in kept : Cardinality(kept \cap 1..i) = k

(* Mutant of Without: the entries are rejected but not removed.            *)
WithoutNone(q, t) == q

(* A queue without the entries of task t, in the order it had. *)
Without(q, t) ==
  LET kept == {i \in 1..Len(q) : q[i].taskId # t}
  IN  [k \in 1..Cardinality(kept) |-> q[Place(kept, k)]]

(* releaseByTaskId(): release the leases the task holds when the call      *)
(* starts, each followed by its drainQueue(), then reject the queue        *)
(* entries the task still has.                                             *)
ReleaseByTaskId(t) ==
  LET gone == {l \in activeLeases : l.taskId = t} IN
  /\ activeLeases' = LeasesAfter(gone)
  /\ queues' = [m \in Pool |-> Without(StillQueued(gone, m), t)]
  /\ promise' = [c \in Calls |->
       IF \E m \in Pool : \E e \in Served(gone, m) : e.id = c
         THEN "granted"
       ELSE IF \E m \in Pool : \E i \in 1..Len(StillQueued(gone, m)) :
                 StillQueued(gone, m)[i] = [id |-> c, taskId |-> t]
         THEN "rejected"
       ELSE promise[c]]

Next ==
  \/ \E c \in Calls, t \in TaskIds, m \in Models : AcquireLease(c, t, m)
  \/ \E t \in TaskIds : ReleaseByTaskId(t)
  \/ \E c \in Calls : ReleaseLease(c)

Spec == Init /\ [][Next]_vars

(* Callers are obliged to release every lease they were granted (header,   *)
(* lines 6-8: no missing release on any termination path).  Nothing        *)
(* obliges them to make a further call.                                    *)
Fairness == \A c \in Calls : WF_vars(ReleaseLease(c))

FairSpec == Spec /\ Fairness

-----------------------------------------------------------------------------
Waiting(m) == {queues[m][i] : i \in 1..Len(queues[m])}

(* No model ever has more leases than it has slots, whatever the order in  *)
(* which calls arrive, are queued, released and cancelled (acquireLease,   *)
(* drainQueue).                                                            *)
WithinCapacity ==
  \A m \in Pool : countActiveLeases(m) <= MaxConcurrent[m]

(* The promise of every call tells where the call is: a pending call is in *)
(* exactly one place of one queue, and a call that was granted or rejected *)
(* is in none; a call holds at most one lease, and only after a grant.     *)
PromisesAgree ==
  /\ \A c \in Calls : promise[c] = "pending" <=>
       \E m \in Pool : \E e \in Waiting(m) : e.id = c
  /\ \A m, n \in Pool : \A i \in 1..Len(queues[m]), j \in 1..Len(queues[n]) :
       queues[m][i].id = queues[n][j].id => m = n /\ i = j
  /\ \A l \in activeLeases : promise[l.id] = "granted"
  /\ \A k, l \in activeLeases : k.id = l.id => k = l

Ahead(q, c) == {q[j].id : j \in {k \in 1..Len(q) : \E i \in k+1..Len(q) : q[i].id = c}}

GrantedNow(m) ==
  {l.id : l \in {k \in activeLeases' \ activeLeases : k.model = m}}

(* Waiters of a model are served in the order in which they asked: while a *)
(* call waits, only calls that were ahead of it are granted the model, and *)
(* no call is put ahead of it.                                             *)
FirstComeFirstServed ==
  [][\A m \in Pool :
       \A w \in {e.id : e \in Waiting(m)} \cap {e.id : e \in Waiting(m)'} :
         Ahead(queues'[m], w) \cup GrantedNow(m) \subseteq Ahead(queues[m], w)]_vars

(* Every queued call is answered, granted or rejected, once lease holders  *)
(* honour their obligation to release.                                     *)
QueuedIsAnswered ==
  \A c \in Calls : promise[c] = "pending" ~> promise[c] # "pending"

-----------------------------------------------------------------------------
(* The scheduler keeps the promise of LeaseService: a call waits while it  *)
(* is in a queue and holds while its lease is active.                      *)
Service == INSTANCE LeaseService WITH
  Slots   <- MaxConcurrent,
  fresh   <- {c \in Calls : promise[c] = "unmade"},
  waiting <- [m \in Pool |-> {e.id : e \in Waiting(m)}],
  holding <- [m \in Pool |-> {l.id : l \in LeasesOn(m)}]

(* Every behaviour of the scheduler is one LeaseService allows: whatever   *)
(* releaseLease() and releaseByTaskId() do to leases and queues, slots are *)
(* neither exceeded nor left idle, and a call is in one place at a time.   *)
ImplementsLeaseService == Service!Spec
=============================================================================
