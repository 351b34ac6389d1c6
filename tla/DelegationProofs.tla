-------------------------- MODULE DelegationProofs --------------------------
(***************************************************************************)
(* That capabilities narrow and depths count along every chain of          *)
(* delegations, that the tree stays within its limits, that a cancellation *)
(* ends a subtree, and that leases and the tasks bound to models agree,    *)
(* for any number of requests, tasks, models and restarts.                 *)
(***************************************************************************)
EXTENDS Delegation, TLAPS, FiniteSetTheorems

(* What is proved of the scheduler alone holds of it here.                 *)
SP == INSTANCE ModelSchedulerProofs WITH
  Calls <- Requests, TaskIds <- {Placeholder}

(* A child has an older task for its parent, no capability its parent      *)
(* lacks, and one more level of delegation.                                *)
Fits(task, n) ==
  /\ task.parent \in 1..n
  /\ task.capabilitySet \subseteq tasks[task.parent].capabilitySet
  /\ task.delegationDepth = tasks[task.parent].delegationDepth + 1
  /\ task.delegationDepth <= MAX_DELEGATION_DEPTH

(* So it is for what is delegated and for what waits to be; a posted task  *)
(* has an older parent, or none.                                           *)
InPlace(t) ==
  /\ tasks[t].parent \in 0..t - 1
  /\ Delegated(t) => Fits(tasks[t], t - 1)

TreeFits ==
  /\ \A t \in TaskId : InPlace(t)
  /\ \A r \in DOMAIN snapshot : Fits(snapshot[r], Len(tasks))

(* What holds or waits for a slot is a request that waits or was answered. *)
Live == {"waiting", "created"}
LeasesKnown ==
  /\ \A l \in activeLeases : promise[l.id] = "granted" /\ outcome[l.id] \in Live
  /\ \A m \in Pool : \A i \in 1..Len(queues[m]) : outcome[queues[m][i].id] \in Live

(* An answer names a task there is; to one bound to a pair, a lease was    *)
(* granted.                                                                *)
BoundLeased ==
  /\ \A r \in Requests : outcome[r] # "created" => response[r] = NoParent
  /\ \A r \in Requests : response[r] <= Len(tasks)
  /\ HasScheduler => \A t \in TaskId : Delegated(t) /\ tasks[t].model \in Models =>
       \E r \in Requests : response[r] = t /\ promise[r] = "granted"

IInv == TypeOK /\ SP!IInv /\ TreeFits /\ LeasesKnown /\ BoundLeased

-----------------------------------------------------------------------------
(* The scheduler's own invariant.                                          *)
LEMMA SchedulerStarts == Scheduler!Init => SP!IInv
<1>1. SP!PoolAssumption
  BY DelegationAssumption DEF DelegationAssumption, SP!PoolAssumption
<1>2. Scheduler!Init => SP!Init
  BY DEF Scheduler!Init, SP!Init
<1> QED  BY <1>1, <1>2, SP!InitEstablishesIInv

(* Every step of the scheduler keeps it.                                   *)
LEMMA SchedulerSteps ==
  ASSUME SP!IInv, SP!Next
  PROVE  SP!IInv'
<1>1. SP!PoolAssumption
  BY DelegationAssumption DEF DelegationAssumption, SP!PoolAssumption
<1> QED  BY <1>1, SP!NextPreservesIInv

(* The instance above and the one of Delegation have the same types.       *)
LEMMA SameTypes == SP!TypeOK <=> Scheduler!TypeOK
BY DEF SP!TypeOK, Scheduler!TypeOK, SP!Lease, Scheduler!Lease, SP!QueueEntry,
       Scheduler!QueueEntry, SP!PromiseState, Scheduler!PromiseState

(* Each instance of the scheduler's module has the operators of its own.   *)
LEMMA SameCounts ==
  /\ \A S : SP!Cardinality(S) = Cardinality(S)
  /\ \A S : Scheduler!Cardinality(S) = Cardinality(S)
  /\ \A S : SP!IsFiniteSet(S) <=> IsFiniteSet(S)
  /\ \A m : SP!LeasesOn(m) = Scheduler!LeasesOn(m)
  /\ \A m : SP!countActiveLeases(m) = Scheduler!countActiveLeases(m)
<1>1. \A S : SP!Cardinality(S) = Cardinality(S)
  BY DEF Cardinality, SP!Cardinality
<1>2. \A S : Scheduler!Cardinality(S) = Cardinality(S)
  BY DEF Cardinality, Scheduler!Cardinality
<1>3. \A S : SP!IsFiniteSet(S) <=> IsFiniteSet(S)
  BY DEF IsFiniteSet, SP!IsFiniteSet
<1>4. \A m : SP!LeasesOn(m) = Scheduler!LeasesOn(m)
  BY DEF SP!LeasesOn, Scheduler!LeasesOn
<1>5. \A m : SP!countActiveLeases(m) = Scheduler!countActiveLeases(m)
  BY <1>1, <1>2, <1>4 DEF SP!countActiveLeases, Scheduler!countActiveLeases
<1> QED  BY <1>1, <1>2, <1>3, <1>4, <1>5

(* To ask for a lease is a step of the scheduler,                          *)
LEMMA SameAcquire ==
  ASSUME NEW r \in Requests, NEW m \in Models, Scheduler!AcquireLease(r, Placeholder, m)
  PROVE  SP!Next
<1>1. SP!AcquireLease(r, Placeholder, m)
  BY SameCounts
     DEF Scheduler!AcquireLease, Scheduler!AcquireFree, Scheduler!AcquireQueued,
         Scheduler!AcquireUnknown, SP!AcquireLease, SP!AcquireFree, SP!AcquireQueued,
         SP!AcquireUnknown
<1> QED  BY <1>1 DEF SP!Next

(* and so is the release of one.                                           *)
LEMMA SameRelease ==
  ASSUME NEW r \in Requests, Scheduler!ReleaseLease(r)
  PROVE  SP!ReleaseLease(r) /\ SP!Next
<1>1. \A g, m : SP!drained(g, m) = Scheduler!drained(g, m)
  BY SameCounts DEF SP!drained, Scheduler!drained, SP!Smaller, Scheduler!Smaller
<1>2. \A g, m : /\ SP!Served(g, m) = Scheduler!Served(g, m)
                /\ SP!StillQueued(g, m) = Scheduler!StillQueued(g, m)
  BY <1>1 DEF SP!Served, Scheduler!Served, SP!StillQueued, Scheduler!StillQueued
<1>3. \A g : SP!LeasesAfter(g) = Scheduler!LeasesAfter(g)
  BY <1>2 DEF SP!LeasesAfter, Scheduler!LeasesAfter, SP!LeaseFor, Scheduler!LeaseFor
<1>4. SP!ReleaseLease(r)
  BY <1>2, <1>3 DEF SP!ReleaseLease, Scheduler!ReleaseLease
<1> QED  BY <1>4 DEF SP!Next

(* No lease and no waiting call bears the id of a task: cancelling a task  *)
(* finds nothing to release.                                               *)
LEMMA NothingToRelease ==
  ASSUME IInv, NEW u \in TaskId, Scheduler!ReleaseByTaskId(u)
  PROVE  UNCHANGED schedulerVars
<1>1. /\ activeLeases \in SUBSET SP!Lease /\ queues \in [Pool -> Seq(SP!QueueEntry)]
      /\ promise \in [Requests -> SP!PromiseState]
  BY DEF IInv, SP!IInv, SP!TypeOK
<1>2. u # Placeholder
  BY DEF IInv, TypeOK, TaskId, Placeholder, NoParent
<1>3. {l \in activeLeases : l.taskId = u} = {}
  BY <1>1, <1>2 DEF SP!Lease
<1>4. ASSUME NEW m \in Pool
      PROVE  Scheduler!drained({}, m) = 0
  <2>1. {l \in {} : l.model = m} = {} /\ Scheduler!Cardinality({l \in {} : l.model = m}) = 0
    BY FS_EmptySet, SameCounts
  <2>2. /\ Scheduler!countActiveLeases(m) \in Nat /\ MaxConcurrent[m] \in Nat
        /\ Scheduler!countActiveLeases(m) <= MaxConcurrent[m]
    <3>1. IsFiniteSet(Scheduler!LeasesOn(m))
            /\ Scheduler!countActiveLeases(m) <= MaxConcurrent[m]
      BY SameCounts DEF IInv, SP!IInv, SP!LeasesFinite, SP!WithinCapacity
    <3>2. Scheduler!countActiveLeases(m) = Cardinality(Scheduler!LeasesOn(m))
      BY SameCounts DEF Scheduler!countActiveLeases
    <3>3. Cardinality(Scheduler!LeasesOn(m)) \in Nat
      BY <3>1, FS_CardinalityType
    <3> QED  BY <3>1, <3>2, <3>3, DelegationAssumption DEF DelegationAssumption
  <2>3. Len(queues[m]) \in Nat
    BY <1>1
  <2> QED  BY <2>1, <2>2, <2>3 DEF Scheduler!drained, Scheduler!Smaller
<1>5. ASSUME NEW m \in Pool
      PROVE  Scheduler!Served({}, m) = {} /\ Scheduler!StillQueued({}, m) = queues[m]
  <2>1. queues[m] \in Seq(SP!QueueEntry)
    BY <1>1
  <2>2. SubSeq(queues[m], 1, Len(queues[m])) = queues[m]
    BY <2>1
  <2> QED  BY <1>4, <2>2 DEF Scheduler!Served, Scheduler!StillQueued
<1>6. ASSUME NEW m \in Pool
      PROVE  Scheduler!Without(queues[m], u) = queues[m]
  <2>1. PICK q \in Seq(SP!QueueEntry) : q = queues[m]
    BY <1>1
  <2>2. PICK n \in Nat : n = Len(q)
    BY <2>1
  <2> DEFINE kept == {i \in 1..Len(q) : q[i].taskId # u}
  <2>3. kept = 1..n
    <3>1. ASSUME NEW i \in 1..n PROVE q[i].taskId # u
      <4>1. q[i] \in SP!QueueEntry
        BY <2>1, <2>2
      <4> QED  BY <1>2, <4>1 DEF SP!QueueEntry
    <3> QED  BY <2>2, <3>1
  <2>4. \A i \in 0..n : Scheduler!Cardinality(1..i) = i
    BY FS_Interval, SameCounts
  <2>5. ASSUME NEW k \in 1..n
        PROVE  Scheduler!Place(1..n, k) = k
    <3>1. ASSUME NEW i \in 1..n PROVE Scheduler!Cardinality(1..n \cap 1..i) = i
      <4>1. 1..n \cap 1..i = 1..i
        OBVIOUS
      <4>2. Scheduler!Cardinality(1..i) = i
        BY <2>4
      <4> QED  BY <4>1, <4>2, Zenon
    <3> QED  BY <3>1 DEF Scheduler!Place
  <2>6. Scheduler!Without(q, u) = [k \in 1..n |-> q[k]]
    <3>1. Scheduler!Without(q, u) =
            [k \in 1..Scheduler!Cardinality(kept) |-> q[Scheduler!Place(kept, k)]]
      BY DEF Scheduler!Without
    <3> HIDE DEF kept
    <3>2. Scheduler!Cardinality(kept) = n
      BY <2>3, <2>4
    <3> QED  BY <2>3, <2>5, <3>1, <3>2
  <2> QED  BY <2>1, <2>2, <2>6
<1>7. activeLeases' = activeLeases
  BY <1>3, <1>5 DEF Scheduler!ReleaseByTaskId, Scheduler!LeasesAfter
<1>8. queues' = queues
  BY <1>1, <1>3, <1>5, <1>6 DEF Scheduler!ReleaseByTaskId
<1>9. promise' = promise
  <2>1. ASSUME NEW m \in Pool, NEW i \in 1..Len(queues[m]), NEW c
        PROVE  queues[m][i] # [id |-> c, taskId |-> u]
    <3>1. queues[m][i] \in SP!QueueEntry
      BY <1>1
    <3> QED  BY <1>2, <3>1 DEF SP!QueueEntry
  <2>2. promise' = [c \in Requests |->
          IF \E m \in Pool : \E e \in Scheduler!Served({}, m) : e.id = c THEN "granted"
          ELSE IF \E m \in Pool : \E i \in 1..Len(Scheduler!StillQueued({}, m)) :
                    Scheduler!StillQueued({}, m)[i] = [id |-> c, taskId |-> u]
            THEN "rejected"
          ELSE promise[c]]
    BY <1>3 DEF Scheduler!ReleaseByTaskId
  <2>3. \A c : ~\E m \in Pool : \E e \in Scheduler!Served({}, m) : e.id = c
    BY <1>5
  <2>4. \A c : ~\E m \in Pool : \E i \in 1..Len(Scheduler!StillQueued({}, m)) :
                Scheduler!StillQueued({}, m)[i] = [id |-> c, taskId |-> u]
    BY <1>5, <2>1
  <2>5. promise' = [c \in Requests |-> promise[c]]
    BY <2>2, <2>3, <2>4, Zenon
  <2> QED  BY <1>1, <2>5
<1> QED  BY <1>7, <1>8, <1>9 DEF schedulerVars

(* A release hands slots to calls that waited, and queues lose entries.    *)
LEMMA ReleaseFromQueues ==
  ASSUME IInv, NEW r \in Requests, Scheduler!ReleaseLease(r)
  PROVE  /\ SP!IInv'
         /\ \A l \in activeLeases' :
              \/ l \in activeLeases
              \/ /\ promise'[l.id] = "granted"
                 /\ \E m \in Pool : \E i \in 1..Len(queues[m]) : l.id = queues[m][i].id
         /\ \A m \in Pool : \A i \in 1..Len(queues'[m]) :
              \E j \in 1..Len(queues[m]) : queues'[m][i] = queues[m][j]
         /\ \A c \in Requests : promise[c] = "granted" => promise'[c] = "granted"
<1> DEFINE gone == {l \in activeLeases : l.id = r}
<1>1. SP!ReleaseLease(r) /\ SP!Next
  BY SameRelease
<1>2. /\ activeLeases' = SP!LeasesAfter(gone)
      /\ queues' = [m \in Pool |-> SP!StillQueued(gone, m)]
      /\ promise' = [c \in Requests |->
                      IF \E m \in Pool : \E e \in SP!Served(gone, m) : e.id = c
                        THEN "granted" ELSE promise[c]]
  BY <1>1 DEF SP!ReleaseLease
<1>3. gone \in SUBSET activeLeases
  OBVIOUS
<1> HIDE DEF gone
<1>4. SP!PoolAssumption
  BY DelegationAssumption DEF DelegationAssumption, SP!PoolAssumption
<1>5. ASSUME NEW m \in Pool
      PROVE  /\ \A e \in SP!Served(gone, m) :
                   \E i \in 1..Len(queues[m]) : e = queues[m][i] /\ e.id \in Requests
             /\ \A i \in 1..Len(SP!StillQueued(gone, m)) :
                   \E j \in 1..Len(queues[m]) : SP!StillQueued(gone, m)[i] = queues[m][j]
  <2>1. PICK q \in Seq(SP!QueueEntry) : q = queues[m]
    BY DEF IInv, SP!IInv, SP!TypeOK
  <2>2. PICK n \in Nat : n = Len(q)
    BY <2>1
  <2>3. PICK k \in 0..n : k = SP!drained(gone, m)
    BY <1>3, <1>4, <2>1, <2>2, SP!DrainedBounds DEF IInv
  <2>4. SP!Served(gone, m) = {q[i] : i \in 1..k}
    BY <2>1, <2>3 DEF SP!Served
  <2>5. SP!StillQueued(gone, m) = SubSeq(q, k + 1, n)
    BY <2>1, <2>2, <2>3 DEF SP!StillQueued
  <2>6. \A i \in 1..n : q[i] \in SP!QueueEntry
    BY <2>1, <2>2
  <2>7. \A e \in SP!Served(gone, m) : \E i \in 1..n : e = q[i] /\ e.id \in Requests
    BY <2>4, <2>6 DEF SP!QueueEntry
  <2>8. /\ Len(SubSeq(q, k + 1, n)) = n - k
        /\ \A i \in 1..n - k : SubSeq(q, k + 1, n)[i] = q[k + i] /\ k + i \in 1..n
    BY <2>1, <2>2
  <2> QED  BY <2>1, <2>2, <2>5, <2>7, <2>8
<1>6. \A l \in activeLeases' :
        \/ l \in activeLeases
        \/ \E m \in Pool : \E e \in SP!Served(gone, m) : l.id = e.id
  BY <1>2 DEF SP!LeasesAfter, SP!LeaseFor
<1>7. SP!IInv'
  BY <1>1, SchedulerSteps DEF IInv
<1>8. ASSUME NEW l \in activeLeases', l \notin activeLeases
      PROVE  /\ promise'[l.id] = "granted"
             /\ \E m \in Pool : \E i \in 1..Len(queues[m]) : l.id = queues[m][i].id
  <2>1. PICK m \in Pool : \E e \in SP!Served(gone, m) : l.id = e.id
    BY <1>6, <1>8
  <2>2. PICK e \in SP!Served(gone, m) : l.id = e.id
    BY <2>1
  <2>3. e.id \in Requests /\ \E i \in 1..Len(queues[m]) : e = queues[m][i]
    BY <1>5
  <2> QED  BY <1>2, <2>2, <2>3
<1>9. \A m \in Pool : \A i \in 1..Len(queues'[m]) :
        \E j \in 1..Len(queues[m]) : queues'[m][i] = queues[m][j]
  <2>1. \A m \in Pool : queues'[m] = SP!StillQueued(gone, m)
    BY <1>2
  <2> QED  BY <1>5, <2>1
<1>10. \A c \in Requests : promise[c] = "granted" => promise'[c] = "granted"
  BY <1>2
<1> QED  BY <1>7, <1>8, <1>9, <1>10

-----------------------------------------------------------------------------
(* What a step that keeps the ancestry of the tasks there are keeps.       *)
Kept ==
  /\ Len(tasks) \in Nat /\ Len(tasks') \in Nat /\ Len(tasks) <= Len(tasks')
  /\ \A t \in 1..Len(tasks) :
       /\ tasks'[t].parent = tasks[t].parent
       /\ tasks'[t].capabilitySet = tasks[t].capabilitySet
       /\ tasks'[t].delegationDepth = tasks[t].delegationDepth
       /\ tasks'[t].model = tasks[t].model

(* What fits goes on to fit, also a copy of it in another state.           *)
LEMMA FitsStays ==
  ASSUME Kept, NEW n \in Int, n <= Len(tasks), NEW task, NEW same, Fits(task, n),
         same.parent = task.parent, same.capabilitySet = task.capabilitySet,
         same.delegationDepth = task.delegationDepth
  PROVE  \A k \in Int : n <= k => Fits(same, k)'
BY DEF Kept, Fits

(* A table that keeps its tasks, and grows by a task in its place at most. *)
LEMMA TreeGrows ==
  ASSUME IInv, Kept,
         \A t \in 1..Len(tasks') : t <= Len(tasks) \/ InPlace(t)',
         \A r \in Requests : response'[r] = response[r] \/ response'[r] > Len(tasks),
         \A r \in DOMAIN snapshot' :
           \/ r \in DOMAIN snapshot /\ snapshot'[r] = snapshot[r]
           \/ Fits(snapshot[r], Len(tasks))'
  PROVE  TreeFits'
<1>1. ASSUME NEW t \in 1..Len(tasks'), t <= Len(tasks)
      PROVE  InPlace(t)'
  <2>1. t \in TaskId /\ t - 1 \in Int /\ t - 1 <= Len(tasks)
    BY <1>1 DEF TaskId, Kept
  <2>2. PICK before : before = tasks[t]
    OBVIOUS
  <2>3. PICK after : after = tasks'[t]
    OBVIOUS
  <2>4. InPlace(t)
    BY <2>1 DEF IInv, TreeFits
  <2>5. /\ after.parent = before.parent /\ after.capabilitySet = before.capabilitySet
        /\ after.delegationDepth = before.delegationDepth
    BY <2>1, <2>2, <2>3 DEF Kept, TaskId
  <2>6. ASSUME Delegated(t)'
        PROVE  Fits(tasks[t], t - 1)'
    <3>1. Delegated(t)
      BY <1>1, <2>1, <2>6 DEF Delegated, Kept
    <3>2. Fits(before, t - 1)
      BY <2>2, <2>4, <3>1 DEF InPlace
    <3>3. Fits(after, t - 1)'
      BY <2>1, <2>5, <3>2, FitsStays
    <3> QED  BY <2>3, <3>3 DEF Fits
  <2> QED  BY <2>2, <2>3, <2>4, <2>5, <2>6 DEF InPlace
<1>2. ASSUME NEW r \in DOMAIN snapshot', r \in DOMAIN snapshot, snapshot'[r] = snapshot[r]
      PROVE  Fits(snapshot[r], Len(tasks))'
  <2>1. PICK n \in Nat : n = Len(tasks)
    BY DEF Kept
  <2>2. PICK k \in Nat : k = Len(tasks')
    BY DEF Kept
  <2>3. PICK child : child = snapshot[r]
    OBVIOUS
  <2>4. Fits(child, n)
    BY <1>2, <2>1, <2>3 DEF IInv, TreeFits
  <2>5. n <= k
    BY <2>1, <2>2 DEF Kept
  <2>6. Fits(child, k)'
    BY <2>1, <2>4, <2>5, FitsStays
  <2> QED  BY <1>2, <2>2, <2>3, <2>6 DEF Fits
<1> QED  BY <1>1, <1>2 DEF TreeFits, TaskId

-----------------------------------------------------------------------------
(* The child a request asks for fits under its parent.                     *)
LEMMA ChildFits ==
  ASSUME IInv, NEW p \in TaskId, NEW body \in Bodies, Admissible(p, body)
  PROVE  /\ ChildOf(p, body) \in Task
         /\ Fits(ChildOf(p, body), Len(tasks))
         /\ ChildOf(p, body).model = body.model
<1>1. /\ tasks[p] \in Task /\ Len(tasks) \in Nat /\ p \in 1..Len(tasks)
  BY DEF IInv, TypeOK, TaskId
<1>2. /\ body.capabilities \in SUBSET Capabilities /\ body.cap \in BudgetCaps \cup {NoCap}
      /\ body.model \in Names
  BY DelegationAssumption DEF DelegationAssumption
<1>3. tasks[p].delegationDepth + 1 \in Int /\ p \in Nat /\ BudgetCaps \subseteq Int
  BY <1>1, DelegationAssumption DEF Task, DelegationAssumption
<1>4. ChildOf(p, body) \in Task
  BY <1>2, <1>3 DEF ChildOf, NewTask, Task, TaskState
<1>5. /\ body.capabilities \subseteq tasks[p].capabilitySet
      /\ tasks[p].delegationDepth + 1 <= MAX_DELEGATION_DEPTH
  BY DEF Admissible, DepthAllowed, CapabilitiesAllowed
<1>6. Fits(ChildOf(p, body), Len(tasks))
  BY <1>1, <1>5 DEF ChildOf, NewTask, Fits
<1> QED  BY <1>4, <1>6 DEF ChildOf, NewTask

(* A new task at the end of the table leaves the others as they are.       *)
LEMMA Appended ==
  ASSUME IInv, NEW child \in Task, tasks' = Append(tasks, child)
  PROVE  /\ Kept /\ tasks' \in Seq(Task) /\ Len(tasks') = Len(tasks) + 1
         /\ tasks'[Len(tasks')] = child /\ Len(tasks) \in Nat
         /\ Fits(child, Len(tasks)) =>
              \A t \in 1..Len(tasks') : t <= Len(tasks) \/ InPlace(t)'
<1>1. /\ tasks \in Seq(Task) /\ Len(tasks) \in Nat /\ tasks' \in Seq(Task)
      /\ Len(tasks') = Len(tasks) + 1
      /\ tasks'[Len(tasks) + 1] = child /\ \A t \in 1..Len(tasks) : tasks'[t] = tasks[t]
  BY DEF IInv, TypeOK
<1>2. Kept
  BY <1>1 DEF Kept
<1>3. ASSUME Fits(child, Len(tasks)), NEW t \in 1..Len(tasks'), ~(t <= Len(tasks))
      PROVE  InPlace(t)'
  <2>1. PICK n \in Nat : n = Len(tasks)
    BY <1>1
  <2>2. t = n + 1 /\ n + 1 - 1 = n /\ n <= n /\ n \in Int
    BY <1>1, <1>3, <2>1
  <2>3. Fits(child, n)'
    BY <1>2, <1>3, <2>1, <2>2, FitsStays
  <2>4. tasks'[t] = child /\ t - 1 = n
    BY <1>1, <2>1, <2>2
  <2>5. child.parent \in 0..n
    BY <2>3 DEF Fits
  <2> QED  BY <2>3, <2>4, <2>5 DEF Fits, InPlace
<1> QED  BY <1>1, <1>2, <1>3

(* A new task that is delegated to a pair has a lease.                     *)
LEMMA BoundGrows ==
  ASSUME IInv, NEW child \in Task, tasks' = Append(tasks, child), UNCHANGED HasScheduler,
         \A r \in Requests : outcome'[r] # "created" => response'[r] = NoParent,
         \A r \in Requests : response'[r] = response[r] \/ response'[r] = Len(tasks'),
         \A r \in Requests : outcome[r] = "created" => response'[r] = response[r],
         \A r \in Requests : promise[r] = "granted" => promise'[r] = "granted",
         (HasScheduler /\ child.model \in Models) =>
           \/ \A r \in Requests : response'[r] = response[r]
           \/ \E r \in Requests : response'[r] = Len(tasks') /\ promise'[r] = "granted"
  PROVE  BoundLeased'
<1>1. \A r \in Requests : response[r] <= Len(tasks) /\ response[r] \in Nat
  BY DEF IInv, BoundLeased, TypeOK
<1>2. Len(tasks') = Len(tasks) + 1 /\ tasks'[Len(tasks')] = child /\ Len(tasks) \in Nat
  BY Appended
<1>3. \A r \in Requests : response'[r] <= Len(tasks')
  BY <1>1, <1>2
<1>4. ASSUME HasScheduler, NEW t \in 1..Len(tasks'), Delegated(t)', tasks'[t].model \in Models
      PROVE  \E r \in Requests : response'[r] = t /\ promise'[r] = "granted"
  <2>1. CASE t \in TaskId
    <3>1. tasks[t].model \in Models
      BY <1>4, <2>1 DEF IInv, TypeOK, TaskId
    <3>2. Delegated(t)
      BY <1>2, <1>4, <2>1 DEF Delegated, TaskId
    <3>3. PICK r \in Requests : response[r] = t /\ promise[r] = "granted"
      BY <1>4, <2>1, <3>1, <3>2 DEF IInv, BoundLeased
    <3>4. t # NoParent
      BY <2>1 DEF TaskId, NoParent, IInv, TypeOK
    <3> QED  BY <3>3, <3>4 DEF IInv, BoundLeased
  <2>2. CASE t \notin TaskId
    <3>1. t = Len(tasks') /\ tasks'[t] = child
      BY <1>2, <1>4, <2>2 DEF TaskId
    <3>2. ~ \A r \in Requests : response'[r] = response[r]
      BY <1>1, <1>2, <1>4, <3>1 DEF Delegated
    <3> QED  BY <1>4, <3>1, <3>2
  <2> QED  BY <2>1, <2>2
<1> QED  BY <1>3, <1>4 DEF BoundLeased, TaskId

(* No task is added, no answer taken back.                                 *)
LEMMA BoundStays ==
  ASSUME IInv, Kept, Len(tasks') = Len(tasks), UNCHANGED <<HasScheduler, response>>,
         \A r \in Requests : outcome[r] = "created" => outcome'[r] = "created",
         \A r \in Requests : promise[r] = "granted" => promise'[r] = "granted"
  PROVE  BoundLeased'
<1>1. \A r \in Requests : /\ outcome'[r] # "created" => response'[r] = NoParent
                          /\ response'[r] <= Len(tasks')
  BY DEF IInv, BoundLeased
<1>2. ASSUME HasScheduler, NEW t \in TaskId, Delegated(t)', tasks'[t].model \in Models
      PROVE  \E r \in Requests : response'[r] = t /\ promise'[r] = "granted"
  <2>1. tasks[t].model \in Models /\ Delegated(t)
    BY <1>2 DEF Kept, TaskId, Delegated
  <2>2. PICK r \in Requests : response[r] = t /\ promise[r] = "granted"
    BY <1>2, <2>1 DEF IInv, BoundLeased
  <2> QED  BY <2>2
<1> QED  BY <1>1, <1>2 DEF BoundLeased, TaskId

(* At first there are no tasks and no leases.                              *)
LEMMA InitFits == Init => IInv
<1> SUFFICES ASSUME Init PROVE IInv
  OBVIOUS
<1>1. SP!IInv /\ Scheduler!TypeOK
  BY SchedulerStarts, SameTypes DEF Init, SP!IInv
<1>2. TypeOK
  <2>1. tasks \in Seq(Task)
    BY DEF Init
  <2> QED  BY <1>1, <2>1, DelegationAssumption DEF Init, TypeOK, DelegationAssumption, NoParent
<1>3. TreeFits
  BY DEF Init, TreeFits, TaskId
<1>4. LeasesKnown
  BY DEF Init, LeasesKnown, Scheduler!Init
<1>5. BoundLeased
  BY DEF Init, BoundLeased, TaskId, NoParent
<1> QED  BY <1>1, <1>2, <1>3, <1>4, <1>5 DEF IInv

(* Leases and entries of queues name requests.                             *)
LEMMA LeasedAreRequests ==
  ASSUME SP!IInv
  PROVE  /\ \A l \in activeLeases : l.id \in Requests
         /\ \A m \in Pool : \A i \in 1..Len(queues[m]) : queues[m][i].id \in Requests
<1>1. activeLeases \in SUBSET SP!Lease /\ queues \in [Pool -> Seq(SP!QueueEntry)]
  BY DEF SP!IInv, SP!TypeOK
<1>2. ASSUME NEW m \in Pool, NEW i \in 1..Len(queues[m]) PROVE queues[m][i].id \in Requests
  <2>1. queues[m][i] \in SP!QueueEntry
    BY <1>1
  <2> QED  BY <2>1 DEF SP!QueueEntry
<1> QED  BY <1>1, <1>2 DEF SP!Lease

(* Leases stay known while the scheduler rests and no request that holds   *)
(* or waits for one is forgotten.                                          *)
LEMMA LeasesStay ==
  ASSUME IInv, UNCHANGED schedulerVars,
         \A r \in Requests : outcome[r] \in Live => outcome'[r] \in Live
  PROVE  LeasesKnown' /\ SP!IInv' /\ Scheduler!TypeOK'
<1>1. UNCHANGED <<activeLeases, queues, promise>>
  BY DEF schedulerVars
<1>2. SP!IInv'
  BY <1>1 DEF IInv, SP!IInv, SP!TypeOK, SP!LeasesFinite, SP!WithinCapacity,
              SP!countActiveLeases, SP!LeasesOn
<1>4. LeasesKnown'
  BY <1>1, LeasedAreRequests DEF IInv, LeasesKnown
<1>5. Scheduler!TypeOK'
  BY <1>2 DEF SP!IInv, SP!TypeOK, Scheduler!TypeOK, SP!Lease, Scheduler!Lease,
              SP!QueueEntry, Scheduler!QueueEntry, SP!PromiseState, Scheduler!PromiseState
<1> QED  BY <1>2, <1>4, <1>5

(* A posted task is in its place wherever it is put.                       *)
LEMMA PostFits ==
  ASSUME IInv, NEW p \in TaskId \cup {NoParent}, NEW body \in PostBodies, PostTask(p, body)
  PROVE  IInv'
<1> DEFINE child == NewTask(p, body.capabilities, body.depth, body.cap, body.model)
<1>1. /\ tasks' = Append(tasks, child)
      /\ UNCHANGED <<HasScheduler, outcome, response, snapshot, schedulerVars, patches, restarts>>
      /\ UNCHANGED promise
  BY DEF PostTask, schedulerVars
<1>2. p \in 0..Len(tasks) /\ Len(tasks) \in Nat
  BY DEF TaskId, NoParent, IInv, TypeOK
<1>3. child \in Task /\ child.parent = p
  <2>1. body \in [capabilities : SUBSET Capabilities, depth : Int,
                  cap : Int \cup {NoCap}, model : Names]
    BY DelegationAssumption DEF DelegationAssumption
  <2> QED  BY <1>2, <2>1 DEF NewTask, Task, TaskState
<1> HIDE DEF child
<1>4. LeasesKnown' /\ SP!IInv' /\ Scheduler!TypeOK'
  BY <1>1, LeasesStay
<1>5. TypeOK'
  BY <1>1, <1>3, <1>4, Appended DEF IInv, TypeOK
<1>6. /\ Kept /\ Len(tasks') = Len(tasks) + 1 /\ tasks'[Len(tasks')] = child
  BY <1>1, <1>3, Appended
<1>7. TreeFits'
  <2>1. ASSUME NEW t \in 1..Len(tasks'), ~(t <= Len(tasks)) PROVE InPlace(t)'
    <3>1. t = Len(tasks') /\ t - 1 = Len(tasks)
      BY <1>2, <1>6, <2>1
    <3>2. ~Delegated(t)'
      BY <1>1, <1>2, <2>1 DEF Delegated, IInv, BoundLeased, TypeOK
    <3> QED  BY <1>2, <1>3, <1>6, <3>1, <3>2 DEF InPlace
  <2> QED  BY <1>1, <1>6, <2>1, TreeGrows
<1>8. BoundLeased'
  BY <1>1, <1>3, BoundGrows DEF IInv, BoundLeased
<1> QED  BY <1>4, <1>5, <1>7, <1>8 DEF IInv

(* A step on the states of tasks alone.                                    *)
LEMMA StatesFit ==
  ASSUME IInv, tasks' \in Seq(Task), Kept, Len(tasks') = Len(tasks), patches' \in 0..MaxPatches,
         UNCHANGED <<HasScheduler, outcome, response, snapshot, schedulerVars, restarts>>
  PROVE  IInv'
<1>1. LeasesKnown' /\ SP!IInv' /\ Scheduler!TypeOK' /\ UNCHANGED promise
  BY LeasesStay DEF schedulerVars
<1>2. TypeOK'
  BY <1>1 DEF IInv, TypeOK
<1>3. TreeFits'
  BY TreeGrows
<1>4. BoundLeased'
  BY <1>1, BoundStays
<1> QED  BY <1>1, <1>2, <1>3, <1>4 DEF IInv

(* The route that patches states touches nothing else,                     *)
LEMMA PatchFits ==
  ASSUME IInv, NEW t \in TaskId, NEW s \in PatchStates, PatchState(t, s)
  PROVE  IInv'
<1>1. /\ tasks' = [tasks EXCEPT ![t].state = s] /\ patches' = patches + 1
      /\ patches < MaxPatches
      /\ UNCHANGED <<HasScheduler, outcome, response, snapshot, schedulerVars, restarts>>
  BY DEF PatchState
<1>2. PICK n \in Nat : n = Len(tasks) /\ t \in 1..n /\ tasks \in [1..n -> Task]
  BY DEF IInv, TypeOK, TaskId
<1>3. s \in TaskState
  BY DelegationAssumption DEF DelegationAssumption, TaskState
<1>4. tasks' \in [1..n -> Task]
  <2>1. [tasks[t] EXCEPT !.state = s] \in Task
    BY <1>2, <1>3 DEF Task
  <2> QED  BY <1>1, <1>2, <2>1
<1>5. tasks' \in Seq(Task) /\ Len(tasks') = n
  BY <1>4
<1>6. Kept
  BY <1>1, <1>2, <1>5 DEF Kept, Task
<1>7. patches' \in 0..MaxPatches
  BY <1>1, DelegationAssumption DEF DelegationAssumption, IInv, TypeOK
<1> QED  BY <1>1, <1>2, <1>5, <1>6, <1>7, StatesFit

(* and so does the one that cancels.                                       *)
LEMMA CancelFits ==
  ASSUME IInv, NEW t \in TaskId, Cancel(t)
  PROVE  IInv'
<1>1. /\ tasks' = [u \in TaskId |-> IF u \in Cancellable(t)
                     THEN [tasks[u] EXCEPT !.state = "cancelled"] ELSE tasks[u]]
      /\ Cancellable(t) # {} /\ \A u \in Cancellable(t) : Scheduler!ReleaseByTaskId(u)
      /\ UNCHANGED <<HasScheduler, outcome, response, snapshot, patches, restarts>>
  BY DEF Cancel
<1>2. PICK n \in Nat : n = Len(tasks) /\ tasks \in [1..n -> Task]
  BY DEF IInv, TypeOK
<1>3. \A u \in 1..n : [tasks[u] EXCEPT !.state = "cancelled"] \in Task
  BY <1>2 DEF Task, TaskState
<1>4. tasks' \in [1..n -> Task]
  BY <1>1, <1>2, <1>3 DEF TaskId
<1>5. tasks' \in Seq(Task) /\ Len(tasks') = n
  BY <1>4
<1>6. Kept
  BY <1>1, <1>2, <1>5 DEF Kept, Task, TaskId
<1>7. UNCHANGED schedulerVars
  <2>1. \E u \in TaskId : Scheduler!ReleaseByTaskId(u)
    BY <1>1 DEF Cancellable
  <2> QED  BY <2>1, NothingToRelease
<1>8. patches' \in 0..MaxPatches
  BY <1>1 DEF IInv, TypeOK
<1> QED  BY <1>1, <1>2, <1>5, <1>6, <1>7, <1>8, StatesFit

(* A refused request leaves no trace.                                      *)
LEMMA RefusedFits ==
  ASSUME IInv, NEW r \in Requests, NEW p \in TaskId, NEW body \in Bodies,
         DelegateRefused(r, p, body)
  PROVE  IInv'
<1>1. /\ outcome[r] = "unsent" /\ outcome' = [outcome EXCEPT ![r] = "rejected"]
      /\ UNCHANGED <<HasScheduler, tasks, response, snapshot, schedulerVars, patches, restarts>>
      /\ UNCHANGED promise
  BY DEF DelegateRefused, Unsent, schedulerVars
<1>2. /\ \A q \in Requests : outcome[q] \in Live => outcome'[q] \in Live
      /\ \A q \in Requests : outcome[q] = "created" => outcome'[q] = "created"
      /\ \A q \in Requests : outcome[q] = "waiting" <=> outcome'[q] = "waiting"
      /\ outcome' \in [Requests -> {"unsent", "waiting", "created", "rejected", "lost"}]
  BY <1>1 DEF IInv, TypeOK, Live
<1>3. LeasesKnown' /\ SP!IInv' /\ Scheduler!TypeOK'
  BY <1>1, <1>2, LeasesStay
<1>4. TypeOK'
  BY <1>1, <1>2, <1>3 DEF IInv, TypeOK
<1>5. Kept /\ Len(tasks') = Len(tasks)
  BY <1>1 DEF Kept, IInv, TypeOK
<1>6. TreeFits'
  BY <1>1, <1>5, TreeGrows
<1>7. BoundLeased'
  BY <1>1, <1>2, <1>5, BoundStays
<1> QED  BY <1>3, <1>4, <1>6, <1>7 DEF IInv

(* A child that needs no lease fits when it is created.                    *)
LEMMA UnboundFits ==
  ASSUME IInv, NEW r \in Requests, NEW p \in TaskId, NEW body \in Bodies,
         DelegateUnbound(r, p, body)
  PROVE  IInv'
<1> DEFINE child == ChildOf(p, body)
<1>1. /\ outcome[r] = "unsent" /\ Admissible(p, body) /\ tasks' = Append(tasks, child)
      /\ HasScheduler => body.model \notin Models
      /\ outcome' = [outcome EXCEPT ![r] = "created"]
      /\ response' = [response EXCEPT ![r] = Len(tasks')]
      /\ UNCHANGED <<HasScheduler, snapshot, schedulerVars, patches, restarts>>
      /\ UNCHANGED promise
  BY DEF DelegateUnbound, Unsent, schedulerVars
<1>2. /\ \A q \in Requests : outcome[q] \in Live => outcome'[q] \in Live
      /\ \A q \in Requests : outcome[q] = "created" => response'[q] = response[q]
      /\ \A q \in Requests : response'[q] = response[q] \/ response'[q] = Len(tasks')
      /\ \A q \in Requests : outcome'[q] # "created" => response'[q] = NoParent
      /\ \A q \in Requests : outcome[q] = "waiting" <=> outcome'[q] = "waiting"
      /\ outcome' \in [Requests -> {"unsent", "waiting", "created", "rejected", "lost"}]
  BY <1>1 DEF IInv, TypeOK, BoundLeased, Live
<1>3. LeasesKnown' /\ SP!IInv' /\ Scheduler!TypeOK'
  BY <1>1, <1>2, LeasesStay
<1>4. child \in Task /\ Fits(child, Len(tasks)) /\ child.model = body.model
  BY <1>1, ChildFits
<1> HIDE DEF child
<1>5. /\ Kept /\ tasks' \in Seq(Task) /\ Len(tasks') \in Nat /\ Len(tasks') > Len(tasks)
      /\ \A t \in 1..Len(tasks') : t <= Len(tasks) \/ InPlace(t)'
  BY <1>1, <1>4, Appended
<1>6. TypeOK'
  <2>1. response' \in [Requests -> Nat]
    BY <1>1, <1>5 DEF IInv, TypeOK
  <2> QED  BY <1>1, <1>2, <1>3, <1>5, <2>1 DEF IInv, TypeOK
<1>7. TreeFits'
  <2>1. \A q \in Requests : response'[q] = response[q] \/ response'[q] > Len(tasks)
    BY <1>2, <1>5
  <2> QED  BY <1>1, <1>5, <2>1, TreeGrows
<1>8. BoundLeased'
  BY <1>1, <1>2, <1>4, BoundGrows
<1> QED  BY <1>3, <1>6, <1>7, <1>8 DEF IInv

(* A request that asks for a lease keeps a child that fits.                *)
LEMMA BoundFits ==
  ASSUME IInv, NEW r \in Requests, NEW p \in TaskId, NEW body \in Bodies,
         DelegateBound(r, p, body)
  PROVE  IInv'
<1> DEFINE child == ChildOf(p, body)
           m == body.model
<1>1. /\ outcome[r] = "unsent" /\ Admissible(p, body) /\ HasScheduler /\ m \in Models
      /\ Scheduler!AcquireLease(r, Placeholder, m)
      /\ outcome' = [outcome EXCEPT ![r] = "waiting"]
      /\ snapshot' = [q \in DOMAIN snapshot \cup {r} |->
                       IF q = r THEN child ELSE snapshot[q]]
      /\ UNCHANGED <<HasScheduler, tasks, response, patches, restarts>>
  BY DEF DelegateBound, Unsent
<1>2. m \in Pool /\ m \in Models
  BY <1>1, DelegationAssumption DEF Admissible, DelegationAssumption
<1>3. child \in Task /\ Fits(child, Len(tasks))
  BY <1>1, ChildFits
<1> HIDE DEF child, m
<1>4. SP!IInv'
  BY <1>1, <1>2, SameAcquire, SchedulerSteps DEF IInv
<1>5. Scheduler!TypeOK'
  BY <1>4 DEF SP!IInv, SP!TypeOK, Scheduler!TypeOK, SP!Lease, Scheduler!Lease,
              SP!QueueEntry, Scheduler!QueueEntry, SP!PromiseState, Scheduler!PromiseState
<1>6. /\ \A q \in Requests : outcome[q] \in Live => outcome'[q] \in Live
      /\ \A q \in Requests : outcome[q] = "created" => outcome'[q] = "created"
      /\ \A q \in Requests : outcome'[q] = "waiting" <=> outcome[q] = "waiting" \/ q = r
      /\ outcome' \in [Requests -> {"unsent", "waiting", "created", "rejected", "lost"}]
      /\ outcome'[r] \in Live
  BY <1>1 DEF IInv, TypeOK, Live
<1>7. TypeOK'
  BY <1>1, <1>3, <1>5, <1>6 DEF IInv, TypeOK
<1>8. Kept /\ Len(tasks') = Len(tasks)
  BY <1>1 DEF Kept, IInv, TypeOK
<1>9. TreeFits'
  <2>1. ASSUME NEW q \in DOMAIN snapshot'
        PROVE  \/ q \in DOMAIN snapshot /\ snapshot'[q] = snapshot[q]
               \/ Fits(snapshot[q], Len(tasks))'
    <3>1. CASE q = r
      <4>1. PICK body_ : body_ = child
        OBVIOUS
      <4>2. snapshot'[q] = body_ /\ Fits(body_, Len(tasks))
        BY <1>1, <1>3, <3>1, <4>1
      <4> QED  BY <1>1, <4>2 DEF Fits
    <3>2. CASE q # r
      BY <1>1, <2>1, <3>2
    <3> QED  BY <3>1, <3>2
  <2>2. \A t \in 1..Len(tasks') : t <= Len(tasks)
    BY <1>8 DEF Kept
  <2> QED  BY <1>1, <1>8, <2>1, <2>2, TreeGrows
<1>10. LeasesKnown' /\ \A q \in Requests : promise[q] = "granted" => promise'[q] = "granted"
  <2>1. CASE Scheduler!AcquireFree(r, Placeholder, m)
    <3>1. /\ activeLeases' = activeLeases \cup {[id |-> r, taskId |-> Placeholder, model |-> m]}
          /\ promise' = [promise EXCEPT ![r] = "granted"] /\ queues' = queues
      BY <2>1 DEF Scheduler!AcquireFree
    <3>2. /\ \A q \in Requests : promise[q] = "granted" => promise'[q] = "granted"
          /\ promise'[r] = "granted"
      BY <3>1 DEF IInv, SP!IInv, SP!TypeOK
    <3>3. \A l \in activeLeases' : l.id = r \/ l \in activeLeases
      BY <3>1
    <3>4. SP!IInv /\ LeasesKnown
      BY DEF IInv
    <3>5. \A l \in activeLeases' : promise'[l.id] = "granted" /\ outcome'[l.id] \in Live
      BY <1>6, <3>2, <3>3, <3>4, LeasedAreRequests DEF LeasesKnown
    <3>6. \A k \in Pool : \A i \in 1..Len(queues'[k]) : outcome'[queues'[k][i].id] \in Live
      BY <1>6, <3>1, <3>4, LeasedAreRequests DEF LeasesKnown
    <3> QED  BY <3>2, <3>5, <3>6 DEF LeasesKnown
  <2>2. CASE Scheduler!AcquireQueued(r, Placeholder, m)
    <3>1. /\ queues' = [queues EXCEPT ![m] = Append(@, [id |-> r, taskId |-> Placeholder])]
          /\ promise' = [promise EXCEPT ![r] = "pending"] /\ promise[r] = "unmade"
          /\ UNCHANGED activeLeases
      BY <2>2 DEF Scheduler!AcquireQueued
    <3>2. ASSUME NEW k \in Pool, NEW i \in 1..Len(queues'[k])
          PROVE  outcome'[queues'[k][i].id] \in Live
      <4>1. queues \in [Pool -> Seq(SP!QueueEntry)]
        BY DEF IInv, SP!IInv, SP!TypeOK
      <4>2. \/ queues'[k][i].id = r
            \/ i \in 1..Len(queues[k]) /\ queues'[k][i] = queues[k][i]
        BY <1>2, <3>1, <3>2, <4>1
      <4> QED  BY <1>6, <4>2, LeasedAreRequests DEF IInv, LeasesKnown
    <3>3. \A q \in Requests : promise[q] = "granted" => promise'[q] = "granted"
      BY <3>1 DEF IInv, SP!IInv, SP!TypeOK
    <3> QED  BY <1>6, <3>1, <3>2, <3>3, LeasedAreRequests DEF IInv, LeasesKnown
  <2> QED  BY <1>1, <1>2, <2>1, <2>2 DEF Scheduler!AcquireLease, Scheduler!AcquireUnknown
<1>11. BoundLeased'
  BY <1>1, <1>6, <1>8, <1>10, BoundStays
<1> QED  BY <1>4, <1>7, <1>9, <1>10, <1>11 DEF IInv

(* The child of a granted request is the one it was admitted for.          *)
LEMMA ResumeFits ==
  ASSUME IInv, NEW r \in Requests, DelegateResume(r)
  PROVE  IInv'
<1>1. /\ outcome[r] = "waiting" /\ promise[r] = "granted"
      /\ tasks' = Append(tasks, snapshot[r])
      /\ outcome' = [outcome EXCEPT ![r] = "created"]
      /\ response' = [response EXCEPT ![r] = Len(tasks')]
      /\ snapshot' = [q \in DOMAIN snapshot \ {r} |-> snapshot[q]]
      /\ UNCHANGED <<HasScheduler, schedulerVars, patches, restarts>>
      /\ UNCHANGED promise
  BY DEF DelegateResume, schedulerVars
<1>2. /\ \A q \in Requests : outcome[q] \in Live => outcome'[q] \in Live
      /\ \A q \in Requests : outcome[q] = "created" => response'[q] = response[q]
      /\ \A q \in Requests : response'[q] = response[q] \/ response'[q] = Len(tasks')
      /\ \A q \in Requests : outcome'[q] # "created" => response'[q] = NoParent
      /\ \A q \in Requests : outcome'[q] = "waiting" <=> outcome[q] = "waiting" /\ q # r
      /\ outcome' \in [Requests -> {"unsent", "waiting", "created", "rejected", "lost"}]
      /\ response'[r] = Len(tasks')
  BY <1>1 DEF IInv, TypeOK, BoundLeased, Live
<1>3. LeasesKnown' /\ SP!IInv' /\ Scheduler!TypeOK'
  BY <1>1, <1>2, LeasesStay
<1>4. r \in DOMAIN snapshot
  BY <1>1 DEF IInv, TypeOK
<1>5. PICK child \in Task : child = snapshot[r]
  BY <1>4 DEF IInv, TypeOK
<1>6. tasks' = Append(tasks, child) /\ Fits(child, Len(tasks))
  BY <1>1, <1>4, <1>5 DEF IInv, TreeFits
<1>7. /\ Kept /\ tasks' \in Seq(Task) /\ Len(tasks') \in Nat /\ Len(tasks') > Len(tasks)
      /\ \A t \in 1..Len(tasks') : t <= Len(tasks) \/ InPlace(t)'
  BY <1>6, Appended
<1>8. TypeOK'
  <2>1. response' \in [Requests -> Nat]
    BY <1>1, <1>7 DEF IInv, TypeOK
  <2>2. DOMAIN snapshot' = {q \in Requests : outcome'[q] = "waiting"}
    BY <1>1, <1>2 DEF IInv, TypeOK
  <2> QED  BY <1>1, <1>2, <1>3, <1>7, <2>1, <2>2 DEF IInv, TypeOK
<1>9. TreeFits'
  <2>1. \A q \in DOMAIN snapshot' : q \in DOMAIN snapshot /\ snapshot'[q] = snapshot[q]
    BY <1>1
  <2>2. \A q \in Requests : response'[q] = response[q] \/ response'[q] > Len(tasks)
    BY <1>2, <1>7
  <2> QED  BY <1>7, <2>1, <2>2, TreeGrows
<1>10. BoundLeased'
  BY <1>1, <1>2, <1>6, BoundGrows
<1> QED  BY <1>3, <1>8, <1>9, <1>10 DEF IInv

(* A release hands the slot to a request that waits.                       *)
LEMMA ReleaseFits ==
  ASSUME IInv, NEW r \in Requests, ReleaseRoute(r)
  PROVE  IInv'
<1>1. /\ Scheduler!ReleaseLease(r)
      /\ UNCHANGED <<HasScheduler, tasks, outcome, response, snapshot, patches, restarts>>
  BY DEF ReleaseRoute
<1>2. /\ SP!IInv'
      /\ \A l \in activeLeases' :
           \/ l \in activeLeases
           \/ /\ promise'[l.id] = "granted"
              /\ \E m \in Pool : \E i \in 1..Len(queues[m]) : l.id = queues[m][i].id
      /\ \A m \in Pool : \A i \in 1..Len(queues'[m]) :
           \E j \in 1..Len(queues[m]) : queues'[m][i] = queues[m][j]
      /\ \A c \in Requests : promise[c] = "granted" => promise'[c] = "granted"
  BY <1>1, ReleaseFromQueues
<1>3. Scheduler!TypeOK'
  BY <1>2 DEF SP!IInv, SP!TypeOK, Scheduler!TypeOK, SP!Lease, Scheduler!Lease,
              SP!QueueEntry, Scheduler!QueueEntry, SP!PromiseState, Scheduler!PromiseState
<1>4. TypeOK'
  BY <1>1, <1>3 DEF IInv, TypeOK
<1>5. Kept /\ Len(tasks') = Len(tasks)
  BY <1>1 DEF Kept, IInv, TypeOK
<1>6. TreeFits'
  BY <1>1, <1>5, TreeGrows
<1>7. BoundLeased'
  BY <1>1, <1>2, <1>5, BoundStays
<1>8. LeasesKnown'
  <2>1. SP!IInv /\ LeasesKnown
    BY DEF IInv
  <2>2. \A l \in activeLeases' : promise'[l.id] = "granted" /\ outcome[l.id] \in Live
    BY <1>2, <2>1, LeasedAreRequests DEF LeasesKnown
  <2>3. \A m \in Pool : \A i \in 1..Len(queues'[m]) : outcome[queues'[m][i].id] \in Live
    BY <1>2, <2>1 DEF LeasesKnown
  <2> QED  BY <1>1, <2>2, <2>3 DEF LeasesKnown
<1> QED  BY <1>2, <1>4, <1>6, <1>7, <1>8 DEF IInv

(* After a restart nothing is leased and nobody waits.                     *)
LEMMA RestartFits ==
  ASSUME IInv, Restart
  PROVE  IInv'
<1>1. /\ restarts < MaxRestarts /\ restarts' = restarts + 1
      /\ activeLeases' = {} /\ queues' = [m \in Pool |-> <<>>]
      /\ promise' = [q \in Requests |->
                      IF promise[q] = "pending" THEN "rejected" ELSE promise[q]]
      /\ outcome' = [q \in Requests |->
                      IF outcome[q] = "waiting" THEN "lost" ELSE outcome[q]]
      /\ snapshot' = [q \in {} |-> {}]
      /\ UNCHANGED <<HasScheduler, tasks, response, patches>>
  BY DEF Restart
<1>2. SP!IInv'
  <2>1. SP!TypeOK'
    <3>1. queues' \in [Pool -> Seq(SP!QueueEntry)]
      BY <1>1
    <3>2. promise' \in [Requests -> SP!PromiseState]
      BY <1>1 DEF IInv, SP!IInv, SP!TypeOK, SP!PromiseState
    <3> QED  BY <1>1, <3>1, <3>2 DEF SP!TypeOK
  <2>2. ASSUME NEW m \in Pool
        PROVE  SP!IsFiniteSet(SP!LeasesOn(m)') /\ SP!countActiveLeases(m)' <= MaxConcurrent[m]
    <3>1. SP!LeasesOn(m)' = {}
      BY <1>1 DEF SP!LeasesOn
    <3>2. IsFiniteSet({}) /\ Cardinality({}) = 0 /\ MaxConcurrent[m] \in Nat
      BY FS_EmptySet, DelegationAssumption DEF DelegationAssumption
    <3> QED  BY <3>1, <3>2, SameCounts DEF SP!countActiveLeases
  <2> QED  BY <2>1, <2>2 DEF SP!IInv, SP!LeasesFinite, SP!WithinCapacity
<1>3. Scheduler!TypeOK'
  BY <1>2 DEF SP!IInv, SP!TypeOK, Scheduler!TypeOK, SP!Lease, Scheduler!Lease,
              SP!QueueEntry, Scheduler!QueueEntry, SP!PromiseState, Scheduler!PromiseState
<1>4. TypeOK'
  <2>1. outcome' \in [Requests -> {"unsent", "waiting", "created", "rejected", "lost"}]
          /\ \A q \in Requests : outcome'[q] # "waiting"
    BY <1>1 DEF IInv, TypeOK
  <2>2. DOMAIN snapshot' = {}
    BY <1>1
  <2>3. restarts' \in 0..MaxRestarts
    BY <1>1, DelegationAssumption DEF DelegationAssumption, IInv, TypeOK
  <2> QED  BY <1>1, <1>3, <2>1, <2>2, <2>3 DEF IInv, TypeOK
<1>5. Kept /\ Len(tasks') = Len(tasks)
  BY <1>1 DEF Kept, IInv, TypeOK
<1>6. TreeFits'
  BY <1>1, <1>5, TreeGrows
<1>7. BoundLeased'
  BY <1>1, <1>5, BoundStays DEF IInv, TypeOK
<1>8. LeasesKnown'
  BY <1>1 DEF LeasesKnown
<1> QED  BY <1>2, <1>4, <1>6, <1>7, <1>8 DEF IInv

(* IInv is inductive.                                                      *)
LEMMA StepFits == IInv /\ [Next]_vars => IInv'
<1> SUFFICES ASSUME IInv, [Next]_vars PROVE IInv'
  OBVIOUS
<1>1. ASSUME NEW p \in TaskId \cup {NoParent}, NEW body \in PostBodies, PostTask(p, body)
      PROVE  IInv'
  BY <1>1, PostFits
<1>2. ASSUME NEW r \in Requests, NEW p \in TaskId, NEW body \in Bodies,
             \/ DelegateUnbound(r, p, body)
             \/ DelegateBound(r, p, body)
             \/ DelegateRefused(r, p, body)
      PROVE  IInv'
  BY <1>2, UnboundFits, BoundFits, RefusedFits
<1>3. ASSUME NEW r \in Requests, DelegateResume(r) PROVE IInv'
  BY <1>3, ResumeFits
<1>4. ASSUME NEW t \in TaskId, Cancel(t) PROVE IInv'
  BY <1>4, CancelFits
<1>5. ASSUME NEW t \in TaskId, NEW s \in PatchStates, PatchState(t, s) PROVE IInv'
  BY <1>5, PatchFits
<1>6. ASSUME NEW r \in Requests, ReleaseRoute(r) PROVE IInv'
  BY <1>6, ReleaseFits
<1>7. CASE Restart
  BY <1>7, RestartFits
<1>8. CASE UNCHANGED vars
  <2>1. /\ UNCHANGED <<HasScheduler, outcome, response, snapshot, schedulerVars, restarts>>
        /\ tasks' = tasks /\ patches' = patches
    BY <1>8 DEF vars, schedulerVars
  <2>2. tasks' \in Seq(Task) /\ Kept /\ Len(tasks') = Len(tasks) /\ patches' \in 0..MaxPatches
    BY <2>1 DEF Kept, IInv, TypeOK
  <2> QED  BY <2>1, <2>2, StatesFit
<1> QED  BY <1>1, <1>2, <1>3, <1>4, <1>5, <1>6, <1>7, <1>8 DEF Next

(* The invariant, in all reachable states.                                 *)
LEMMA IInvHolds == Spec => []IInv
BY InitFits, StepFits, PTL DEF Spec

-----------------------------------------------------------------------------
(* What lies above a task is the task and what lies above its parent, all  *)
(* of whom are older.                                                      *)
LEMMA AboveByParent ==
  ASSUME IInv, NEW D \in SUBSET TaskId, \A u \in D : tasks[u].parent # NoParent,
         NEW t \in TaskId
  PROVE  /\ t \in Above(t, D) /\ Above(t, D) \in SUBSET TaskId
         /\ ClosedUpwards(Above(t, D), D)
         /\ t \notin D => Above(t, D) = {t}
         /\ t \in D =>
              /\ tasks[t].parent \in TaskId /\ tasks[t].parent < t
              /\ Above(t, D) = Above(tasks[t].parent, D) \cup {t}
              /\ t \notin Above(tasks[t].parent, D)
<1>1. /\ Len(tasks) \in Nat /\ TaskId = 1..Len(tasks)
      /\ \A u \in D : tasks[u].parent \in TaskId /\ tasks[u].parent < u
  BY DEF IInv, TypeOK, TreeFits, InPlace, TaskId, NoParent
<1>2. ASSUME NEW u \in TaskId
      PROVE  u \in Above(u, D) /\ Above(u, D) \in SUBSET TaskId /\ ClosedUpwards(Above(u, D), D)
  <2>1. u \in Above(u, D) /\ Above(u, D) \in SUBSET TaskId
    BY DEF Above
  <2>2. ASSUME NEW v \in Above(u, D), v \in D
        PROVE  tasks[v].parent \in Above(u, D)
    <3>1. tasks[v].parent \in TaskId
      BY <1>1, <2>2
    <3>2. ASSUME NEW S \in SUBSET TaskId, u \in S, ClosedUpwards(S, D)
          PROVE  tasks[v].parent \in S
      BY <2>2, <3>2 DEF Above, ClosedUpwards
    <3> QED  BY <3>1, <3>2 DEF Above
  <2> QED  BY <2>1, <2>2 DEF ClosedUpwards
<1>3. ASSUME t \notin D
      PROVE  Above(t, D) = {t}
  <2>1. ClosedUpwards({t}, D)
    BY <1>3 DEF ClosedUpwards
  <2> QED  BY <1>2, <2>1 DEF Above
<1>4. ASSUME t \in D
      PROVE  /\ Above(t, D) = Above(tasks[t].parent, D) \cup {t}
             /\ t \notin Above(tasks[t].parent, D)
  <2>1. PICK p \in TaskId : p = tasks[t].parent /\ p < t
    BY <1>1, <1>4
  <2>2. ClosedUpwards(Above(p, D) \cup {t}, D)
    BY <1>2, <2>1 DEF ClosedUpwards
  <2>3. Above(t, D) \subseteq Above(p, D) \cup {t}
    <3>1. Above(p, D) \cup {t} \in SUBSET TaskId
      BY <1>2
    <3> QED  BY <2>2, <3>1 DEF Above
  <2>4. Above(p, D) \subseteq Above(t, D)
    <3>1. p \in Above(t, D)
      BY <1>2, <1>4, <2>1 DEF ClosedUpwards
    <3> QED  BY <1>2, <3>1 DEF Above
  <2>5. t \notin Above(p, D)
    <3>1. ClosedUpwards(1..p, D) /\ 1..p \in SUBSET TaskId /\ p \in 1..p
      BY <1>1 DEF ClosedUpwards
    <3>2. Above(p, D) \subseteq 1..p
      BY <3>1 DEF Above
    <3> QED  BY <1>1, <2>1, <3>2
  <2> QED  BY <1>2, <2>1, <2>3, <2>4, <2>5
<1> QED  BY <1>1, <1>2, <1>3, <1>4

(* So it is with all the ancestors of a task,                              *)
LEMMA LineageByParent ==
  ASSUME IInv, NEW t \in TaskId
  PROVE  /\ t \in Lineage(t)
         /\ tasks[t].parent # NoParent =>
              /\ tasks[t].parent \in TaskId
              /\ Lineage(t) = Lineage(tasks[t].parent) \cup {t}
<1>1. PICK D : D = {u \in TaskId : tasks[u].parent # NoParent}
  OBVIOUS
<1>2. D \in SUBSET TaskId /\ \A u \in D : tasks[u].parent # NoParent
  BY <1>1
<1>3. \A u : Lineage(u) = Above(u, D)
  BY <1>1 DEF Lineage
<1>4. tasks[t].parent # NoParent => t \in D
  BY <1>1
<1> HIDE <1>1
<1> QED  BY <1>2, <1>3, <1>4, AboveByParent

(* and with those that delegations link it to.                             *)
LEMMA LineByParent ==
  ASSUME IInv, NEW t \in TaskId
  PROVE  /\ t \in Line(t)
         /\ ~Delegated(t) => Line(t) = {t}
         /\ Delegated(t) =>
              /\ tasks[t].parent \in TaskId /\ tasks[t].parent < t
              /\ Line(t) = Line(tasks[t].parent) \cup {t}
              /\ t \notin Line(tasks[t].parent)
<1>1. PICK D : D = {u \in TaskId : Delegated(u)}
  OBVIOUS
<1>2. D \in SUBSET TaskId /\ \A u \in D : tasks[u].parent # NoParent
  BY <1>1 DEF IInv, TreeFits, InPlace, Fits, NoParent
<1>3. \A u : Line(u) = Above(u, D)
  BY <1>1 DEF Line
<1>4. Delegated(t) <=> t \in D
  BY <1>1
<1> HIDE <1>1
<1> QED  BY <1>2, <1>3, <1>4, AboveByParent

(* Every non-empty set of natural numbers has a least member.              *)
LEMMA LeastExists ==
  ASSUME NEW T \in SUBSET Nat, T # {}
  PROVE  \E n \in T : \A m \in T : n \leq m
<1> DEFINE Segments == {0..n : n \in T}
<1>1. IsWellFoundedOn(StrictSubsetOrdering(Nat), FiniteSubsetsOf(Nat))
  BY FS_StrictSubsetOrderingWellFounded
<1>2. Segments \subseteq FiniteSubsetsOf(Nat)
  <2>1. \A n \in T : IsFiniteSet(0..n) /\ 0..n \subseteq Nat
    BY FS_Interval
  <2> QED  BY <2>1 DEF FiniteSubsetsOf
<1>3. Segments # {}
  OBVIOUS
<1> HIDE DEF Segments
<1>4. PICK s \in Segments : \A r \in Segments : <<r, s>> \notin StrictSubsetOrdering(Nat)
  BY <1>1, <1>2, <1>3, WFMin
<1>5. PICK n \in T : s = 0..n
  BY <1>4 DEF Segments
<1>6. ASSUME NEW m \in T, m < n
      PROVE  FALSE
  <2>1. 0..m \in Segments /\ 0..m \subseteq 0..n /\ 0..m \subseteq Nat /\ 0..n \subseteq Nat
    BY <1>6 DEF Segments
  <2>2. n \in 0..n /\ n \notin 0..m
    BY <1>6
  <2>3. <<0..m, 0..n>> \in StrictSubsetOrdering(Nat)
    BY <2>1, <2>2 DEF StrictSubsetOrdering
  <2> QED  BY <1>4, <1>5, <2>1, <2>3
<1> QED  BY <1>6

(* A task is deeper than the one with which its delegations began by as    *)
(* many as they are: the first to differ would have a parent that does not. *)
LEMMA DepthsCount ==
  ASSUME IInv
  PROVE  \A t \in TaskId : DepthIsDistance(t)
<1> DEFINE Counts(t) ==
             /\ IsFiniteSet(Line(t))
             /\ \E o \in Line(t) :
                  /\ ~Delegated(o)
                  /\ tasks[t].delegationDepth =
                       tasks[o].delegationDepth + Cardinality(Line(t)) - 1
           odd == {t \in TaskId : ~Counts(t)}
<1>1. TaskId \subseteq Nat
  BY DEF TaskId
<1>2. ASSUME NEW t \in TaskId PROVE tasks[t].delegationDepth \in Int
  <2>1. tasks[t] \in Task
    BY DEF IInv, TypeOK, TaskId
  <2> QED  BY <2>1 DEF Task
<1>3. ASSUME odd # {}
      PROVE  FALSE
  <2>1. odd \in SUBSET Nat
    BY <1>1
  <2>2. PICK t \in odd : \A u \in odd : t \leq u
    <3> HIDE DEF odd
    <3> QED  BY <1>3, <2>1, LeastExists
  <2>3. t \in TaskId /\ ~Counts(t) /\ InPlace(t)
    BY <2>2 DEF IInv, TreeFits
  <2>4. CASE ~Delegated(t)
    <3>1. Line(t) = {t}
      BY <2>3, <2>4, LineByParent
    <3>2. IsFiniteSet(Line(t)) /\ Cardinality(Line(t)) = 1
      BY <3>1, FS_Singleton
    <3> QED  BY <1>2, <2>3, <2>4, <3>1, <3>2
  <2>5. CASE Delegated(t)
    <3>1. PICK p \in TaskId : p = tasks[t].parent
      BY <2>3, <2>5, LineByParent
    <3>2. p < t /\ Line(t) = Line(p) \cup {t} /\ t \notin Line(p)
      BY <2>3, <2>5, <3>1, LineByParent
    <3>3. Counts(p)
      BY <1>1, <2>2, <3>2
    <3>4. IsFiniteSet(Line(t)) /\ Cardinality(Line(t)) = Cardinality(Line(p)) + 1
      <4>1. PICK above : above = Line(p) /\ IsFiniteSet(above) /\ t \notin above
        BY <3>2, <3>3
      <4>2. /\ IsFiniteSet(above \cup {t})
            /\ Cardinality(above \cup {t}) = Cardinality(above) + 1
        BY <4>1, FS_AddElement
      <4> QED  BY <3>2, <4>1, <4>2
    <3>5. tasks[t].delegationDepth = tasks[p].delegationDepth + 1
      BY <2>3, <2>5, <3>1 DEF InPlace, Fits
    <3>6. Cardinality(Line(p)) \in Nat
      BY <3>3, FS_CardinalityType
    <3>7. PICK o \in Line(p) :
            /\ ~Delegated(o)
            /\ tasks[p].delegationDepth =
                 tasks[o].delegationDepth + Cardinality(Line(p)) - 1
      BY <3>3
    <3>8. o \in TaskId /\ o \in Line(t)
      BY <3>2 DEF Line, Above
    <3>9. tasks[t].delegationDepth = tasks[o].delegationDepth + Cardinality(Line(t)) - 1
      BY <1>2, <3>4, <3>5, <3>6, <3>7, <3>8
    <3> QED  BY <2>3, <3>4, <3>7, <3>8, <3>9
  <2> QED  BY <2>4, <2>5
<1>4. ASSUME NEW t \in TaskId, Delegated(t)
      PROVE  tasks[t].delegationDepth <= MAX_DELEGATION_DEPTH
  BY <1>4 DEF IInv, TreeFits, InPlace, Fits
<1>5. \A t \in TaskId : Counts(t)
  BY <1>3
<1> QED  BY <1>4, <1>5 DEF DepthIsDistance

(* The tasks above that have all that a task has are closed upwards.       *)
LEMMA CapabilitiesInherited ==
  ASSUME IInv
  PROVE  CapabilitiesNarrow
<1> SUFFICES ASSUME NEW t \in TaskId, NEW a \in Line(t)
             PROVE  tasks[t].capabilitySet \subseteq tasks[a].capabilitySet
  BY DEF CapabilitiesNarrow
<1> DEFINE S == {u \in TaskId : tasks[t].capabilitySet \subseteq tasks[u].capabilitySet}
           D == {u \in TaskId : Delegated(u)}
<1>1. ClosedUpwards(S, D)
  <2> SUFFICES ASSUME NEW u \in S, u \in D
               PROVE  tasks[u].parent \in S
    BY DEF ClosedUpwards
  <2>1. tasks[u].parent \in TaskId
    BY LineByParent
  <2>2. tasks[u].capabilitySet \subseteq tasks[tasks[u].parent].capabilitySet
    BY DEF IInv, TreeFits, InPlace, Fits
  <2> QED  BY <2>1, <2>2
<1>2. t \in S /\ S \in SUBSET TaskId
  OBVIOUS
<1>3. a \in Above(t, D)
  BY DEF Line
<1> QED  BY <1>1, <1>2, <1>3 DEF Above

(* What walks down to a task walks up from it.                             *)
LEMMA DownIsUp ==
  ASSUME IInv, NEW t \in TaskId, NEW u \in TaskId
  PROVE  (\A S \in SUBSET TaskId : (t \in S /\ \A v \in S : Children(v) \subseteq S) => u \in S)
           <=> t \in Lineage(u)
<1>1. ASSUME \A S \in SUBSET TaskId : (t \in S /\ \A v \in S : Children(v) \subseteq S) => u \in S
      PROVE  t \in Lineage(u)
  <2> DEFINE S == {v \in TaskId : t \in Lineage(v)}
  <2>1. ASSUME NEW v \in S, NEW w \in Children(v)
        PROVE  w \in S
    <3>1. w \in TaskId /\ tasks[w].parent = v /\ v # NoParent
      BY <2>1 DEF Children, TaskId, NoParent
    <3> QED  BY <3>1, LineageByParent
  <2>2. t \in S /\ S \in SUBSET TaskId
    BY LineageByParent
  <2> QED  BY <1>1, <2>1, <2>2
<1>2. ASSUME t \in Lineage(u), NEW S \in SUBSET TaskId, t \in S,
             \A v \in S : Children(v) \subseteq S, u \notin S
      PROVE  FALSE
  <2> DEFINE R == TaskId \ S
             D == {v \in TaskId : tasks[v].parent # NoParent}
  <2>1. ClosedUpwards(R, D)
    <3> SUFFICES ASSUME NEW v \in R, tasks[v].parent # NoParent
                 PROVE  tasks[v].parent \in R
      BY DEF ClosedUpwards
    <3>1. tasks[v].parent \in TaskId /\ v \in Children(tasks[v].parent)
      BY LineageByParent DEF Children
    <3> QED  BY <1>2, <3>1
  <2>2. u \in R /\ R \in SUBSET TaskId /\ t \notin R
    BY <1>2
  <2>3. u \in R /\ t \in Above(u, D)
    BY <1>2, <2>2 DEF Lineage
  <2> QED  BY <2>1, <2>2, <2>3 DEF Above
<1> QED  BY <1>1, <1>2

-----------------------------------------------------------------------------
(* What the fold behind MapThenSumSet computes for every set in D, the     *)
(* weights of members being w.                                             *)
Chosen(s) == CHOOSE x \in s : TRUE
SumsOn(g, w, D) ==
  g = [s \in D |-> IF s = {} THEN 0 ELSE w[Chosen(s)] + g[s \ {Chosen(s)}]]
Sums(g, w, S) == SumsOn(g, w, SUBSET S)

(* A family of finite sets has a member without smaller members.           *)
LEMMA SmallestExists ==
  ASSUME NEW S, IsFiniteSet(S), NEW F \in SUBSET SUBSET S, F # {}
  PROVE  \E s \in F : \A r \in SUBSET s : r # s => r \notin F
<1>1. IsWellFoundedOn(StrictSubsetOrdering(S), FiniteSubsetsOf(S))
  BY FS_StrictSubsetOrderingWellFounded
<1>2. F \subseteq FiniteSubsetsOf(S)
  BY FS_Subset DEF FiniteSubsetsOf
<1>3. PICK s \in F : \A r \in F : <<r, s>> \notin StrictSubsetOrdering(S)
  BY <1>1, <1>2, WFMin
<1>4. ASSUME NEW r \in SUBSET s, r # s, r \in F
      PROVE  FALSE
  BY <1>3, <1>4 DEF StrictSubsetOrdering
<1> QED  BY <1>3, <1>4

(* There is such a function: the sets of n + 1 members follow those of n.  *)
LEMMA SumsExist ==
  ASSUME NEW S, IsFiniteSet(S), NEW w
  PROVE  \E g : Sums(g, w, S)
<1> DEFINE D(n) == {s \in SUBSET S : Cardinality(s) <= n}
           Without == {n \in Nat : ~ \E g : SumsOn(g, w, D(n))}
<1>1. \A s \in SUBSET S : IsFiniteSet(s) /\ Cardinality(s) \in Nat
  BY FS_Subset, FS_CardinalityType
<1>2. ASSUME NEW n \in Nat, n > 0, NEW s \in D(n), s # {}
      PROVE  s \ {Chosen(s)} \in D(n - 1)
  <2>1. Chosen(s) \in s
    BY <1>2 DEF Chosen
  <2>2. Cardinality(s \ {Chosen(s)}) = Cardinality(s) - 1
    BY <1>1, <1>2, <2>1, FS_RemoveElement
  <2> QED  BY <1>1, <1>2, <2>2
<1>3. ASSUME Without # {} PROVE FALSE
  <2>1. PICK n \in Without : \A m \in Without : n <= m
    <3>1. Without \in SUBSET Nat
      OBVIOUS
    <3> HIDE DEF Without
    <3> QED  BY <1>3, <3>1, LeastExists
  <2>2. CASE n = 0
    <3>1. D(0) = {{}}
      <4>1. \A s \in D(0) : Cardinality(s) = 0
        BY <1>1
      <4>2. \A s \in D(0) : s = {}
        BY <1>1, <4>1, FS_EmptySet
      <4>3. {} \in D(0)
        BY FS_EmptySet
      <4> QED  BY <4>2, <4>3
    <3>2. SumsOn([s \in D(0) |-> 0], w, D(0))
      BY <3>1 DEF SumsOn
    <3> QED  BY <2>1, <2>2, <3>2
  <2>3. CASE n > 0
    <3>1. n - 1 \in Nat /\ n - 1 \notin Without
      <4>1. n \in Nat
        BY <2>1
      <4> HIDE DEF Without
      <4> QED  BY <2>1, <2>3, <4>1
    <3>2. PICK g : SumsOn(g, w, D(n - 1))
      BY <3>1
    <3> DEFINE h == [s \in D(n) |->
                      IF s = {} THEN 0 ELSE w[Chosen(s)] + g[s \ {Chosen(s)}]]
    <3>3. ASSUME NEW s \in D(n), s # {}
          PROVE  h[s \ {Chosen(s)}] = g[s \ {Chosen(s)}]
      <4> DEFINE r == s \ {Chosen(s)}
      <4>1. r \in D(n - 1)
        BY <1>2, <2>3, <3>3
      <4>2. r \in D(n)
        BY <1>1, <2>3, <4>1
      <4> HIDE DEF r, D
      <4>3. g[r] = IF r = {} THEN 0 ELSE w[Chosen(r)] + g[r \ {Chosen(r)}]
        BY <3>2, <4>1 DEF SumsOn
      <4> QED  BY <4>2, <4>3 DEF r
    <3>4. SumsOn(h, w, D(n))
      <4> HIDE DEF D
      <4> QED  BY <3>3 DEF SumsOn
    <3> QED  BY <2>1, <3>4
  <2> QED  BY <2>1, <2>2, <2>3
<1>4. D(Cardinality(S)) = SUBSET S
  BY FS_Subset, FS_CardinalityType
<1>5. Cardinality(S) \in Nat
  BY FS_CardinalityType
<1> QED  BY <1>3, <1>4, <1>5 DEF Sums

(* Sums of integers are integers.                                          *)
LEMMA SumsTyped ==
  ASSUME NEW S, IsFiniteSet(S), NEW w \in [S -> Int], NEW g, Sums(g, w, S)
  PROVE  g \in [SUBSET S -> Int]
<1> DEFINE Odd == {s \in SUBSET S : g[s] \notin Int}
<1>1. \A s \in SUBSET S : g[s] = IF s = {} THEN 0 ELSE w[Chosen(s)] + g[s \ {Chosen(s)}]
  BY DEF Sums, SumsOn
<1>2. ASSUME Odd # {} PROVE FALSE
  <2>1. PICK s \in Odd : \A r \in SUBSET s : r # s => r \notin Odd
    <3>1. Odd \in SUBSET SUBSET S
      OBVIOUS
    <3> HIDE DEF Odd
    <3> QED  BY <1>2, <3>1, SmallestExists
  <2>2. s # {} /\ s \in SUBSET S
    <3>1. s \in SUBSET S /\ g[s] \notin Int
      BY <2>1
    <3>2. g[{}] = 0
      BY <1>1
    <3> HIDE DEF Odd
    <3>3. g[{}] \in Int
      BY <3>2
    <3>4. s # {}
      BY <3>1, <3>3, Zenon
    <3> QED  BY <3>1, <3>4
  <2>3. Chosen(s) \in s
    BY <2>2 DEF Chosen
  <2>4. s \ {Chosen(s)} \notin Odd /\ s \ {Chosen(s)} \in SUBSET S
    BY <2>1, <2>2, <2>3
  <2>5. g[s \ {Chosen(s)}] \in Int /\ g[s] \notin Int
    BY <2>1, <2>4
  <2>6. w[Chosen(s)] \in Int
    BY <2>2, <2>3
  <2>7. g[s] = w[Chosen(s)] + g[s \ {Chosen(s)}]
    BY <1>1, <2>2
  <2> HIDE DEF Odd
  <2> QED  BY <2>5, <2>6, <2>7
<1>3. DOMAIN g = SUBSET S /\ g = [s \in DOMAIN g |-> g[s]]
  BY DEF Sums, SumsOn
<1> QED  BY <1>2, <1>3

(* It does not matter which member is added last.                          *)
LEMMA SumsSplit ==
  ASSUME NEW S, IsFiniteSet(S), NEW w \in [S -> Int], NEW g, Sums(g, w, S),
         NEW s \in SUBSET S, NEW x \in s
  PROVE  g[s] = w[x] + g[s \ {x}]
<1> DEFINE Odd == {t \in SUBSET S : \E y \in t : g[t] # w[y] + g[t \ {y}]}
<1>1. \A t \in SUBSET S : g[t] = IF t = {} THEN 0 ELSE w[Chosen(t)] + g[t \ {Chosen(t)}]
  BY DEF Sums, SumsOn
<1>2. ASSUME Odd # {} PROVE FALSE
  <2>1. PICK t \in Odd : \A r \in SUBSET t : r # t => r \notin Odd
    <3>1. Odd \in SUBSET SUBSET S
      OBVIOUS
    <3> HIDE DEF Odd
    <3> QED  BY <1>2, <3>1, SmallestExists
  <2>2. PICK y \in t : g[t] # w[y] + g[t \ {y}]
    BY <2>1
  <2>3. PICK c \in t : c = Chosen(t)
    BY DEF Chosen
  <2>4. c # y /\ g[t] = w[c] + g[t \ {c}]
    BY <1>1, <2>1, <2>2, <2>3
  <2>5. g[t \ {c}] = w[y] + g[(t \ {c}) \ {y}]
    BY <2>1, <2>2, <2>4
  <2>6. g[t \ {y}] = w[c] + g[(t \ {y}) \ {c}]
    BY <2>1, <2>3, <2>4
  <2>7. (t \ {c}) \ {y} = (t \ {y}) \ {c} /\ (t \ {y}) \ {c} \in SUBSET S
    BY <2>1
  <2>8. PICK rest \in Int : rest = g[(t \ {y}) \ {c}] /\ rest = g[(t \ {c}) \ {y}]
    <3>1. g \in [SUBSET S -> Int]
      BY SumsTyped
    <3> HIDE DEF Odd
    <3> QED  BY <2>7, <3>1
  <2>9. w[c] \in Int /\ w[y] \in Int
    BY <2>1
  <2>10. g[t] = w[c] + (w[y] + rest) /\ g[t \ {y}] = w[c] + rest
    BY <2>4, <2>5, <2>6, <2>8
  <2> QED  BY <2>2, <2>8, <2>9, <2>10
<1> QED  BY <1>2

(* A sum depends on the weights of the members alone.                      *)
LEMMA SumsAgree ==
  ASSUME NEW S, IsFiniteSet(S), NEW w, NEW g, Sums(g, w, S),
         NEW T, NEW v, NEW h, Sums(h, v, T),
         NEW s \in SUBSET S, s \subseteq T, \A x \in s : w[x] = v[x]
  PROVE  g[s] = h[s]
<1> DEFINE Odd == {r \in SUBSET s : g[r] # h[r]}
<1>1. /\ \A r \in SUBSET S : g[r] = IF r = {} THEN 0 ELSE w[Chosen(r)] + g[r \ {Chosen(r)}]
      /\ \A r \in SUBSET T : h[r] = IF r = {} THEN 0 ELSE v[Chosen(r)] + h[r \ {Chosen(r)}]
  BY DEF Sums, SumsOn
<1>2. ASSUME Odd # {} PROVE FALSE
  <2>1. PICK t \in Odd : \A r \in SUBSET t : r # t => r \notin Odd
    <3>1. Odd \in SUBSET SUBSET S
      OBVIOUS
    <3> HIDE DEF Odd
    <3> QED  BY <1>2, <3>1, SmallestExists
  <2>2. t # {} /\ t \in SUBSET S /\ t \in SUBSET T /\ g[t] # h[t]
    BY <1>1, <2>1
  <2>3. Chosen(t) \in t /\ w[Chosen(t)] = v[Chosen(t)]
    BY <2>1, <2>2 DEF Chosen
  <2>4. g[t \ {Chosen(t)}] = h[t \ {Chosen(t)}]
    BY <2>1, <2>2, <2>3
  <2> QED  BY <1>1, <2>2, <2>3, <2>4
<1> QED  BY <1>2

-----------------------------------------------------------------------------
(* What is allocated to a set of tasks is such a sum; no cap counts        *)
(* nothing.                                                                *)
Weight(task) == IF task.budgetCap = NoCap THEN 0 ELSE task.budgetCap
Caps == [t \in TaskId |-> Weight(tasks[t])]
AllocationsAreSums ==
  \A T \in SUBSET TaskId : \E g : Sums(g, Caps, T) /\ Allocated(T) = g[T]

(* Caps weigh the tasks.                                                   *)
LEMMA CapsTyped == IInv => Caps \in [TaskId -> Int]
<1> SUFFICES ASSUME IInv, NEW t \in TaskId PROVE Weight(tasks[t]) \in Int
  BY DEF Caps
<1>1. tasks[t] \in Task
  BY DEF IInv, TypeOK, TaskId
<1> QED  BY <1>1 DEF Task, Weight

(* Sets of tasks are finite.                                               *)
LEMMA TasksFinite ==
  ASSUME IInv, NEW T \in SUBSET TaskId
  PROVE  IsFiniteSet(T) /\ Cardinality(T) \in Nat
<1>1. TaskId = 1..Len(tasks) /\ Len(tasks) \in Nat
  BY DEF TaskId, IInv, TypeOK
<1>2. IsFiniteSet(TaskId)
  BY <1>1, FS_Interval
<1> QED  BY <1>2, FS_Subset, FS_CardinalityType

(* The fold of Allocated is such a sum.                                    *)
LEMMA AllocationIsSum == IInv => AllocationsAreSums
<1> SUFFICES ASSUME IInv, NEW T \in SUBSET TaskId
             PROVE  \E g : Sums(g, Caps, T) /\ Allocated(T) = g[T]
  BY DEF AllocationsAreSums
<1> DEFINE Unfold(f) == [s \in SUBSET T |->
                           IF s = {} THEN 0
                           ELSE (IF tasks[CHOOSE x \in s : TRUE].budgetCap = NoCap THEN 0
                                 ELSE tasks[CHOOSE x \in s : TRUE].budgetCap)
                                + f[s \ {CHOOSE x \in s : TRUE}]]
           iter == CHOOSE f : f = Unfold(f)
<1>1. Allocated(T) = iter[T]
  BY Zenon DEF Allocated, MapThenSumSet, MapThenFoldSet
<1>2. PICK g : Sums(g, Caps, T)
  BY TasksFinite, SumsExist
<1>3. \A s \in SUBSET T : s # {} =>
        Caps[Chosen(s)] = IF tasks[CHOOSE x \in s : TRUE].budgetCap = NoCap THEN 0
                          ELSE tasks[CHOOSE x \in s : TRUE].budgetCap
  BY DEF Chosen, Caps, Weight
<1>4. ASSUME NEW f
      PROVE  Sums(f, Caps, T) <=> f = Unfold(f)
  BY <1>3 DEF Sums, SumsOn, Chosen
<1> HIDE DEF Unfold
<1>5. g = Unfold(g)
  BY <1>2, <1>4
<1>6. iter = Unfold(iter)
  BY <1>5, Zenon
<1> HIDE DEF iter
<1>7. Sums(iter, Caps, T)
  BY <1>4, <1>6
<1> QED  BY <1>1, <1>7

(* What a set of tasks is allocated is a number, and grows by the cap of   *)
(* one more.                                                               *)
AllocationsGrow ==
  \A T \in SUBSET TaskId :
    /\ Allocated(T) \in Int
    /\ \A x \in TaskId \ T : Allocated(T \cup {x}) = Weight(tasks[x]) + Allocated(T)

(* It is a sum over a finite set.                                          *)
LEMMA AllocationGrows == IInv => AllocationsGrow
<1> SUFFICES ASSUME IInv PROVE AllocationsGrow
  OBVIOUS
<1>1. PICK w : w = Caps
  OBVIOUS
<1>2. w \in [TaskId -> Int]
  BY <1>1, CapsTyped
<1>3. ASSUME NEW S \in SUBSET TaskId
      PROVE  \E g : /\ Sums(g, w, S) /\ Sums(g, [t \in S |-> w[t]], S)
                    /\ Allocated(S) = g[S]
  <2>1. PICK g : Sums(g, w, S) /\ Allocated(S) = g[S]
    BY <1>1, AllocationIsSum DEF AllocationsAreSums
  <2> DEFINE v == [t \in S |-> w[t]]
  <2>2. \A s \in SUBSET S : s # {} => v[Chosen(s)] = w[Chosen(s)]
    BY DEF Chosen
  <2> HIDE DEF v
  <2>3. Sums(g, v, S)
    BY <2>1, <2>2 DEF Sums, SumsOn
  <2> QED  BY <2>1, <2>3 DEF v
<1>4. ASSUME NEW T \in SUBSET TaskId
      PROVE  Allocated(T) \in Int
  <2>1. PICK g : Sums(g, [t \in T |-> w[t]], T) /\ Allocated(T) = g[T]
    BY <1>3
  <2>2. [t \in T |-> w[t]] \in [T -> Int] /\ IsFiniteSet(T)
    BY <1>2, TasksFinite
  <2>3. g \in [SUBSET T -> Int]
    BY <2>1, <2>2, SumsTyped
  <2> QED  BY <2>1, <2>3
<1>5. ASSUME NEW T \in SUBSET TaskId, NEW x \in TaskId \ T
      PROVE  Allocated(T \cup {x}) = Weight(tasks[x]) + Allocated(T)
  <2>1. PICK more \in SUBSET TaskId : more = T \cup {x}
    OBVIOUS
  <2>2. PICK g : Sums(g, w, T) /\ Allocated(T) = g[T]
    BY <1>3
  <2>3. PICK v : v = [t \in more |-> w[t]]
    OBVIOUS
  <2>4. PICK h : Sums(h, w, more) /\ Sums(h, v, more) /\ Allocated(more) = h[more]
    BY <1>3, <2>3
  <2>5. v \in [more -> Int] /\ IsFiniteSet(more) /\ IsFiniteSet(T)
    BY <1>2, <2>3, TasksFinite
  <2>6. more \in SUBSET more /\ x \in more /\ more \ {x} = T
    BY <1>5, <2>1
  <2>7. h[more] = v[x] + h[more \ {x}]
    <3>1. PICK S : S = more /\ S \in SUBSET S /\ x \in S
      BY <2>6
    <3>2. v \in [S -> Int] /\ IsFiniteSet(S) /\ Sums(h, v, S)
      BY <2>4, <2>5, <3>1
    <3>3. h[S] = v[x] + h[S \ {x}]
      <4> HIDE <3>1
      <4>1. S \in SUBSET S /\ x \in S
        BY <3>1
      <4> QED  BY <3>2, <4>1, SumsSplit
    <3> QED  BY <3>1, <3>3
  <2>8. g[T] = h[T]
    <3>1. T \in SUBSET T /\ T \subseteq more /\ \A t \in T : w[t] = w[t]
      BY <2>1
    <3> QED  BY <2>2, <2>4, <2>5, <3>1, SumsAgree
  <2>9. v[x] = Weight(tasks[x])
    BY <1>1, <2>1, <2>3 DEF Caps
  <2> QED  BY <2>1, <2>2, <2>4, <2>6, <2>7, <2>8, <2>9
<1> QED  BY <1>4, <1>5 DEF AllocationsGrow

(* The allocation stays while the caps do.                                 *)
LEMMA AllocationStays ==
  ASSUME IInv, IInv', NEW T \in SUBSET TaskId, T \in SUBSET TaskId',
         \A t \in T : tasks'[t].budgetCap = tasks[t].budgetCap
  PROVE  Allocated(T)' = Allocated(T)
<1>1. PICK g : Sums(g, Caps, T) /\ Allocated(T) = g[T]
  BY AllocationIsSum DEF AllocationsAreSums
<1>2. (IInv => AllocationsAreSums)'
  BY AllocationIsSum, PTL
<1>3. PICK h : Sums(h, Caps', T) /\ Allocated(T)' = h[T]
  BY <1>2 DEF AllocationsAreSums, Sums, SumsOn
<1>4. \A t \in T : Caps[t] = Caps'[t]
  BY DEF Caps, Weight
<1>5. PICK w : w = Caps
  OBVIOUS
<1>6. PICK v : v = Caps'
  OBVIOUS
<1>7. /\ Sums(g, w, T) /\ Sums(h, v, T) /\ IsFiniteSet(T)
      /\ \A t \in T : w[t] = v[t] /\ T \in SUBSET T /\ T \subseteq T
  BY <1>1, <1>3, <1>4, <1>5, <1>6, TasksFinite
<1>8. g[T] = h[T]
  BY <1>7, SumsAgree
<1> QED  BY <1>1, <1>3, <1>8

-----------------------------------------------------------------------------
(* A child that was created at once was added by the handler that checked  *)
(* the limits, while they were as it read them; what comes later is        *)
(* younger.                                                                *)
WithinLimits ==
  \A t \in TaskId : CreatedAtOnce(t) => ChildrenFit(t) /\ BudgetsFit(t)

(* A step on the table that no task loses its cap or its ancestry by.      *)
CapsKept == Kept /\ \A t \in TaskId : tasks'[t].budgetCap = tasks[t].budgetCap

(* Limits once kept stay kept,                                             *)
LEMMA LimitsStay ==
  ASSUME IInv, IInv', WithinLimits, CapsKept, NEW t \in TaskId,
         CreatedAtOnce(t)' => CreatedAtOnce(t)
  PROVE  (CreatedAtOnce(t) => ChildrenFit(t) /\ BudgetsFit(t))'
<1> SUFFICES ASSUME CreatedAtOnce(t)' PROVE (ChildrenFit(t) /\ BudgetsFit(t))'
  OBVIOUS
<1>1. ChildrenFit(t) /\ BudgetsFit(t) /\ Delegated(t)
  BY DEF WithinLimits, CreatedAtOnce, Delegated
<1>2. PICK p \in TaskId : p = tasks[t].parent
  BY <1>1, LineByParent
<1>3. /\ tasks'[t].parent = p /\ tasks'[p].budgetCap = tasks[p].budgetCap
      /\ tasks'[t].budgetCap = tasks[t].budgetCap
  BY <1>2 DEF CapsKept, Kept, TaskId
<1>4. PICK T \in SUBSET TaskId : T = ChildrenUpTo(t)
  BY DEF ChildrenUpTo, Children
<1>5. T = ChildrenUpTo(t)' /\ T \in SUBSET TaskId'
  <2>1. PICK n \in Nat : n = Len(tasks) /\ t \in 1..n
    BY DEF CapsKept, Kept, TaskId
  <2>2. PICK k \in Nat : k = Len(tasks') /\ n <= k
    BY <2>1 DEF CapsKept, Kept
  <2>3. \A c \in 1..n : tasks'[c].parent = tasks[c].parent
    BY <2>1 DEF CapsKept, Kept
  <2>4. T = {c \in 1..n : tasks[c].parent = p /\ c <= t}
    BY <1>2, <1>4, <2>1 DEF ChildrenUpTo, Children, TaskId
  <2>5. ChildrenUpTo(t)' = {c \in 1..k : tasks'[c].parent = p /\ c <= t}
    BY <1>3, <2>2 DEF ChildrenUpTo, Children, TaskId
  <2>6. \A c \in 1..k : c <= t => c \in 1..n
    BY <2>1, <2>2
  <2>7. T = ChildrenUpTo(t)'
    BY <2>2, <2>3, <2>4, <2>5, <2>6
  <2> QED  BY <2>2, <2>5, <2>7 DEF TaskId
<1>6. ChildrenFit(t)'
  BY <1>1, <1>4, <1>5 DEF ChildrenFit
<1>7. Allocated(T)' = Allocated(T)
  BY <1>4, <1>5, AllocationStays DEF CapsKept
<1>8. Allocated(ChildrenUpTo(t))' = Allocated(T)'
  BY <1>5 DEF Allocated
<1>9. BudgetsFit(t)'
  BY <1>1, <1>2, <1>3, <1>4, <1>7, <1>8 DEF BudgetsFit
<1> QED  BY <1>6, <1>9

(* and a new task whose parent has room for it keeps them.                 *)
LEMMA LimitsGrow ==
  ASSUME IInv, IInv', NEW child \in Task, tasks' = Append(tasks, child),
         NEW p \in TaskId, child.parent = p,
         ChildAllowed(p), BudgetAllowed(p, child.budgetCap), NEW t, t = Len(tasks')
  PROVE  (ChildrenFit(t) /\ BudgetsFit(t))'
<1>1. PICK n \in Nat : n = Len(tasks)
  BY DEF IInv, TypeOK
<1>2. /\ Len(tasks') = n + 1 /\ tasks'[n + 1] = child
      /\ \A u \in 1..n : tasks'[u] = tasks[u]
      /\ TaskId = 1..n /\ TaskId' = 1..n + 1 /\ t = n + 1
  BY <1>1 DEF IInv, TypeOK, TaskId
<1>3. PICK T \in SUBSET TaskId : T = Children(p)
  BY DEF Children
<1>4. PICK more : more = T \cup {t}
  OBVIOUS
<1>5. ChildrenUpTo(t)' = more
  <2>1. ChildrenUpTo(t)' = {c \in 1..n + 1 : tasks'[c].parent = p}
    BY <1>2 DEF ChildrenUpTo, Children
  <2>2. T = {c \in 1..n : tasks[c].parent = p}
    BY <1>2, <1>3 DEF Children
  <2> QED  BY <1>1, <1>2, <1>4, <2>1, <2>2
<1>6. T \in SUBSET TaskId' /\ t \in TaskId' \ T /\ t \notin T
  BY <1>1, <1>2
<1>7. ChildrenFit(t)'
  <2>1. IsFiniteSet(T) /\ Cardinality(T) \in Nat
    BY TasksFinite
  <2>2. Cardinality(more) = Cardinality(T) + 1
    BY <1>4, <1>6, <2>1, FS_AddElement
  <2>3. MAX_CHILDREN_PER_TASK \in Nat
    BY DelegationAssumption DEF DelegationAssumption
  <2> QED  BY <1>3, <1>5, <2>1, <2>2, <2>3 DEF ChildAllowed, ChildrenFit
<1>8. Allocated(more)' = Weight(child) + Allocated(T)
  <2>1. (IInv => AllocationsGrow)'
    BY AllocationGrows, PTL
  <2>2. (Allocated(T \cup {t}) = Weight(tasks[t]) + Allocated(T))'
    BY <1>6, <2>1 DEF AllocationsGrow
  <2>3. Allocated(T)' = Allocated(T)
    BY <1>2, <1>6, AllocationStays
  <2>4. Weight(tasks[t])' = Weight(child)
    BY <1>2 DEF Weight
  <2> QED  BY <1>4, <2>2, <2>3, <2>4
<1>9. BudgetsFit(t)'
  <2>1. Allocated(ChildrenUpTo(t))' = Allocated(more)'
    BY <1>5 DEF Allocated
  <2>2. tasks'[t] = child /\ tasks'[p] = tasks[p]
    BY <1>2
  <2>3. Allocated(T) \in Int
    BY AllocationGrows DEF AllocationsGrow
  <2>4. ASSUME child.budgetCap # NoCap, tasks[p].budgetCap # NoCap
        PROVE  Allocated(more)' <= tasks[p].budgetCap
    <3>1. child.budgetCap \in Int
      BY <2>4 DEF Task
    <3>2. Allocated(T) + child.budgetCap <= tasks[p].budgetCap
      BY <1>3, <2>4 DEF BudgetAllowed
    <3>3. Weight(child) = child.budgetCap
      BY <2>4 DEF Weight
    <3> QED  BY <1>8, <2>3, <3>1, <3>2, <3>3
  <2> QED  BY <2>1, <2>2, <2>4 DEF BudgetsFit
<1> QED  BY <1>7, <1>9

(* A step that adds no task, or one that was not created at once.          *)
LEMMA NoneCreatedAtOnce ==
  ASSUME IInv, IInv', WithinLimits, CapsKept,
         \A r \in Requests : promise[r] = "granted" => promise'[r] = "granted",
         \A r \in Requests :
           \/ response'[r] = response[r]
           \/ response'[r] > Len(tasks) /\ promise'[r] = "granted"
  PROVE  WithinLimits'
<1>1. Len(tasks) \in Nat /\ TaskId = 1..Len(tasks)
  BY DEF IInv, TypeOK, TaskId
<1>2. \A r \in Requests : response[r] \in 0..Len(tasks)
  BY <1>1 DEF IInv, TypeOK, BoundLeased
<1>3. ASSUME NEW t \in TaskId', CreatedAtOnce(t)'
      PROVE  t \in TaskId /\ CreatedAtOnce(t)
  <2>1. PICK r \in Requests : response'[r] = t /\ promise'[r] # "granted"
    BY <1>3 DEF CreatedAtOnce
  <2>2. response[r] = t /\ promise[r] # "granted"
    BY <2>1
  <2>3. t \in 1..Len(tasks')
    BY DEF TaskId
  <2> QED  BY <1>1, <1>2, <2>2, <2>3 DEF CreatedAtOnce
<1> QED  BY <1>3, LimitsStay DEF WithinLimits

(* Every step keeps the limits.                                            *)
LEMMA StepWithinLimits == IInv /\ WithinLimits /\ IInv' /\ [Next]_vars => WithinLimits'
<1> SUFFICES ASSUME IInv, WithinLimits, IInv', [Next]_vars PROVE WithinLimits'
  OBVIOUS
<1>1. ASSUME NEW child \in Task, tasks' = Append(tasks, child)
      PROVE  CapsKept /\ Len(tasks') = Len(tasks) + 1 /\ Len(tasks') > Len(tasks)
  <2>1. Kept /\ Len(tasks') = Len(tasks) + 1 /\ Len(tasks) \in Nat
    BY <1>1, Appended
  <2>2. \A t \in 1..Len(tasks) : tasks'[t] = tasks[t]
    BY <1>1 DEF IInv, TypeOK
  <2> QED  BY <2>1, <2>2 DEF CapsKept, TaskId
<1>2. ASSUME UNCHANGED tasks
      PROVE  CapsKept
  BY <1>2 DEF CapsKept, Kept, IInv, TypeOK
<1>3. ASSUME NEW p \in TaskId \cup {NoParent}, NEW body \in PostBodies, PostTask(p, body)
      PROVE  WithinLimits'
  <2>1. PICK child : child = NewTask(p, body.capabilities, body.depth, body.cap, body.model)
    OBVIOUS
  <2>2. /\ tasks' = Append(tasks, child) /\ UNCHANGED <<response, promise>>
    BY <1>3, <2>1 DEF PostTask, schedulerVars
  <2>3. child \in Task
    <3>1. /\ body \in [capabilities : SUBSET Capabilities, depth : Int,
                       cap : Int \cup {NoCap}, model : Names]
          /\ p \in Nat
      BY DelegationAssumption DEF DelegationAssumption, TaskId, NoParent, IInv, TypeOK
    <3> QED  BY <2>1, <3>1 DEF NewTask, Task, TaskState
  <2> QED  BY <1>1, <2>2, <2>3, NoneCreatedAtOnce
<1>4. ASSUME NEW r \in Requests, NEW p \in TaskId, NEW body \in Bodies,
             DelegateUnbound(r, p, body)
      PROVE  WithinLimits'
  <2>1. PICK child \in Task : child = ChildOf(p, body)
    BY <1>4, ChildFits DEF DelegateUnbound
  <2>2. child.parent = p /\ child.budgetCap = body.cap
    BY <2>1 DEF ChildOf, NewTask
  <2>3. /\ ChildAllowed(p) /\ BudgetAllowed(p, body.cap)
        /\ tasks' = Append(tasks, child) /\ UNCHANGED promise
        /\ response' = [response EXCEPT ![r] = Len(tasks')]
    BY <1>4, <2>1 DEF DelegateUnbound, Admissible, schedulerVars
  <2>4. CapsKept /\ Len(tasks') = Len(tasks) + 1
    BY <1>1, <2>3
  <2>5. ASSUME NEW t \in TaskId', CreatedAtOnce(t)', t # Len(tasks')
        PROVE  t \in TaskId /\ CreatedAtOnce(t)
    <3>1. t \in 1..Len(tasks') /\ Len(tasks) \in Nat
      BY DEF TaskId, IInv, TypeOK
    <3>2. t \in TaskId
      BY <2>4, <2>5, <3>1 DEF TaskId
    <3> QED  BY <2>3, <2>5, <3>2 DEF CreatedAtOnce, IInv, TypeOK
  <2>6. ASSUME NEW t, t = Len(tasks')
        PROVE  (ChildrenFit(t) /\ BudgetsFit(t))'
    BY <2>2, <2>3, <2>6, LimitsGrow
  <2> QED  BY <2>4, <2>5, <2>6, LimitsStay DEF WithinLimits
<1>5. ASSUME NEW r \in Requests, NEW p \in TaskId, NEW body \in Bodies,
             DelegateBound(r, p, body)
      PROVE  WithinLimits'
  <2>1. UNCHANGED <<tasks, response>> /\ Scheduler!AcquireLease(r, Placeholder, body.model)
    BY <1>5 DEF DelegateBound
  <2>2. \A q \in Requests : promise[q] = "granted" => promise'[q] = "granted"
    BY <2>1 DEF Scheduler!AcquireLease, Scheduler!AcquireFree, Scheduler!AcquireQueued,
                Scheduler!AcquireUnknown, IInv, SP!IInv, SP!TypeOK
  <2> QED  BY <1>2, <2>1, <2>2, NoneCreatedAtOnce
<1>6. ASSUME NEW r \in Requests, NEW p \in TaskId, NEW body \in Bodies,
             DelegateRefused(r, p, body)
      PROVE  WithinLimits'
  <2>1. UNCHANGED <<tasks, response, promise>>
    BY <1>6 DEF DelegateRefused, schedulerVars
  <2> QED  BY <1>2, <2>1, NoneCreatedAtOnce
<1>7. ASSUME NEW r \in Requests, DelegateResume(r)
      PROVE  WithinLimits'
  <2>1. /\ tasks' = Append(tasks, snapshot[r]) /\ promise[r] = "granted"
        /\ response' = [response EXCEPT ![r] = Len(tasks')] /\ UNCHANGED promise
        /\ outcome[r] = "waiting"
    BY <1>7 DEF DelegateResume, schedulerVars
  <2>2. snapshot[r] \in Task
    BY <2>1 DEF IInv, TypeOK
  <2>3. CapsKept /\ Len(tasks') > Len(tasks)
    BY <1>1, <2>1, <2>2
  <2> QED  BY <2>1, <2>3, NoneCreatedAtOnce DEF IInv, TypeOK
<1>0. Len(tasks) \in Nat /\ tasks \in [1..Len(tasks) -> Task] /\ TaskId = 1..Len(tasks)
  BY DEF IInv, TypeOK, TaskId
<1>8. ASSUME tasks' \in [TaskId -> Task], UNCHANGED <<response, promise>>,
             \A u \in TaskId : \E v \in TaskState : tasks'[u] = [tasks[u] EXCEPT !.state = v]
      PROVE  WithinLimits'
  <2>1. PICK n \in Nat : n = Len(tasks) /\ tasks \in [1..n -> Task] /\ TaskId = 1..n
    BY <1>0
  <2>2. Len(tasks') = n
    BY <1>8, <2>1
  <2>3. \A u \in TaskId : /\ tasks'[u].parent = tasks[u].parent
                          /\ tasks'[u].capabilitySet = tasks[u].capabilitySet
                          /\ tasks'[u].delegationDepth = tasks[u].delegationDepth
                          /\ tasks'[u].model = tasks[u].model
                          /\ tasks'[u].budgetCap = tasks[u].budgetCap
    BY <1>8, <2>1 DEF Task
  <2> QED  BY <1>8, <2>1, <2>2, <2>3, NoneCreatedAtOnce DEF CapsKept, Kept
<1>9. ASSUME NEW t \in TaskId, Cancel(t) PROVE WithinLimits'
  <2>1. /\ tasks' = [u \in TaskId |-> IF u \in Cancellable(t)
                       THEN [tasks[u] EXCEPT !.state = "cancelled"] ELSE tasks[u]]
        /\ UNCHANGED response
        /\ Cancellable(t) # {} /\ \A u \in Cancellable(t) : Scheduler!ReleaseByTaskId(u)
    BY <1>9 DEF Cancel
  <2>2. PICK n \in Nat : n = Len(tasks) /\ tasks \in [1..n -> Task] /\ TaskId = 1..n
    BY DEF IInv, TypeOK, TaskId
  <2>3. ASSUME NEW u \in TaskId
        PROVE  /\ tasks'[u] \in Task
               /\ \E v \in TaskState : tasks'[u] = [tasks[u] EXCEPT !.state = v]
    <3>1. tasks[u] \in Task /\ tasks[u] = [tasks[u] EXCEPT !.state = tasks[u].state]
            /\ tasks[u].state \in TaskState /\ "cancelled" \in TaskState
      BY <2>2 DEF Task, TaskState
    <3>2. [tasks[u] EXCEPT !.state = "cancelled"] \in Task
      BY <3>1 DEF Task
    <3> QED  BY <2>1, <3>1, <3>2
  <2>4. UNCHANGED promise
    <3>1. \E u \in TaskId : Scheduler!ReleaseByTaskId(u)
      BY <2>1 DEF Cancellable
    <3> QED  BY <3>1, NothingToRelease DEF schedulerVars
  <2>5. tasks' \in [TaskId -> Task]
    BY <2>1, <2>3
  <2> QED  BY <1>8, <2>1, <2>3, <2>4, <2>5
<1>10. ASSUME NEW t \in TaskId, NEW v \in PatchStates, PatchState(t, v) PROVE WithinLimits'
  <2>1. tasks' = [tasks EXCEPT ![t].state = v] /\ UNCHANGED <<response, promise>>
    BY <1>10 DEF PatchState, schedulerVars
  <2>2. PICK n \in Nat : n = Len(tasks) /\ tasks \in [1..n -> Task] /\ TaskId = 1..n
    BY DEF IInv, TypeOK, TaskId
  <2>3. v \in TaskState
    BY DelegationAssumption DEF DelegationAssumption, TaskState
  <2>4. ASSUME NEW u \in TaskId
        PROVE  /\ tasks'[u] \in Task
               /\ \E w \in TaskState : tasks'[u] = [tasks[u] EXCEPT !.state = w]
    <3>1. tasks[u] \in Task /\ tasks[u] = [tasks[u] EXCEPT !.state = tasks[u].state]
            /\ tasks[u].state \in TaskState
      BY <2>2 DEF Task
    <3>2. [tasks[u] EXCEPT !.state = v] \in Task
      BY <2>3, <3>1 DEF Task
    <3>3. tasks'[u] = IF u = t THEN [tasks[u] EXCEPT !.state = v] ELSE tasks[u]
      BY <2>1, <2>2
    <3> QED  BY <2>3, <3>1, <3>2, <3>3
  <2>5. tasks' \in [TaskId -> Task]
    BY <2>1, <2>2, <2>4
  <2> QED  BY <1>8, <2>1, <2>4, <2>5
<1>11. ASSUME NEW r \in Requests, ReleaseRoute(r) PROVE WithinLimits'
  <2>1. UNCHANGED <<tasks, response>> /\ Scheduler!ReleaseLease(r)
    BY <1>11 DEF ReleaseRoute
  <2>2. \A q \in Requests : promise[q] = "granted" => promise'[q] = "granted"
    BY <2>1, ReleaseFromQueues
  <2> QED  BY <1>2, <2>1, <2>2, NoneCreatedAtOnce
<1>12. CASE Restart
  <2>1. /\ \A r \in Requests : promise[r] = "granted" => promise'[r] = "granted"
        /\ UNCHANGED <<tasks, response>>
    BY <1>12 DEF Restart
  <2> QED  BY <1>2, <2>1, NoneCreatedAtOnce
<1>13. CASE UNCHANGED vars
  <2>1. UNCHANGED <<tasks, response, promise>>
    BY <1>13 DEF vars
  <2> QED  BY <1>2, <2>1, NoneCreatedAtOnce
<1> QED
  BY <1>3, <1>4, <1>5, <1>6, <1>7, <1>9, <1>10, <1>11, <1>12, <1>13 DEF Next

-----------------------------------------------------------------------------
(* Tasks, requests and the scheduler below them have the form TypeOK gives *)
(* them.                                                                   *)
THEOREM TypeCorrect == Spec => []TypeOK
<1>1. IInv => TypeOK
  BY DEF IInv
<1> QED  BY <1>1, IInvHolds, PTL

(* Along any chain of delegations, however long and whatever the waits     *)
(* between them, capabilities only become fewer.                           *)
THEOREM CapabilitiesHold == Spec => []CapabilitiesNarrow
BY IInvHolds, CapabilitiesInherited, PTL

(* Depths count the delegations and stay within their limit; and no        *)
(* request that is answered without a wait takes its parent over what it   *)
(* may have of children or give them of its cap.                           *)
THEOREM TreesStayWithinLimits == Spec => []TreeWithinLimits
<1>1. Init => WithinLimits
  BY DEF Init, WithinLimits, TaskId
<1>2. IInv /\ WithinLimits => TreeWithinLimits
  <2>1. IInv => \A t \in TaskId : tasks[t].parent < t
    BY DEF IInv, TypeOK, TreeFits, InPlace, TaskId
  <2> QED  BY <2>1, DepthsCount DEF TreeWithinLimits, WithinLimits
<1>3. IInv /\ WithinLimits /\ [Next]_vars => IInv' /\ WithinLimits'
  BY StepFits, StepWithinLimits
<1> QED  BY <1>1, <1>2, <1>3, InitFits, PTL DEF Spec

(* A task that was delegated to a pair of provider and model was granted a *)
(* lease, and every lease that is active can be released by somebody.      *)
THEOREM LeasesHold == Spec => []LeasesAndTasksAgree
<1>1. IInv => LeasesAndTasksAgree
  BY DEF IInv, LeasesAndTasksAgree, BoundLeased, LeasesKnown, Live
<1> QED  BY <1>1, IInvHolds, PTL

(* A cancellation ends what had not ended in the subtree, and nothing      *)
(* else, for trees of any shape.                                           *)
THEOREM CancellationHolds == Spec => CancelEndsSubtree
<1>1. ASSUME IInv, NEW t \in TaskId, Cancel(t), NEW u \in TaskId
      PROVE  IF t \in Lineage(u) /\ tasks[u].state \notin Terminal
               THEN tasks'[u].state = "cancelled"
               ELSE tasks'[u] = tasks[u]
  <2>1. u \in Cancellable(t) <=> tasks[u].state \notin Terminal /\ t \in Lineage(u)
    BY <1>1, DownIsUp DEF Cancellable
  <2>2. tasks'[u] = IF u \in Cancellable(t)
                      THEN [tasks[u] EXCEPT !.state = "cancelled"] ELSE tasks[u]
    BY <1>1 DEF Cancel
  <2>3. tasks[u] \in Task
    BY <1>1 DEF IInv, TypeOK, TaskId
  <2> QED  BY <2>1, <2>2, <2>3 DEF Task
<1>2. IInv /\ [Next]_vars =>
        [\A t \in TaskId : Cancel(t) =>
           \A u \in TaskId :
             IF t \in Lineage(u) /\ tasks[u].state \notin Terminal
               THEN tasks'[u].state = "cancelled"
               ELSE tasks'[u] = tasks[u]]_vars
  BY <1>1
<1> QED  BY <1>2, IInvHolds, PTL DEF Spec, CancelEndsSubtree
=============================================================================
