------------------------ MODULE ModelSchedulerProofs ------------------------
(***************************************************************************)
(* For every pool, every number of slots and every set of calls and tasks: *)
(* the scheduler's state is well typed, no model has more leases than      *)
(* slots, promises tell who waits and who holds a lease, waiters are       *)
(* served in the order in which they asked, and each step is one that      *)
(* LeaseService allows.                                                    *)
(***************************************************************************)
EXTENDS ModelScheduler, TLAPS, FiniteSetTheorems, SequenceTheorems,
        WellFoundedInduction

LeasesFinite == \A m \in Pool : IsFiniteSet(LeasesOn(m))

(* TypeOK is not inductive without the other two: what a release takes     *)
(* from a queue is bounded by the free slots, which must not be negative.  *)
IInv == TypeOK /\ LeasesFinite /\ WithinCapacity

-----------------------------------------------------------------------------
(* A non-empty set of natural numbers has a least member.                  *)
LEMMA LeastNatural ==
  ASSUME NEW T \in SUBSET Nat, T # {}
  PROVE  \E i \in T : \A j \in T : i <= j
<1>1. \E i \in T : \A j \in T : ~ (<<j, i>> \in OpToRel(<, Nat))
  BY NatLessThanWellFounded, WFMin
<1>2. ASSUME NEW i \in T, NEW j \in T, ~ (<<j, i>> \in OpToRel(<, Nat))
      PROVE  i <= j
  BY <1>2 DEF OpToRel
<1>. QED  BY <1>1, <1>2

(* A set of positions of a sequence is finite.                             *)
LEMMA PositionsAreFinite ==
  ASSUME NEW n \in Nat, NEW S \in SUBSET (1..n)
  PROVE  IsFiniteSet(S) /\ Cardinality(S) \in Nat
<1>1. IsFiniteSet(1..n)
  BY FS_Interval
<1>2. IsFiniteSet(S)
  BY <1>1, FS_Subset
<1>. QED  BY <1>2, FS_CardinalityType

(* Place(kept, k) is well defined: it is the k-th member of kept.          *)
LEMMA PlaceIsKept ==
  ASSUME NEW n \in Nat, NEW kept \in SUBSET (1..n), NEW k \in 1..Cardinality(kept)
  PROVE  Place(kept, k) \in kept /\ Cardinality(kept \cap 1..Place(kept, k)) = k
<1>. DEFINE upTo(i) == kept \cap 1..i
            T == {i \in Nat : Cardinality(upTo(i)) >= k}
<1>1. IsFiniteSet(kept) /\ Cardinality(kept) \in Nat
  BY PositionsAreFinite
<1>2. ASSUME NEW i \in Nat
      PROVE  IsFiniteSet(upTo(i)) /\ Cardinality(upTo(i)) \in Nat
  <2>1. upTo(i) \in SUBSET (1..n)
    OBVIOUS
  <2>. QED  BY <2>1, PositionsAreFinite
<1>3. n \in T
  <2>1. upTo(n) = kept
    OBVIOUS
  <2>. QED  BY <2>1, <1>1
<1>4. PICK i \in T : \A j \in T : i <= j
  BY <1>3, LeastNatural
<1>5. i # 0
  <2>1. upTo(0) = {}
    OBVIOUS
  <2>2. Cardinality(upTo(0)) = 0
    BY <2>1, FS_EmptySet
  <2>. QED  BY <2>2
<1>6. i \in Nat /\ i - 1 \in Nat /\ i - 1 \notin T
  BY <1>4, <1>5
<1>7. Cardinality(upTo(i - 1)) < k
  <2>1. Cardinality(upTo(i - 1)) \in Nat
    BY <1>6, <1>2
  <2>2. ~ (Cardinality(upTo(i - 1)) >= k)
    BY <1>6
  <2>. QED  BY <2>1, <2>2
<1>8. CASE i \notin kept
  <2>1. upTo(i) = upTo(i - 1)
    BY <1>6, <1>8
  <2>. QED  BY <2>1, <1>4, <1>7, <1>2, <1>6
<1>9. CASE i \in kept
  <2>1. upTo(i) = upTo(i - 1) \cup {i}
    BY <1>6, <1>9
  <2>2. Cardinality(upTo(i)) <= Cardinality(upTo(i - 1)) + 1
    BY <2>1, <1>2, <1>6, FS_AddElement
  <2>3. Cardinality(upTo(i)) = k
    BY <2>2, <1>2, <1>4, <1>6, <1>7
  <2>. QED  BY <2>3, <1>9 DEF Place
<1>. QED  BY <1>8, <1>9

(* Places are in the order of their ranks,                                 *)
LEMMA PlacesInOrder ==
  ASSUME NEW n \in Nat, NEW kept \in SUBSET (1..n),
         NEW k \in 1..Cardinality(kept), NEW j \in 1..Cardinality(kept), j < k
  PROVE  Place(kept, j) < Place(kept, k)
<1>1. PICK a \in kept : a = Place(kept, j) /\ Cardinality(kept \cap 1..a) = j
  BY PlaceIsKept
<1>2. PICK b \in kept : b = Place(kept, k) /\ Cardinality(kept \cap 1..b) = k
  BY PlaceIsKept
<1>3. CASE b <= a
  <2>1. kept \cap 1..b \in SUBSET (kept \cap 1..a)
    BY <1>3
  <2>2. IsFiniteSet(kept \cap 1..a)
    <3>1. kept \cap 1..a \in SUBSET (1..n)
      OBVIOUS
    <3>. QED  BY <3>1, PositionsAreFinite
  <2>3. Cardinality(kept \cap 1..b) <= Cardinality(kept \cap 1..a)
    BY <2>1, <2>2, FS_Subset
  <2>4. j \in Nat /\ k \in Nat
    <3>1. Cardinality(kept) \in Nat
      BY PositionsAreFinite
    <3>. QED  BY <3>1
  <2>. QED  BY <1>1, <1>2, <2>3, <2>4
<1>. QED  BY <1>1, <1>2, <1>3

(* and every member of kept has a rank.                                    *)
LEMMA PlaceOfKept ==
  ASSUME NEW n \in Nat, NEW kept \in SUBSET (1..n), NEW i \in kept
  PROVE  \E k \in 1..Cardinality(kept) : Place(kept, k) = i
<1>. DEFINE upTo(a) == kept \cap 1..a
            k == Cardinality(upTo(i))
<1>1. IsFiniteSet(kept) /\ Cardinality(kept) \in Nat
  BY PositionsAreFinite
<1>2. \A a : IsFiniteSet(upTo(a)) /\ Cardinality(upTo(a)) \in Nat
  BY <1>1, FS_Subset, FS_CardinalityType
<1>3. k \in 1..Cardinality(kept)
  <2>1. Cardinality(upTo(i)) <= Cardinality(kept)
    BY <1>1, FS_Subset
  <2>2. i \in upTo(i)
    OBVIOUS
  <2>3. upTo(i) # {}
    BY <2>2
  <2>4. Cardinality(upTo(i)) # 0
    BY <1>2, <2>3, FS_EmptySet
  <2>. QED  BY <1>1, <1>2, <2>1, <2>4
<1>4. PICK a \in kept : a = Place(kept, k) /\ Cardinality(upTo(a)) = k
  BY <1>3, PlaceIsKept
<1>5. upTo(a) = upTo(i)
  <2>0. IsFiniteSet(upTo(a)) /\ IsFiniteSet(upTo(i)) /\ Cardinality(upTo(a)) = Cardinality(upTo(i))
    BY <1>2, <1>4
  <2>1. CASE a <= i
    <3>1. upTo(a) \in SUBSET upTo(i)
      BY <2>1
    <3>. HIDE DEF upTo
    <3>. QED  BY <2>0, <3>1, FS_Subset
  <2>2. CASE i <= a
    <3>1. upTo(i) \in SUBSET upTo(a)
      BY <2>2
    <3>. HIDE DEF upTo
    <3>. QED  BY <2>0, <3>1, FS_Subset
  <2>. QED  BY <2>1, <2>2
<1>6. a \in upTo(a) /\ i \in upTo(i)
  OBVIOUS
<1>7. a <= i /\ i <= a
  BY <1>5, <1>6
<1>8. a = i
  BY <1>7
<1>. QED  BY <1>3, <1>4, <1>8

(* Without(q, t) is a queue of entries of q.                               *)
LEMMA WithoutIsQueue ==
  ASSUME NEW S, NEW q \in Seq(S), NEW t
  PROVE  Without(q, t) \in Seq(S)
<1>. DEFINE kept == {i \in 1..Len(q) : q[i].taskId # t}
<1>1. Len(q) \in Nat /\ kept \in SUBSET (1..Len(q))
  OBVIOUS
<1>2. Cardinality(kept) \in Nat
  BY <1>1, PositionsAreFinite
<1>3. ASSUME NEW k \in 1..Cardinality(kept)
      PROVE  q[Place(kept, k)] \in S
  <2>1. Place(kept, k) \in kept
    BY <1>1, PlaceIsKept
  <2>. QED  BY <2>1, ElementOfSeq
<1>. HIDE DEF kept
<1>4. [k \in 1..Cardinality(kept) |-> q[Place(kept, k)]] \in Seq(S)
  BY <1>2, <1>3
<1>. QED  BY <1>4 DEF Without, kept

(* A sequence of n things names at most n of them.                         *)
LEMMA AtMostAsMany ==
  ASSUME NEW n \in Nat, NEW f, NEW T, f \in [1..n -> T],
         T = {f[i] : i \in 1..n}
  PROVE  IsFiniteSet(T) /\ Cardinality(T) <= n
<1>1. f \in Surjection(1..n, T)
  BY DEF Surjection
<1>2. IsFiniteSet(1..n)
  <2>1. 1..n \in SUBSET (1..n)
    OBVIOUS
  <2>. QED  BY <2>1, PositionsAreFinite
<1>3. Cardinality(1..n) = n
  <2>1. Cardinality(1..n) = IF 1 > n THEN 0 ELSE n - 1 + 1
    BY FS_Interval, 1 \in Int, n \in Int
  <2>. QED  BY <2>1
<1>. QED  BY <1>1, <1>2, <1>3, FS_Surjection

-----------------------------------------------------------------------------
Freed(gone, m) == {l \in gone : l.model = m}

(* A release serves no more waiters than there are and than slots are free, *)
(* and gives back every slot it frees while somebody waits.                 *)
LEMMA DrainedBounds ==
  ASSUME IInv, NEW gone \in SUBSET activeLeases, NEW m \in Pool
  PROVE  /\ Len(queues[m]) \in Nat
         /\ drained(gone, m) \in 0..Len(queues[m])
         /\ IsFiniteSet(LeasesOn(m) \ gone)
         /\ Cardinality(LeasesOn(m) \ gone) \in Nat
         /\ Cardinality(LeasesOn(m) \ gone) + drained(gone, m) <= MaxConcurrent[m]
         /\ drained(gone, m) < Len(queues[m]) =>
              Cardinality(LeasesOn(m) \ gone) + drained(gone, m) = countActiveLeases(m)
<1>1. Len(queues[m]) \in Nat
  BY DEF IInv, TypeOK
<1>2. /\ IsFiniteSet(LeasesOn(m))
      /\ Cardinality(LeasesOn(m)) \in Nat
      /\ Cardinality(LeasesOn(m)) <= MaxConcurrent[m]
      /\ MaxConcurrent[m] \in Nat
  BY PoolAssumption, FS_CardinalityType
     DEF IInv, LeasesFinite, WithinCapacity, countActiveLeases
<1>3. Freed(gone, m) \in SUBSET LeasesOn(m)
  BY DEF Freed, LeasesOn
<1>4. IsFiniteSet(Freed(gone, m)) /\ Cardinality(Freed(gone, m)) \in Nat
  BY <1>2, <1>3, FS_Subset, FS_CardinalityType
<1>5. Cardinality(Freed(gone, m)) <= Cardinality(LeasesOn(m))
  BY <1>2, <1>3, FS_Subset
<1>6. LeasesOn(m) \ gone = LeasesOn(m) \ Freed(gone, m)
  BY DEF Freed, LeasesOn
<1>7. /\ IsFiniteSet(LeasesOn(m) \ gone)
      /\ Cardinality(LeasesOn(m) \ gone)
           = Cardinality(LeasesOn(m)) - Cardinality(Freed(gone, m))
  <2>1. LeasesOn(m) \cap Freed(gone, m) = Freed(gone, m)
    BY <1>3
  <2>. QED  BY <1>2, <1>4, <1>6, <2>1, FS_Difference
<1>. DEFINE freed == Cardinality(Freed(gone, m))
            count == Cardinality(LeasesOn(m))
<1>8. drained(gone, m)
        = Smaller(freed, Smaller(Len(queues[m]), MaxConcurrent[m] - (count - freed)))
  BY DEF drained, Freed, countActiveLeases
<1>. HIDE DEF freed, count
<1>9. /\ freed \in Nat /\ count \in Nat
      /\ freed <= count /\ count <= MaxConcurrent[m]
      /\ Cardinality(LeasesOn(m) \ gone) = count - freed
  BY <1>2, <1>4, <1>5, <1>7 DEF freed, count
<1>10. countActiveLeases(m) = count
  BY DEF countActiveLeases, count
<1>11. /\ drained(gone, m) \in 0..Len(queues[m])
       /\ count - freed + drained(gone, m) <= MaxConcurrent[m]
  BY <1>1, <1>2, <1>8, <1>9 DEF Smaller
<1>12. drained(gone, m) < Len(queues[m]) => drained(gone, m) = freed
  <2>1. freed <= MaxConcurrent[m] - (count - freed) /\ MaxConcurrent[m] - (count - freed) \in Int
    BY <1>2, <1>9
  <2>. QED  BY <1>1, <1>8, <1>9, <2>1 DEF Smaller
<1>13. count - freed + freed = count
  BY <1>9
<1>. QED  BY <1>1, <1>7, <1>9, <1>10, <1>11, <1>12, <1>13

(* Releasing any set of active leases keeps leases well typed and every    *)
(* model within its slots.                                                 *)
LEMMA ReleaseKeepsCapacity ==
  ASSUME IInv, NEW gone \in SUBSET activeLeases, activeLeases' = LeasesAfter(gone)
  PROVE  /\ activeLeases' \in SUBSET Lease
         /\ LeasesFinite'
         /\ WithinCapacity'
<1>1. ASSUME NEW m \in Pool, NEW e \in Served(gone, m)
      PROVE  e \in QueueEntry /\ LeaseFor(e, m) \in Lease
  <2>1. PICK i \in 1..drained(gone, m) : e = queues[m][i]
    BY <1>1 DEF Served
  <2>2. i \in 1..Len(queues[m])
    <3>1. Len(queues[m]) \in Nat /\ drained(gone, m) \in 0..Len(queues[m])
      BY DrainedBounds
    <3>. QED  BY <3>1
  <2>3. queues[m] \in Seq(QueueEntry)
    BY DEF IInv, TypeOK
  <2>4. e \in QueueEntry
    BY <2>1, <2>2, <2>3, ElementOfSeq
  <2>. QED  BY <2>4 DEF LeaseFor, Lease, QueueEntry
<1>2. activeLeases' \in SUBSET Lease
  BY <1>1 DEF LeasesAfter, IInv, TypeOK
<1>3. ASSUME NEW m \in Pool
      PROVE  IsFiniteSet(LeasesOn(m)') /\ Cardinality(LeasesOn(m)') <= MaxConcurrent[m]
  <2>. DEFINE n == drained(gone, m)
              old == LeasesOn(m) \ gone
              new == {LeaseFor(e, m) : e \in Served(gone, m)}
  <2>1. LeasesOn(m)' = old \cup new
    <3>1. \A k \in Pool : \A e \in Served(gone, k) : LeaseFor(e, k).model = k
      BY DEF LeaseFor
    <3>. QED  BY <3>1 DEF LeasesOn, LeasesAfter
  <2>2. n \in Nat /\ IsFiniteSet(old) /\ Cardinality(old) \in Nat
        /\ Cardinality(old) + n <= MaxConcurrent[m]
    BY DrainedBounds
  <2>3. IsFiniteSet(new) /\ Cardinality(new) <= n
    <3>. DEFINE f == [i \in 1..n |-> LeaseFor(queues[m][i], m)]
    <3>1. new = {f[i] : i \in 1..n}
      BY DEF Served
    <3>2. f \in [1..n -> new]
      BY <3>1
    <3>. HIDE DEF f, new, n
    <3>. QED  BY <3>1, <3>2, <2>2, AtMostAsMany
  <2>. HIDE DEF old, new, n
  <2>4. Cardinality(new) \in Nat
    BY <2>3, FS_CardinalityType
  <2>5. IsFiniteSet(old \cup new)
    BY <2>2, <2>3, FS_Union
  <2>6. Cardinality(old \cup new)
          = Cardinality(old) + Cardinality(new) - Cardinality(old \cap new)
    BY <2>2, <2>3, FS_Union
  <2>7. Cardinality(old \cap new) \in Nat
    BY <2>2, FS_Intersection, FS_CardinalityType
  <2>8. MaxConcurrent[m] \in Nat
    BY PoolAssumption
  <2>9. Cardinality(old \cup new) <= MaxConcurrent[m]
    BY <2>2, <2>3, <2>4, <2>6, <2>7, <2>8
  <2>. QED  BY <2>1, <2>5, <2>9
<1>. QED  BY <1>2, <1>3 DEF LeasesFinite, WithinCapacity, countActiveLeases

(* What a release leaves of the queues, with or without the entries of a   *)
(* cancelled task, are queues.                                             *)
LEMMA ReleaseKeepsQueues ==
  ASSUME IInv, NEW gone \in SUBSET activeLeases, NEW m \in Pool
  PROVE  StillQueued(gone, m) \in Seq(QueueEntry)
<1>1. queues[m] \in Seq(QueueEntry)
  BY DEF IInv, TypeOK
<1>2. Len(queues[m]) \in Nat /\ drained(gone, m) \in 0..Len(queues[m])
  BY DrainedBounds
<1>3. \A i \in (drained(gone, m) + 1)..Len(queues[m]) : queues[m][i] \in QueueEntry
  BY <1>1, <1>2, ElementOfSeq
<1>4. drained(gone, m) + 1 \in Int /\ Len(queues[m]) \in Int
  BY <1>2
<1>5. SubSeq(queues[m], drained(gone, m) + 1, Len(queues[m])) \in Seq(QueueEntry)
  BY <1>3, <1>4, SubSeqProperties
<1>. QED  BY <1>5 DEF StillQueued

(* At first nobody holds a lease.                                          *)
LEMMA InitEstablishesIInv ==
  ASSUME Init
  PROVE  IInv
<1>1. TypeOK
  BY EmptySeq DEF Init, TypeOK, PromiseState
<1>2. ASSUME NEW m \in Pool
      PROVE  IsFiniteSet(LeasesOn(m)) /\ countActiveLeases(m) <= MaxConcurrent[m]
  <2>1. LeasesOn(m) = {}
    BY DEF Init, LeasesOn
  <2>2. IsFiniteSet(LeasesOn(m)) /\ Cardinality(LeasesOn(m)) = 0
    BY <2>1, FS_EmptySet
  <2>. QED  BY <2>2, PoolAssumption DEF countActiveLeases
<1>. QED  BY <1>1, <1>2 DEF IInv, LeasesFinite, WithinCapacity

(* Every call of the scheduler preserves the invariant.                    *)
LEMMA NextPreservesIInv ==
  ASSUME IInv, [Next]_vars
  PROVE  IInv'
<1>. USE DEF IInv
<1>1. ASSUME NEW c \in Calls, NEW t \in TaskIds, NEW m \in Models, AcquireFree(c, t, m)
      PROVE  IInv'
  <2>. DEFINE lease == [id |-> c, taskId |-> t, model |-> m]
  <2>1. m \in Pool /\ activeLeases' = activeLeases \cup {lease} /\ lease \in Lease
    BY <1>1 DEF AcquireFree, Lease
  <2>2. TypeOK'
    BY <1>1, <2>1 DEF TypeOK, AcquireFree, PromiseState
  <2>3. LeasesOn(m)' = LeasesOn(m) \cup {lease}
    BY <2>1 DEF LeasesOn
  <2>4. \A n \in Pool \ {m} : LeasesOn(n)' = LeasesOn(n)
    BY <2>1 DEF LeasesOn
  <2>5. IsFiniteSet(LeasesOn(m)) /\ Cardinality(LeasesOn(m)) \in Nat
    BY <2>1, FS_CardinalityType DEF LeasesFinite
  <2>6. /\ IsFiniteSet(LeasesOn(m)')
        /\ \/ Cardinality(LeasesOn(m)') = Cardinality(LeasesOn(m))
           \/ Cardinality(LeasesOn(m)') = Cardinality(LeasesOn(m)) + 1
    <3>. HIDE DEF lease
    <3>1. IsFiniteSet(LeasesOn(m) \cup {lease})
      BY <2>5, FS_AddElement
    <3>2. Cardinality(LeasesOn(m) \cup {lease})
            = IF lease \in LeasesOn(m) THEN Cardinality(LeasesOn(m))
              ELSE Cardinality(LeasesOn(m)) + 1
      BY <2>5, FS_AddElement
    <3>. QED  BY <2>3, <3>1, <3>2
  <2>7. Cardinality(LeasesOn(m)') <= MaxConcurrent[m]
    <3>1. Cardinality(LeasesOn(m)) < MaxConcurrent[m] /\ MaxConcurrent[m] \in Nat
      BY <1>1, <2>1, PoolAssumption DEF AcquireFree, countActiveLeases
    <3>. QED  BY <3>1, <2>5, <2>6
  <2>8. LeasesFinite'
    BY <2>4, <2>6 DEF LeasesFinite
  <2>9. WithinCapacity'
    BY <2>4, <2>7 DEF WithinCapacity, countActiveLeases
  <2>. QED  BY <2>2, <2>8, <2>9
<1>2. ASSUME NEW c \in Calls, NEW t \in TaskIds, NEW m \in Models, AcquireQueued(c, t, m)
      PROVE  IInv'
  <2>1. /\ queues[m] \in Seq(QueueEntry)
        /\ [id |-> c, taskId |-> t] \in QueueEntry
    BY <1>2 DEF AcquireQueued, TypeOK, QueueEntry
  <2>2. Append(queues[m], [id |-> c, taskId |-> t]) \in Seq(QueueEntry)
    BY <2>1, AppendProperties
  <2>3. TypeOK'
    BY <1>2, <2>2 DEF TypeOK, AcquireQueued, PromiseState
  <2>4. LeasesFinite' /\ WithinCapacity'
    BY <1>2 DEF AcquireQueued, LeasesFinite, WithinCapacity, countActiveLeases, LeasesOn
  <2>. QED  BY <2>3, <2>4
<1>3. ASSUME NEW c \in Calls, NEW m \in Models, AcquireUnknown(c, m)
      PROVE  IInv'
  <2>1. TypeOK'
    BY <1>3 DEF TypeOK, AcquireUnknown, PromiseState
  <2>2. LeasesFinite' /\ WithinCapacity'
    BY <1>3 DEF AcquireUnknown, LeasesFinite, WithinCapacity, countActiveLeases, LeasesOn
  <2>. QED  BY <2>1, <2>2
<1>4. ASSUME NEW c \in Calls, ReleaseLease(c)
      PROVE  IInv'
  <2>. DEFINE gone == {l \in activeLeases : l.id = c}
  <2>1. gone \in SUBSET activeLeases /\ activeLeases' = LeasesAfter(gone)
    BY <1>4 DEF ReleaseLease
  <2>2. activeLeases' \in SUBSET Lease /\ LeasesFinite' /\ WithinCapacity'
    BY <2>1, ReleaseKeepsCapacity
  <2>3. queues' \in [Pool -> Seq(QueueEntry)]
    <3>1. \A m \in Pool : StillQueued(gone, m) \in Seq(QueueEntry)
      BY <2>1, ReleaseKeepsQueues
    <3>2. queues' = [m \in Pool |-> StillQueued(gone, m)]
      BY <1>4 DEF ReleaseLease
    <3>. QED  BY <3>1, <3>2
  <2>4. promise' \in [Calls -> PromiseState]
    BY <1>4 DEF ReleaseLease, TypeOK, PromiseState
  <2>. QED  BY <2>2, <2>3, <2>4 DEF TypeOK
<1>5. ASSUME NEW t \in TaskIds, ReleaseByTaskId(t)
      PROVE  IInv'
  <2>. DEFINE gone == {l \in activeLeases : l.taskId = t}
  <2>1. gone \in SUBSET activeLeases /\ activeLeases' = LeasesAfter(gone)
    BY <1>5 DEF ReleaseByTaskId
  <2>2. activeLeases' \in SUBSET Lease /\ LeasesFinite' /\ WithinCapacity'
    BY <2>1, ReleaseKeepsCapacity
  <2>3. queues' \in [Pool -> Seq(QueueEntry)]
    <3>1. \A m \in Pool : Without(StillQueued(gone, m), t) \in Seq(QueueEntry)
      BY <2>1, ReleaseKeepsQueues, WithoutIsQueue
    <3>2. queues' = [m \in Pool |-> Without(StillQueued(gone, m), t)]
      BY <1>5 DEF ReleaseByTaskId
    <3>. QED  BY <3>1, <3>2
  <2>4. promise' \in [Calls -> PromiseState]
    BY <1>5 DEF ReleaseByTaskId, TypeOK, PromiseState
  <2>. QED  BY <2>2, <2>3, <2>4 DEF TypeOK
<1>6. CASE UNCHANGED vars
  BY <1>6 DEF vars, TypeOK, LeasesFinite, WithinCapacity, countActiveLeases, LeasesOn
<1>. QED  BY <1>1, <1>2, <1>3, <1>4, <1>5, <1>6 DEF Next, AcquireLease

(* So it always holds.                                                     *)
LEMMA IInvHolds == Spec => []IInv
<1>. QED  BY InitEstablishesIInv, NextPreservesIInv, PTL DEF Spec

(* The variables of the scheduler are what the code declares them to be.   *)
THEOREM TypeCorrect == Spec => []TypeOK
<1>1. IInv => TypeOK
  BY DEF IInv
<1>. QED  BY <1>1, IInvHolds, PTL

(* No model ever has more leases than it has slots: acquireLease() and     *)
(* drainQueue() are the only ways to a lease, and neither exceeds the free *)
(* slots, also when one release or one cancellation serves several waiters.*)
THEOREM CapacityRespected == Spec => []WithinCapacity
<1>1. IInv => WithinCapacity
  BY DEF IInv
<1>. QED  BY <1>1, IInvHolds, PTL

-----------------------------------------------------------------------------
(***************************************************************************)
(* Where the calls are.  NobodyIdles is what makes both the order and the  *)
(* service inductive: a newcomer is never served while somebody waits.     *)
(***************************************************************************)
NobodyIdles ==
  \A m \in Pool : queues[m] # <<>> => countActiveLeases(m) >= MaxConcurrent[m]

Orderly == IInv /\ PromisesAgree /\ NobodyIdles

(* r is what is left of the queue q, in the order of q, once its first n   *)
(* entries and perhaps others are gone: p tells where each entry was.      *)
Picks(q, r, n, p) ==
  /\ p \in [1..Len(r) -> (n + 1)..Len(q)]
  /\ \A j, k \in 1..Len(r) : j < k => p[j] < p[k]
  /\ \A k \in 1..Len(r) : r[k] = q[p[k]]

(* The i-th entry of q is still there.                                     *)
Kept(p, i) == \E k \in DOMAIN p : p[k] = i

(* What releaseLease() and releaseByTaskId() have in common: leases go,    *)
(* the heads of the queues are served, and some waiters may be refused.    *)
Turnover(gone, refused) ==
  /\ gone \in SUBSET activeLeases
  /\ activeLeases' = LeasesAfter(gone)
  /\ \A m \in Pool : \E p :
       /\ Picks(queues[m], queues'[m], drained(gone, m), p)
       /\ \A i \in (drained(gone, m) + 1)..Len(queues[m]) :
            queues[m][i].id \in refused <=> ~ Kept(p, i)
  /\ \A c \in refused : \E m \in Pool :
       \E i \in (drained(gone, m) + 1)..Len(queues[m]) : queues[m][i].id = c
  /\ \A c \in Calls : promise'[c] =
       IF \E m \in Pool : \E i \in 1..drained(gone, m) : queues[m][i].id = c
         THEN "granted"
       ELSE IF c \in refused THEN "rejected" ELSE promise[c]

(* A release leaves the rest of every queue as it was.                     *)
LEMMA StillQueuedPicks ==
  ASSUME IInv, NEW gone \in SUBSET activeLeases, NEW m \in Pool
  PROVE  /\ StillQueued(gone, m) \in Seq(QueueEntry)
         /\ Len(StillQueued(gone, m)) = Len(queues[m]) - drained(gone, m)
         /\ Picks(queues[m], StillQueued(gone, m), drained(gone, m),
                  [k \in 1..Len(StillQueued(gone, m)) |-> drained(gone, m) + k])
<1>. DEFINE n == drained(gone, m)
            q == queues[m]
            r == StillQueued(gone, m)
<1>1. q \in Seq(QueueEntry)
  BY DEF IInv, TypeOK
<1>2. Len(q) \in Nat /\ n \in 0..Len(q)
  BY DrainedBounds
<1>3. \A i \in (n + 1)..Len(q) : q[i] \in QueueEntry
  <2>. HIDE DEF n, q
  <2>. QED  BY <1>1, <1>2, ElementOfSeq
<1>4. r = SubSeq(q, n + 1, Len(q))
  BY DEF StillQueued
<1>5. n + 1 \in Int /\ Len(q) \in Int
  BY <1>2
<1>. HIDE DEF n, q, r
<1>6. /\ r \in Seq(QueueEntry)
      /\ Len(r) = IF n + 1 <= Len(q) THEN Len(q) - (n + 1) + 1 ELSE 0
      /\ \A i \in 1..(Len(q) - (n + 1) + 1) : r[i] = q[n + 1 + i - 1]
  BY <1>3, <1>4, <1>5, SubSeqProperties
<1>7. Len(r) = Len(q) - n
  BY <1>2, <1>6
<1>8. \A i \in 1..Len(r) : r[i] = q[n + i]
  BY <1>2, <1>6, <1>7
<1>9. Picks(q, r, n, [k \in 1..Len(r) |-> n + k])
  BY <1>2, <1>7, <1>8 DEF Picks
<1>. QED  BY <1>6, <1>7, <1>9 DEF n, q, r

(* Without(q, t) leaves what is not of task t, in the order it had.        *)
LEMMA WithoutPicks ==
  ASSUME NEW q \in Seq(QueueEntry), NEW t
  PROVE  \E p : /\ Picks(q, Without(q, t), 0, p)
                /\ \A i \in 1..Len(q) : Kept(p, i) <=> q[i].taskId # t
<1>. DEFINE kept == {i \in 1..Len(q) : q[i].taskId # t}
            p == [k \in 1..Cardinality(kept) |-> Place(kept, k)]
<1>1. Len(q) \in Nat /\ kept \in SUBSET (1..Len(q))
  OBVIOUS
<1>2. Cardinality(kept) \in Nat
  BY <1>1, PositionsAreFinite
<1>3. Without(q, t) = [k \in 1..Cardinality(kept) |-> q[Place(kept, k)]]
  BY DEF Without
<1>. HIDE DEF kept
<1>4. \A k \in 1..Cardinality(kept) : Place(kept, k) \in kept
  BY <1>1, PlaceIsKept
<1>5. Len(Without(q, t)) = Cardinality(kept)
  BY <1>2, <1>3
<1>6. \A j, k \in 1..Cardinality(kept) : j < k => Place(kept, j) < Place(kept, k)
  BY <1>1, PlacesInOrder
<1>7. \A k \in 1..Cardinality(kept) : Without(q, t)[k] = q[Place(kept, k)]
  BY <1>3
<1>8. p \in [1..Cardinality(kept) -> 1..Len(q)]
  BY <1>1, <1>4
<1>9. Picks(q, Without(q, t), 0, p)
  <2>1. \A k \in 1..Cardinality(kept) : p[k] = Place(kept, k)
    OBVIOUS
  <2>. HIDE DEF p
  <2>. QED  BY <1>5, <1>6, <1>7, <1>8, <2>1 DEF Picks
<1>10. ASSUME NEW i \in 1..Len(q)
       PROVE  Kept(p, i) <=> q[i].taskId # t
  <2>1. Kept(p, i) <=> \E k \in 1..Cardinality(kept) : Place(kept, k) = i
    BY DEF Kept
  <2>2. (\E k \in 1..Cardinality(kept) : Place(kept, k) = i) <=> i \in kept
    BY <1>1, <1>4, PlaceOfKept
  <2>3. i \in kept <=> q[i].taskId # t
    BY DEF kept
  <2>. QED  BY <2>1, <2>2, <2>3
<1>. QED  BY <1>9, <1>10

(* To pick from what was picked is to pick.                                *)
LEMMA PicksOfPicks ==
  ASSUME NEW q, NEW r, NEW s, NEW n \in Nat, NEW f, NEW g,
         Len(q) \in Nat, Len(r) \in Nat, Len(s) \in Nat,
         Picks(q, r, n, f), Picks(r, s, 0, g),
         NEW p, p = [k \in 1..Len(s) |-> f[g[k]]]
  PROVE  Picks(q, s, n, p)
<1>1. \A k \in 1..Len(s) : g[k] \in 1..Len(r) /\ s[k] = r[g[k]]
  BY DEF Picks
<1>2. \A k \in 1..Len(r) : f[k] \in (n + 1)..Len(q) /\ r[k] = q[f[k]]
  BY DEF Picks
<1>3. \A j, k \in 1..Len(s) : j < k => f[g[j]] < f[g[k]]
  BY <1>1 DEF Picks
<1>. QED  BY <1>1, <1>2, <1>3 DEF Picks

(* releaseLease() is such a turnover, and refuses nobody.                  *)
LEMMA ReleaseTurnsOver ==
  ASSUME IInv, NEW id \in Calls, ReleaseLease(id)
  PROVE  Turnover({l \in activeLeases : l.id = id}, {})
<1>. DEFINE gone == {l \in activeLeases : l.id = id}
<1>1. gone \in SUBSET activeLeases
  OBVIOUS
<1>. HIDE DEF gone
<1>2. ASSUME NEW m \in Pool
      PROVE  \E p :
               /\ Picks(queues[m], queues'[m], drained(gone, m), p)
               /\ \A i \in (drained(gone, m) + 1)..Len(queues[m]) : Kept(p, i)
  <2>. DEFINE n == drained(gone, m)
              r == StillQueued(gone, m)
              p == [k \in 1..Len(r) |-> n + k]
  <2>1. queues'[m] = r
    BY <1>2 DEF ReleaseLease, gone
  <2>2. Len(r) = Len(queues[m]) - n /\ Picks(queues[m], r, n, p)
    BY <1>1, StillQueuedPicks
  <2>3. Len(queues[m]) \in Nat /\ n \in 0..Len(queues[m])
    BY <1>1, DrainedBounds
  <2>. HIDE DEF r
  <2>4. ASSUME NEW i \in (n + 1)..Len(queues[m])
        PROVE  Kept(p, i)
    <3>1. i - n \in 1..Len(r) /\ p[i - n] = i
      BY <2>2, <2>3
    <3>. QED  BY <3>1 DEF Kept
  <2>5. \E x : /\ Picks(queues[m], queues'[m], n, x)
               /\ \A i \in (n + 1)..Len(queues[m]) : Kept(x, i)
    BY <2>1, <2>2, <2>4
  <2>. QED  BY <2>5
<1>3. \A c \in Calls : promise'[c] =
        IF \E m \in Pool : \E i \in 1..drained(gone, m) : queues[m][i].id = c
          THEN "granted" ELSE promise[c]
  <2>1. \A c \in Calls :
          (\E m \in Pool : \E e \in Served(gone, m) : e.id = c)
            <=> \E m \in Pool : \E i \in 1..drained(gone, m) : queues[m][i].id = c
    BY DEF Served
  <2>. QED  BY <2>1 DEF ReleaseLease, gone
<1>4. activeLeases' = LeasesAfter(gone)
  BY DEF ReleaseLease, gone
<1>. QED  BY <1>1, <1>2, <1>3, <1>4 DEF Turnover, gone

(* releaseByTaskId() is one too, and refuses the waiting calls of the task.*)
LEMMA CancelTurnsOver ==
  ASSUME IInv, PromisesAgree, NEW t \in TaskIds, ReleaseByTaskId(t)
  PROVE  Turnover({l \in activeLeases : l.taskId = t},
           {c \in Calls : \E m \in Pool :
              \E i \in 1..Len(StillQueued({l \in activeLeases : l.taskId = t}, m)) :
                StillQueued({l \in activeLeases : l.taskId = t}, m)[i]
                  = [id |-> c, taskId |-> t]})
<1>. DEFINE gone == {l \in activeLeases : l.taskId = t}
            refused == {c \in Calls : \E m \in Pool :
                          \E i \in 1..Len(StillQueued(gone, m)) :
                            StillQueued(gone, m)[i] = [id |-> c, taskId |-> t]}
<1>1. gone \in SUBSET activeLeases
  OBVIOUS
<1>2. \A c \in Calls : promise'[c] =
        IF \E m \in Pool : \E i \in 1..drained(gone, m) : queues[m][i].id = c
          THEN "granted"
        ELSE IF c \in refused THEN "rejected" ELSE promise[c]
  <2>1. \A c \in Calls :
          (\E m \in Pool : \E e \in Served(gone, m) : e.id = c)
            <=> \E m \in Pool : \E i \in 1..drained(gone, m) : queues[m][i].id = c
    BY DEF Served
  <2>. QED  BY <2>1 DEF ReleaseByTaskId
<1>3. activeLeases' = LeasesAfter(gone)
  BY DEF ReleaseByTaskId
<1>4. \A m \in Pool : queues'[m] = Without(StillQueued(gone, m), t)
  BY DEF ReleaseByTaskId
<1>. HIDE DEF gone
<1>5. ASSUME NEW m \in Pool
      PROVE  /\ Len(queues[m]) \in Nat /\ drained(gone, m) \in 0..Len(queues[m])
             /\ Len(StillQueued(gone, m)) = Len(queues[m]) - drained(gone, m)
             /\ StillQueued(gone, m) \in Seq(QueueEntry)
             /\ \A i \in 1..Len(StillQueued(gone, m)) :
                  StillQueued(gone, m)[i] = queues[m][drained(gone, m) + i]
  <2>. DEFINE r == StillQueued(gone, m)
  <2>0. PICK n : n = drained(gone, m)
    OBVIOUS
  <2>1. /\ r \in Seq(QueueEntry)
        /\ Len(r) = Len(queues[m]) - n
        /\ Picks(queues[m], r, n, [k \in 1..Len(r) |-> n + k])
    BY <1>1, <2>0, StillQueuedPicks
  <2>2. Len(queues[m]) \in Nat /\ n \in 0..Len(queues[m])
    BY <1>1, <2>0, DrainedBounds
  <2>. HIDE DEF r
  <2>3. \A i \in 1..Len(r) : r[i] = queues[m][n + i]
    BY <2>1, <2>2 DEF Picks
  <2>. QED  BY <2>0, <2>1, <2>2, <2>3 DEF r
<1>6. ASSUME NEW m \in Pool, NEW i \in (drained(gone, m) + 1)..Len(queues[m])
      PROVE  /\ queues[m][i] \in QueueEntry
             /\ queues[m][i].id \in refused <=> queues[m][i].taskId = t
  <2>1. i \in 1..Len(queues[m]) /\ queues[m] \in Seq(QueueEntry)
    BY <1>5, <1>6 DEF IInv, TypeOK
  <2>2. queues[m][i] \in QueueEntry
    BY <2>1, ElementOfSeq
  <2>3. ASSUME queues[m][i].taskId = t
        PROVE  queues[m][i].id \in refused
    <3>1. queues[m][i] = [id |-> queues[m][i].id, taskId |-> t]
          /\ queues[m][i].id \in Calls
      BY <2>2, <2>3 DEF QueueEntry
    <3>2. /\ i - drained(gone, m) \in 1..Len(StillQueued(gone, m))
          /\ StillQueued(gone, m)[i - drained(gone, m)] = queues[m][i]
      BY <1>5, <1>6
    <3>. QED  BY <3>1, <3>2
  <2>4. ASSUME queues[m][i].id \in refused
        PROVE  queues[m][i].taskId = t
    <3>0. PICK n \in Pool : \E j \in 1..Len(StillQueued(gone, n)) :
             StillQueued(gone, n)[j] = [id |-> queues[m][i].id, taskId |-> t]
      BY <2>4
    <3>1. PICK j \in 1..Len(StillQueued(gone, n)) :
             StillQueued(gone, n)[j] = [id |-> queues[m][i].id, taskId |-> t]
      BY <3>0
    <3>2. PICK k \in 1..Len(queues[n]) :
            queues[n][k] = [id |-> queues[m][i].id, taskId |-> t]
      <4>1. /\ drained(gone, n) \in 0..Len(queues[n]) /\ Len(queues[n]) \in Nat
            /\ Len(StillQueued(gone, n)) = Len(queues[n]) - drained(gone, n)
            /\ StillQueued(gone, n)[j] = queues[n][drained(gone, n) + j]
        BY <1>5, <3>1
      <4>2. PICK a \in Nat, b \in Nat : a = drained(gone, n) /\ b = Len(queues[n])
        BY <4>1
      <4>3. j \in 1..b - a /\ a \in 0..b
        BY <3>1, <4>1, <4>2
      <4>4. a + j \in 1..b
        BY <4>3
      <4>. QED  BY <3>1, <4>1, <4>2, <4>4
    <3>3. queues[n][k].id = queues[m][i].id
      BY <3>2
    <3>4. m = n /\ i = k
      BY <2>1, <3>3 DEF PromisesAgree
    <3>. QED  BY <3>2, <3>4
  <2>. QED  BY <2>2, <2>3, <2>4
<1>7. ASSUME NEW m \in Pool
      PROVE  \E p :
               /\ Picks(queues[m], queues'[m], drained(gone, m), p)
               /\ \A i \in (drained(gone, m) + 1)..Len(queues[m]) :
                    queues[m][i].id \in refused <=> ~ Kept(p, i)
  <2>0. PICK n : n = drained(gone, m)
    OBVIOUS
  <2>. DEFINE r == StillQueued(gone, m)
              s == Without(r, t)
              f == [k \in 1..Len(r) |-> n + k]
  <2>1. r \in Seq(QueueEntry) /\ Picks(queues[m], r, n, f)
    BY <1>1, <2>0, StillQueuedPicks
  <2>2. PICK g : Picks(r, s, 0, g) /\ \A i \in 1..Len(r) : Kept(g, i) <=> r[i].taskId # t
    BY <2>1, WithoutPicks
  <2>3. s \in Seq(QueueEntry)
    BY <2>1, WithoutIsQueue
  <2>4. /\ Len(queues[m]) \in Nat /\ n \in 0..Len(queues[m])
        /\ Len(r) = Len(queues[m]) - n
        /\ \A i \in 1..Len(r) : r[i] = queues[m][n + i]
    BY <1>5, <2>0
  <2>5. Len(r) \in Nat /\ Len(s) \in Nat
    <3>. HIDE DEF r, s
    <3>. QED  BY <2>1, <2>3, LenProperties
  <2>. DEFINE p == [k \in 1..Len(s) |-> f[g[k]]]
  <2>6. Picks(queues[m], s, n, p)
    <3>. HIDE DEF r, s, f
    <3>1. n \in Nat /\ Len(queues[m]) \in Nat
      BY <2>4
    <3>2. Picks(queues[m], r, n, f) /\ Picks(r, s, 0, g)
      BY <2>1, <2>2
    <3>3. p = [k \in 1..Len(s) |-> f[g[k]]]
      OBVIOUS
    <3>. HIDE DEF p
    <3>. QED  BY <2>5, <3>1, <3>2, <3>3, PicksOfPicks
  <2>7. queues'[m] = s
    BY <1>4
  <2>8. \A i \in (n + 1)..Len(queues[m]) : queues[m][i].id \in refused <=> queues[m][i].taskId = t
    BY <1>6, <2>0
  <2>. HIDE DEF r, s, refused
  <2>9. ASSUME NEW i \in (n + 1)..Len(queues[m])
        PROVE  Kept(p, i) <=> queues[m][i].taskId # t
    <3>1. i - n \in 1..Len(r) /\ r[i - n] = queues[m][i]
      BY <2>4
    <3>2. \A k \in 1..Len(s) : g[k] \in 1..Len(r) /\ p[k] = n + g[k]
      BY <2>2 DEF Picks
    <3>3. DOMAIN p = 1..Len(s) /\ DOMAIN g = 1..Len(s)
      BY <2>2 DEF Picks
    <3>4. \A k \in 1..Len(s) : p[k] = i <=> g[k] = i - n
      BY <2>4, <2>5, <3>2
    <3>5. Kept(p, i) <=> Kept(g, i - n)
      <4>. HIDE DEF p
      <4>. QED  BY <3>3, <3>4 DEF Kept
    <3>6. Kept(g, i - n) <=> r[i - n].taskId # t
      BY <2>2, <3>1
    <3>. QED  BY <3>1, <3>5, <3>6
  <2>10. \E x : /\ Picks(queues[m], queues'[m], n, x)
                /\ \A i \in (n + 1)..Len(queues[m]) :
                     queues[m][i].id \in refused <=> ~ Kept(x, i)
    BY <2>6, <2>7, <2>8, <2>9
  <2>. QED  BY <2>0, <2>10
<1>8. ASSUME NEW c \in refused
      PROVE  \E m \in Pool : \E i \in (drained(gone, m) + 1)..Len(queues[m]) :
               queues[m][i].id = c
  <2>0. PICK m \in Pool : \E i \in 1..Len(StillQueued(gone, m)) :
          StillQueued(gone, m)[i] = [id |-> c, taskId |-> t]
    OBVIOUS
  <2>1. PICK i \in 1..Len(StillQueued(gone, m)) :
          StillQueued(gone, m)[i] = [id |-> c, taskId |-> t]
    BY <2>0
  <2>2. drained(gone, m) + i \in (drained(gone, m) + 1)..Len(queues[m])
    <3>1. /\ drained(gone, m) \in 0..Len(queues[m]) /\ Len(queues[m]) \in Nat
          /\ Len(StillQueued(gone, m)) = Len(queues[m]) - drained(gone, m)
      BY <1>5
    <3>2. PICK a \in Nat, b \in Nat : a = drained(gone, m) /\ b = Len(queues[m])
      BY <3>1
    <3>3. i \in 1..b - a
      BY <2>1, <3>1, <3>2
    <3>4. a + i \in (a + 1)..b
      BY <3>3
    <3>. QED  BY <3>2, <3>4
  <2>3. queues[m][drained(gone, m) + i].id = c
    BY <1>5, <2>1
  <2>. QED  BY <2>2, <2>3
<1>. HIDE DEF refused
<1>9. Turnover(gone, refused)
  BY <1>1, <1>2, <1>3, <1>7, <1>8 DEF Turnover
<1>. QED  BY <1>9 DEF gone, refused

(* An entry of a queue names a call that is pending, and is the only one   *)
(* to name it.                                                             *)
LEMMA QueuedCalls ==
  ASSUME IInv, PromisesAgree, NEW m \in Pool
  PROVE  /\ queues[m] \in Seq(QueueEntry) /\ Len(queues[m]) \in Nat
         /\ \A i \in 1..Len(queues[m]) : queues[m][i] \in QueueEntry
                                           /\ promise[queues[m][i].id] = "pending"
         /\ \A n \in Pool : \A i \in 1..Len(queues[m]), j \in 1..Len(queues[n]) :
              queues[m][i].id = queues[n][j].id => m = n /\ i = j
<1>1. queues[m] \in Seq(QueueEntry)
  BY DEF IInv, TypeOK
<1>2. Len(queues[m]) \in Nat
  BY <1>1
<1>3. ASSUME NEW i \in 1..Len(queues[m])
      PROVE  queues[m][i] \in QueueEntry /\ promise[queues[m][i].id] = "pending"
  <2>1. queues[m][i] \in QueueEntry
    BY <1>1, ElementOfSeq
  <2>2. queues[m][i].id \in Calls /\ queues[m][i] \in Waiting(m)
    BY <2>1 DEF QueueEntry, Waiting
  <2>. QED  BY <2>1, <2>2 DEF PromisesAgree
<1>4. \A n \in Pool : \A i \in 1..Len(queues[m]), j \in 1..Len(queues[n]) :
        queues[m][i].id = queues[n][j].id => m = n /\ i = j
  BY DEF PromisesAgree
<1>. QED  BY <1>1, <1>2, <1>3, <1>4

(* What a turnover does, entry by entry: the first entries are served, and *)
(* what is left of a queue was in it, behind them.                         *)
LEMMA TurnoverEntries ==
  ASSUME IInv, PromisesAgree, NEW gone, NEW refused, Turnover(gone, refused), NEW m \in Pool
  PROVE  /\ drained(gone, m) \in 0..Len(queues[m])
         /\ \A i \in 1..drained(gone, m) :
              /\ promise'[queues[m][i].id] = "granted"
              /\ LeaseFor(queues[m][i], m) \in activeLeases'
         /\ \A i \in (drained(gone, m) + 1)..Len(queues[m]) :
              promise'[queues[m][i].id] =
                IF queues[m][i].id \in refused THEN "rejected" ELSE "pending"
         /\ \E p :
              /\ Picks(queues[m], queues'[m], drained(gone, m), p)
              /\ \A i \in (drained(gone, m) + 1)..Len(queues[m]) :
                   queues[m][i].id \in refused <=> ~ Kept(p, i)
<1>1. gone \in SUBSET activeLeases
  BY DEF Turnover
<1>2. drained(gone, m) \in 0..Len(queues[m])
  BY <1>1, DrainedBounds
<1>3. Len(queues[m]) \in Nat /\ \A i \in 1..Len(queues[m]) :
        queues[m][i].id \in Calls /\ promise[queues[m][i].id] = "pending"
  BY QueuedCalls DEF QueueEntry
<1>4. ASSUME NEW i \in 1..drained(gone, m)
      PROVE  /\ promise'[queues[m][i].id] = "granted"
             /\ LeaseFor(queues[m][i], m) \in activeLeases'
  <2>1. i \in 1..Len(queues[m])
    BY <1>2, <1>3
  <2>2. promise'[queues[m][i].id] = "granted"
    BY <1>3, <1>4, <2>1 DEF Turnover
  <2>. QED  BY <2>2 DEF Turnover, LeasesAfter, Served
<1>5. ASSUME NEW i \in (drained(gone, m) + 1)..Len(queues[m])
      PROVE  promise'[queues[m][i].id] =
               IF queues[m][i].id \in refused THEN "rejected" ELSE "pending"
  <2>1. i \in 1..Len(queues[m])
    BY <1>2, <1>3
  <2>2. ASSUME NEW n \in Pool, NEW j \in 1..drained(gone, n),
               queues[n][j].id = queues[m][i].id
        PROVE  FALSE
    <3>1. drained(gone, n) \in 0..Len(queues[n]) /\ Len(queues[n]) \in Nat
      BY <1>1, DrainedBounds
    <3>2. j \in 1..Len(queues[n])
      BY <3>1
    <3>3. m = n /\ i = j
      BY <2>1, <2>2, <3>2, QueuedCalls
    <3>. QED  BY <1>2, <1>3, <1>5, <3>3
  <2>. QED  BY <1>3, <2>1, <2>2 DEF Turnover
<1>. QED  BY <1>2, <1>4, <1>5 DEF Turnover

(* A lease there is after a turnover was there before, or serves one of    *)
(* the first entries of the queue of its model.                            *)
LEMMA LeaseAfterTurnover ==
  ASSUME NEW gone, NEW refused, Turnover(gone, refused), NEW l \in activeLeases'
  PROVE  \/ l \in activeLeases \ gone
         \/ \E m \in Pool : \E i \in 1..drained(gone, m) : l = LeaseFor(queues[m][i], m)
BY DEF Turnover, LeasesAfter, Served

(* A release or a cancellation grants and rejects calls that were queued.  *)
LEMMA TurnoverKeepsPromises ==
  ASSUME IInv, PromisesAgree, NEW gone, NEW refused, Turnover(gone, refused), IInv'
  PROVE  PromisesAgree'
<1>1. ASSUME NEW m \in Pool
      PROVE  /\ drained(gone, m) \in 0..Len(queues[m])
             /\ Len(queues[m]) \in Nat
             /\ \A i \in 1..Len(queues[m]) :
                  queues[m][i].id \in Calls /\ promise[queues[m][i].id] = "pending"
             /\ \A i \in 1..drained(gone, m) : promise'[queues[m][i].id] = "granted"
             /\ \A i \in (drained(gone, m) + 1)..Len(queues[m]) :
                  promise'[queues[m][i].id] =
                    IF queues[m][i].id \in refused THEN "rejected" ELSE "pending"
  BY TurnoverEntries, QueuedCalls DEF QueueEntry
<1>2. \A m, n \in Pool : \A i \in 1..Len(queues[m]), j \in 1..Len(queues[n]) :
        queues[m][i].id = queues[n][j].id => m = n /\ i = j
  BY DEF PromisesAgree
<1>3. ASSUME NEW m \in Pool
      PROVE  /\ Len(queues'[m]) \in Nat
             /\ \E p :
                  /\ Picks(queues[m], queues'[m], drained(gone, m), p)
                  /\ \A i \in (drained(gone, m) + 1)..Len(queues[m]) :
                       queues[m][i].id \in refused <=> ~ Kept(p, i)
  <2>1. queues'[m] \in Seq(QueueEntry)
    BY DEF IInv, TypeOK
  <2>. QED  BY <2>1, TurnoverEntries
<1>4. ASSUME NEW m \in Pool, NEW k \in 1..Len(queues'[m])
      PROVE  queues'[m][k].id \in Calls /\ promise'[queues'[m][k].id] = "pending"
  <2>1. PICK p : /\ Picks(queues[m], queues'[m], drained(gone, m), p)
                 /\ \A i \in (drained(gone, m) + 1)..Len(queues[m]) :
                      queues[m][i].id \in refused <=> ~ Kept(p, i)
    BY <1>3
  <2>2. p[k] \in (drained(gone, m) + 1)..Len(queues[m]) /\ queues'[m][k] = queues[m][p[k]]
        /\ Kept(p, p[k])
    BY <2>1 DEF Picks, Kept
  <2>3. p[k] \in 1..Len(queues[m])
    BY <1>1, <2>2
  <2>. QED  BY <1>1, <2>1, <2>2, <2>3
<1>5. ASSUME NEW c \in Calls
      PROVE  promise'[c] = "pending" <=>
               \E m \in Pool : \E k \in 1..Len(queues'[m]) : queues'[m][k].id = c
  <2>1. ASSUME promise'[c] = "pending"
        PROVE  \E m \in Pool : \E k \in 1..Len(queues'[m]) : queues'[m][k].id = c
    <3>1. /\ promise[c] = "pending" /\ c \notin refused
          /\ ~ \E m \in Pool : \E i \in 1..drained(gone, m) : queues[m][i].id = c
      BY <2>1 DEF Turnover
    <3>2. PICK m \in Pool : \E i \in 1..Len(queues[m]) : queues[m][i].id = c
      BY <3>1 DEF PromisesAgree, Waiting
    <3>3. PICK i \in 1..Len(queues[m]) : queues[m][i].id = c
      BY <3>2
    <3>4. i \in (drained(gone, m) + 1)..Len(queues[m])
      BY <1>1, <3>1, <3>3
    <3>5. PICK p : /\ Picks(queues[m], queues'[m], drained(gone, m), p)
                   /\ Kept(p, i)
      BY <1>3, <3>1, <3>3, <3>4
    <3>6. PICK k \in 1..Len(queues'[m]) : p[k] = i
      BY <3>5 DEF Kept, Picks
    <3>. QED  BY <3>3, <3>5, <3>6 DEF Picks
  <2>. QED  BY <1>4, <2>1
<1>6. \A m, n \in Pool : \A j \in 1..Len(queues'[m]), k \in 1..Len(queues'[n]) :
        queues'[m][j].id = queues'[n][k].id => m = n /\ j = k
  <2>. SUFFICES ASSUME NEW m \in Pool, NEW n \in Pool,
                       NEW j \in 1..Len(queues'[m]), NEW k \in 1..Len(queues'[n]),
                       queues'[m][j].id = queues'[n][k].id
                PROVE  m = n /\ j = k
    OBVIOUS
  <2>1. PICK p : Picks(queues[m], queues'[m], drained(gone, m), p)
    BY <1>3
  <2>2. PICK q : Picks(queues[n], queues'[n], drained(gone, n), q)
    BY <1>3
  <2>3. PICK a \in (drained(gone, m) + 1)..Len(queues[m]) :
          a = p[j] /\ queues'[m][j] = queues[m][a]
    BY <2>1 DEF Picks
  <2>4. PICK b \in (drained(gone, n) + 1)..Len(queues[n]) :
          b = q[k] /\ queues'[n][k] = queues[n][b]
    BY <2>2 DEF Picks
  <2>5. a \in 1..Len(queues[m]) /\ b \in 1..Len(queues[n])
    BY <1>1
  <2>6. m = n /\ a = b
    <3>1. queues[m][a].id = queues[n][b].id
      BY <2>3, <2>4
    <3>. QED  BY <1>2, <2>5, <3>1
  <2>7. k \in 1..Len(queues'[m]) /\ queues'[m][k] = queues[m][a]
    BY <2>4, <2>6
  <2>8. PICK d \in (drained(gone, m) + 1)..Len(queues[m]) :
          d = p[k] /\ queues'[m][k] = queues[m][d]
    BY <2>1, <2>7 DEF Picks
  <2>9. d \in 1..Len(queues[m])
    BY <1>1
  <2>10. d = a
    <3>1. queues[m][d].id = queues[m][a].id
      BY <2>7, <2>8
    <3>. QED  BY <1>2, <2>5, <2>9, <3>1
  <2>11. p[j] = p[k]
    BY <2>3, <2>8, <2>10
  <2>12. \A x, y \in 1..Len(queues'[m]) : x < y => p[x] < p[y]
    BY <2>1 DEF Picks
  <2>13. /\ p[j] \in Int /\ p[k] \in Int /\ j \in Int /\ k \in Int
    BY <1>1, <1>3, <2>3, <2>7, <2>8
  <2>14. ~ (j < k) /\ ~ (k < j)
    BY <2>7, <2>11, <2>12, <2>13
  <2>. QED  BY <2>6, <2>13, <2>14
<1>7. ASSUME NEW l \in activeLeases'
      PROVE  promise'[l.id] = "granted"
  <2>1. CASE l \in activeLeases \ gone
    <3>1. promise[l.id] = "granted" /\ l.id \in Calls
      BY <2>1 DEF PromisesAgree, IInv, TypeOK, Lease
    <3>2. l.id \notin refused
      <4>. SUFFICES ASSUME l.id \in refused
                    PROVE  FALSE
        OBVIOUS
      <4>1. PICK m \in Pool : \E i \in (drained(gone, m) + 1)..Len(queues[m]) :
                                queues[m][i].id = l.id
        BY DEF Turnover
      <4>2. PICK i \in (drained(gone, m) + 1)..Len(queues[m]) : queues[m][i].id = l.id
        BY <4>1
      <4>3. i \in 1..Len(queues[m])
        BY <1>1
      <4>. QED  BY <1>1, <3>1, <4>2, <4>3
    <3>. QED  BY <3>1, <3>2 DEF Turnover
  <2>2. ASSUME NEW m \in Pool, NEW i \in 1..drained(gone, m), l = LeaseFor(queues[m][i], m)
        PROVE  promise'[l.id] = "granted"
    BY <1>1, <2>2 DEF LeaseFor
  <2>. QED  BY <2>1, <2>2, LeaseAfterTurnover
<1>8. ASSUME NEW m \in Pool, NEW i \in 1..drained(gone, m),
             NEW l \in activeLeases', l.id = queues[m][i].id
      PROVE  l = LeaseFor(queues[m][i], m)
  <2>1. i \in 1..Len(queues[m]) /\ promise[queues[m][i].id] = "pending"
    BY <1>1
  <2>2. l \notin activeLeases
    BY <1>8, <2>1 DEF PromisesAgree
  <2>3. PICK n \in Pool : \E j \in 1..drained(gone, n) : l = LeaseFor(queues[n][j], n)
    BY <2>2, LeaseAfterTurnover
  <2>4. PICK j \in 1..drained(gone, n) : l = LeaseFor(queues[n][j], n)
    BY <2>3
  <2>5. j \in 1..Len(queues[n]) /\ queues[n][j].id = queues[m][i].id
    BY <1>1, <1>8, <2>4 DEF LeaseFor
  <2>6. m = n /\ i = j
    BY <1>2, <2>1, <2>5
  <2>. QED  BY <2>4, <2>6
<1>9. ASSUME NEW k \in activeLeases', NEW l \in activeLeases', k.id = l.id
      PROVE  k = l
  <2>1. CASE k \in activeLeases /\ l \in activeLeases
    BY <1>9, <2>1 DEF PromisesAgree
  <2>2. ASSUME NEW m \in Pool, NEW i \in 1..drained(gone, m),
               k = LeaseFor(queues[m][i], m) \/ l = LeaseFor(queues[m][i], m)
        PROVE  k = l
    <3>1. k.id = queues[m][i].id /\ l.id = queues[m][i].id
      BY <1>9, <2>2 DEF LeaseFor
    <3>. QED  BY <1>8, <3>1
  <2>. QED  BY <2>1, <2>2, LeaseAfterTurnover
<1>10. \A c \in Calls : promise'[c] = "pending" <=>
         \E m \in Pool : \E e \in Waiting(m)' : e.id = c
  BY <1>5 DEF Waiting
<1>. QED  BY <1>6, <1>7, <1>9, <1>10 DEF PromisesAgree

(* After a turnover, too, a model somebody waits for has no slot to spare. *)
LEMMA TurnoverLeavesNobodyIdle ==
  ASSUME Orderly, NEW gone, NEW refused, Turnover(gone, refused), IInv'
  PROVE  NobodyIdles'
<1>. SUFFICES ASSUME NEW m \in Pool, queues'[m] # <<>>
              PROVE  countActiveLeases(m)' >= MaxConcurrent[m]
  BY DEF NobodyIdles
<1>. USE DEF Orderly
<1>. DEFINE n == drained(gone, m)
            old == LeasesOn(m) \ gone
            new == {LeaseFor(queues[m][i], m) : i \in 1..n}
<1>1. Len(queues[m]) \in Nat /\ n \in 0..Len(queues[m])
  BY TurnoverEntries, QueuedCalls
<1>2. n < Len(queues[m])
  <2>1. PICK p : Picks(queues[m], queues'[m], n, p)
    BY TurnoverEntries
  <2>2. queues'[m] \in Seq(QueueEntry)
    BY DEF IInv, TypeOK
  <2>3. 1 \in 1..Len(queues'[m])
    BY <2>2, EmptySeq
  <2>4. p[1] \in (n + 1)..Len(queues[m])
    BY <2>1, <2>3 DEF Picks
  <2>. QED  BY <1>1, <2>4
<1>3. queues[m] # <<>>
  <2>1. Len(<<>>) = 0
    BY EmptySeq
  <2>. QED  BY <1>1, <1>2, <2>1
<1>4. countActiveLeases(m) >= MaxConcurrent[m]
  BY <1>3 DEF NobodyIdles
<1>5. /\ IsFiniteSet(old) /\ Cardinality(old) \in Nat
      /\ Cardinality(old) + n = countActiveLeases(m)
  <2>1. gone \in SUBSET activeLeases
    BY DEF Turnover
  <2>. QED  BY <1>2, <2>1, DrainedBounds
<1>6. IsFiniteSet(new) /\ Cardinality(new) = n
  <2>. DEFINE f == [i \in 1..n |-> LeaseFor(queues[m][i], m)]
  <2>1. \A i, j \in 1..n : f[i] = f[j] => i = j
    <3>1. \A i \in 1..n : i \in 1..Len(queues[m]) /\ f[i].id = queues[m][i].id
      BY <1>1 DEF LeaseFor
    <3>. HIDE DEF f, n
    <3>. QED  BY <3>1, QueuedCalls
  <2>2. f \in [1..n -> new] /\ \A l \in new : \E i \in 1..n : f[i] = l
    OBVIOUS
  <2>. HIDE DEF f, new, n
  <2>3. f \in Bijection(1..n, new)
    BY <2>1, <2>2 DEF Bijection, Injection, Surjection, IsInjective
  <2>4. ExistsBijection(1..n, new)
    BY <2>3 DEF ExistsBijection
  <2>5. n \in Nat
    BY <1>1
  <2>. QED  BY <2>4, <2>5, FS_NatBijection, FS_CountingElements
<1>7. old \cap new = {}
  <2>. SUFFICES ASSUME NEW i \in 1..n, LeaseFor(queues[m][i], m) \in activeLeases
                PROVE  FALSE
    BY DEF LeasesOn
  <2>1. i \in 1..Len(queues[m])
    BY <1>1
  <2>2. promise[queues[m][i].id] = "pending"
    BY <2>1, QueuedCalls
  <2>. QED  BY <2>2 DEF LeaseFor, PromisesAgree
<1>8. LeasesOn(m)' = old \cup new
  <2>1. \A k \in Pool : \A e \in Served(gone, k) : LeaseFor(e, k).model = k
    BY DEF LeaseFor
  <2>2. new = {LeaseFor(e, m) : e \in Served(gone, m)}
    BY DEF Served
  <2>3. activeLeases' = (activeLeases \ gone)
                          \cup UNION {{LeaseFor(e, k) : e \in Served(gone, k)} : k \in Pool}
    BY DEF Turnover, LeasesAfter
  <2>4. LeasesOn(m)' = {l \in activeLeases' : l.model = m}
    BY DEF LeasesOn
  <2>. HIDE DEF new
  <2>. QED  BY <2>1, <2>2, <2>3, <2>4 DEF LeasesOn
<1>9. countActiveLeases(m)' = Cardinality(old \cup new)
  BY <1>8 DEF countActiveLeases
<1>. HIDE DEF old, new, n
<1>10. Cardinality(old \cup new) = Cardinality(old) + n
  <2>1. Cardinality(old \cup new) = Cardinality(old) + Cardinality(new) - Cardinality(old \cap new)
    BY <1>5, <1>6, FS_Union
  <2>2. Cardinality(old \cap new) = 0
    BY <1>7, FS_EmptySet
  <2>3. n \in Nat
    BY <1>1
  <2>. QED  BY <1>5, <1>6, <2>1, <2>2, <2>3
<1>. QED  BY <1>4, <1>5, <1>9, <1>10

(* Nobody waits for a model that has a free slot.                          *)
LEMMA FreeMeansNoQueue ==
  ASSUME NobodyIdles, IInv, NEW m \in Pool, countActiveLeases(m) < MaxConcurrent[m]
  PROVE  queues[m] = <<>>
<1>1. IsFiniteSet(LeasesOn(m)) /\ MaxConcurrent[m] \in Nat
  BY PoolAssumption DEF IInv, LeasesFinite
<1>2. countActiveLeases(m) \in Nat
  BY <1>1, FS_CardinalityType DEF countActiveLeases
<1>. QED  BY <1>1, <1>2 DEF NobodyIdles

(* A call that gets a slot at once has no place in a queue.                *)
LEMMA FreeKeepsOrder ==
  ASSUME Orderly, NEW c \in Calls, NEW t \in TaskIds, NEW m \in Models,
         AcquireFree(c, t, m), IInv'
  PROVE  PromisesAgree' /\ NobodyIdles'
<1>. USE DEF Orderly
<1>. DEFINE lease == [id |-> c, taskId |-> t, model |-> m]
<1>1. /\ m \in Pool /\ promise[c] = "unmade" /\ queues' = queues
      /\ activeLeases' = activeLeases \cup {lease}
      /\ promise' = [promise EXCEPT ![c] = "granted"]
      /\ promise \in [Calls -> PromiseState]
      /\ activeLeases \in SUBSET Lease
  BY DEF AcquireFree, IInv, TypeOK
<1>2. queues[m] = <<>>
  BY <1>1, FreeMeansNoQueue DEF AcquireFree
<1>3. NobodyIdles'
  <2>1. ASSUME NEW n \in Pool, queues'[n] # <<>>
        PROVE  countActiveLeases(n)' >= MaxConcurrent[n]
    <3>1. n # m
      BY <1>1, <1>2, <2>1
    <3>2. LeasesOn(n)' = LeasesOn(n)
      BY <1>1, <3>1 DEF LeasesOn
    <3>. QED  BY <1>1, <2>1, <3>2 DEF NobodyIdles, countActiveLeases
  <2>. QED  BY <2>1 DEF NobodyIdles
<1>4. \A d \in Calls : promise'[d] = "pending" <=> promise[d] = "pending"
  BY <1>1
<1>5. \A d \in Calls : promise'[d] = "pending" <=>
        \E n \in Pool : \E e \in Waiting(n)' : e.id = d
  BY <1>1, <1>4 DEF PromisesAgree, Waiting
<1>6. \A l \in activeLeases : l.id \in Calls /\ l.id # c
  BY <1>1 DEF PromisesAgree, Lease
<1>7. \A l \in activeLeases' : promise'[l.id] = "granted"
  BY <1>1, <1>6 DEF PromisesAgree
<1>8. \A k, l \in activeLeases' : k.id = l.id => k = l
  BY <1>1, <1>6 DEF PromisesAgree
<1>9. \A k, n \in Pool : \A i \in 1..Len(queues'[k]), j \in 1..Len(queues'[n]) :
        queues'[k][i].id = queues'[n][j].id => k = n /\ i = j
  BY <1>1 DEF PromisesAgree
<1>. QED  BY <1>3, <1>5, <1>7, <1>8, <1>9 DEF PromisesAgree

(* A call that has to wait is the last of its queue and in no other.       *)
LEMMA QueuedKeepsOrder ==
  ASSUME Orderly, NEW c \in Calls, NEW t \in TaskIds, NEW m \in Models,
         AcquireQueued(c, t, m), IInv'
  PROVE  PromisesAgree' /\ NobodyIdles'
<1>. USE DEF Orderly
<1>. DEFINE entry == [id |-> c, taskId |-> t]
<1>1. /\ m \in Pool /\ promise[c] = "unmade" /\ activeLeases' = activeLeases
      /\ queues' = [queues EXCEPT ![m] = Append(queues[m], entry)]
      /\ promise' = [promise EXCEPT ![c] = "pending"]
      /\ promise \in [Calls -> PromiseState]
      /\ activeLeases \in SUBSET Lease
      /\ queues \in [Pool -> Seq(QueueEntry)]
      /\ countActiveLeases(m) >= MaxConcurrent[m]
      /\ entry \in QueueEntry
  BY DEF AcquireQueued, IInv, TypeOK, QueueEntry
<1>2. NobodyIdles'
  <2>1. \A n \in Pool \ {m} : queues'[n] = queues[n]
    BY <1>1
  <2>2. \A n \in Pool : countActiveLeases(n)' = countActiveLeases(n)
    BY <1>1 DEF countActiveLeases, LeasesOn
  <2>. QED  BY <1>1, <2>1, <2>2 DEF NobodyIdles
<1>3. \A n \in Pool : /\ Len(queues[n]) \in Nat
                      /\ \A i \in 1..Len(queues[n]) :
                           queues[n][i].id \in Calls /\ queues[n][i].id # c
  BY <1>1, QueuedCalls DEF QueueEntry
<1>4. /\ Len(queues'[m]) = Len(queues[m]) + 1
      /\ \A i \in 1..Len(queues[m]) : queues'[m][i] = queues[m][i]
      /\ queues'[m][Len(queues[m]) + 1] = entry
  <2>1. queues'[m] = Append(queues[m], entry) /\ queues[m] \in Seq(QueueEntry)
    BY <1>1
  <2>. HIDE DEF entry
  <2>. QED  BY <1>1, <2>1, AppendProperties
<1>5. \A n \in Pool \ {m} : queues'[n] = queues[n]
  BY <1>1
<1>6. \A n \in Pool : \A i \in 1..Len(queues'[n]) :
        \/ i \in 1..Len(queues[n]) /\ queues'[n][i] = queues[n][i]
        \/ n = m /\ i = Len(queues[m]) + 1 /\ queues'[n][i].id = c
  BY <1>1, <1>3, <1>4, <1>5
<1>7. \A n \in Pool : \A i \in 1..Len(queues[n]) :
        i \in 1..Len(queues'[n]) /\ queues'[n][i] = queues[n][i]
  BY <1>1, <1>3, <1>4, <1>5
<1>8. ASSUME NEW k \in Pool, NEW n \in Pool,
             NEW i \in 1..Len(queues'[k]), NEW j \in 1..Len(queues'[n]),
             queues'[k][i].id = queues'[n][j].id
      PROVE  k = n /\ i = j
  <2>1. CASE i \in 1..Len(queues[k]) /\ queues'[k][i] = queues[k][i]
    <3>1. queues'[n][j].id # c
      BY <1>3, <1>8, <2>1
    <3>2. j \in 1..Len(queues[n]) /\ queues'[n][j] = queues[n][j]
      BY <1>6, <3>1
    <3>3. queues[k][i].id = queues[n][j].id
      BY <1>8, <2>1, <3>2
    <3>. QED  BY <2>1, <3>2, <3>3 DEF PromisesAgree
  <2>2. CASE k = m /\ i = Len(queues[m]) + 1 /\ queues'[k][i].id = c
    <3>1. ~ (j \in 1..Len(queues[n]) /\ queues'[n][j] = queues[n][j])
      BY <1>3, <1>8, <2>2
    <3>. QED  BY <1>6, <2>2, <3>1
  <2>. QED  BY <1>6, <2>1, <2>2
<1>9. ASSUME NEW d \in Calls
      PROVE  promise'[d] = "pending" <=>
               \E n \in Pool : \E e \in Waiting(n)' : e.id = d
  <2>1. CASE d = c
    <3>1. Len(queues[m]) + 1 \in 1..Len(queues'[m])
            /\ queues'[m][Len(queues[m]) + 1].id = c
      BY <1>1, <1>3, <1>4
    <3>2. queues'[m][Len(queues[m]) + 1] \in Waiting(m)'
      BY <3>1 DEF Waiting
    <3>. QED  BY <1>1, <2>1, <3>1, <3>2
  <2>2. CASE d # c
    <3>1. promise'[d] = "pending" <=>
            \E n \in Pool : \E i \in 1..Len(queues[n]) : queues[n][i].id = d
      BY <1>1, <2>2 DEF PromisesAgree, Waiting
    <3>2. (\E n \in Pool : \E i \in 1..Len(queues[n]) : queues[n][i].id = d) <=>
            \E n \in Pool : \E i \in 1..Len(queues'[n]) : queues'[n][i].id = d
      BY <1>6, <1>7, <2>2
    <3>. QED  BY <3>1, <3>2 DEF Waiting
  <2>. QED  BY <2>1, <2>2
<1>10. \A l \in activeLeases : l.id \in Calls /\ l.id # c
  BY <1>1 DEF PromisesAgree, Lease
<1>11. \A l \in activeLeases' : promise'[l.id] = "granted"
  BY <1>1, <1>10 DEF PromisesAgree
<1>12. \A k, l \in activeLeases' : k.id = l.id => k = l
  BY <1>1 DEF PromisesAgree
<1>. QED  BY <1>2, <1>8, <1>9, <1>11, <1>12 DEF PromisesAgree

(* Every call of the scheduler preserves what the order rests on.          *)
LEMMA NextPreservesOrder ==
  ASSUME Orderly, [Next]_vars
  PROVE  Orderly'
<1>. USE DEF Orderly
<1>1. IInv'
  BY NextPreservesIInv
<1>2. ASSUME NEW c \in Calls, NEW t \in TaskIds, NEW m \in Models, AcquireFree(c, t, m)
      PROVE  Orderly'
  BY <1>1, <1>2, FreeKeepsOrder
<1>3. ASSUME NEW c \in Calls, NEW t \in TaskIds, NEW m \in Models, AcquireQueued(c, t, m)
      PROVE  Orderly'
  BY <1>1, <1>3, QueuedKeepsOrder
<1>4. ASSUME NEW c \in Calls, NEW m \in Models, AcquireUnknown(c, m)
      PROVE  Orderly'
  <2>1. /\ promise[c] = "unmade" /\ queues' = queues /\ activeLeases' = activeLeases
        /\ promise' = [promise EXCEPT ![c] = "rejected"]
        /\ promise \in [Calls -> PromiseState]
        /\ activeLeases \in SUBSET Lease
    BY <1>4 DEF AcquireUnknown, IInv, TypeOK
  <2>2. NobodyIdles'
    BY <2>1 DEF NobodyIdles, countActiveLeases, LeasesOn
  <2>3. \A d \in Calls : promise'[d] = "pending" <=> promise[d] = "pending"
    BY <2>1
  <2>4. \A l \in activeLeases : l.id \in Calls /\ l.id # c
    BY <2>1 DEF PromisesAgree, Lease
  <2>5. \A l \in activeLeases' : promise'[l.id] = "granted"
    BY <2>1, <2>4 DEF PromisesAgree
  <2>. QED  BY <1>1, <2>1, <2>2, <2>3, <2>5 DEF PromisesAgree, Waiting
<1>5. ASSUME NEW gone, NEW refused, Turnover(gone, refused)
      PROVE  Orderly'
  BY <1>1, <1>5, TurnoverKeepsPromises, TurnoverLeavesNobodyIdle
<1>6. ASSUME NEW c \in Calls, ReleaseLease(c)
      PROVE  Orderly'
  BY <1>5, <1>6, ReleaseTurnsOver
<1>7. ASSUME NEW t \in TaskIds, ReleaseByTaskId(t)
      PROVE  Orderly'
  BY <1>5, <1>7, CancelTurnsOver
<1>8. CASE UNCHANGED vars
  BY <1>1, <1>8 DEF vars, PromisesAgree, NobodyIdles, countActiveLeases, LeasesOn, Waiting
<1>. QED  BY <1>2, <1>3, <1>4, <1>6, <1>7, <1>8 DEF Next, AcquireLease

(* So that always holds.                                                   *)
LEMMA OrderlyHolds == Spec => []Orderly
<1>1. Init => Orderly
  <2>. SUFFICES ASSUME Init
                PROVE  PromisesAgree /\ NobodyIdles
    BY InitEstablishesIInv DEF Orderly
  <2>1. \A m \in Pool : queues[m] = <<>> /\ Len(queues[m]) = 0 /\ 1..Len(queues[m]) = {}
    BY DEF Init
  <2>. QED  BY <2>1 DEF Init, PromisesAgree, NobodyIdles, Waiting
<1>. QED  BY <1>1, NextPreservesOrder, PTL DEF Spec

(* The promise of every call tells where the call is, at any time: a       *)
(* pending call is in exactly one place of one queue, a granted or         *)
(* rejected one in none, and no two leases are of one call (acquireLease,  *)
(* drainQueue, releaseByTaskId).                                           *)
THEOREM PromisesHold == Spec => []PromisesAgree
<1>1. Orderly => PromisesAgree
  BY DEF Orderly
<1>. QED  BY <1>1, OrderlyHolds, PTL

-----------------------------------------------------------------------------
(* What FirstComeFirstServed asks of a step.                               *)
InTurn ==
  \A m \in Pool :
    \A w \in {e.id : e \in Waiting(m)} \cap {e.id : e \in Waiting(m)'} :
      Ahead(queues'[m], w) \cup GrantedNow(m) \subseteq Ahead(queues[m], w)

(* Whoever is at an earlier place than an entry of the call is ahead of it.*)
LEMMA EarlierIsAhead ==
  ASSUME NEW q, Len(q) \in Nat, NEW c, NEW i \in 1..Len(q), NEW j \in 1..Len(q),
         q[i].id = c, j < i
  PROVE  q[j].id \in Ahead(q, c)
<1>1. j \in {k \in 1..Len(q) : \E a \in k + 1..Len(q) : q[a].id = c}
  <2>1. i \in j + 1..Len(q)
    OBVIOUS
  <2>. QED  BY <2>1
<1>. QED  BY <1>1 DEF Ahead

(* A turnover serves the heads of the queues, who are ahead of those who   *)
(* stay, and puts nobody ahead of anybody.                                 *)
LEMMA TurnoverInTurn ==
  ASSUME Orderly, NEW gone, NEW refused, Turnover(gone, refused), IInv'
  PROVE  InTurn
<1>. USE DEF Orderly
<1>. SUFFICES ASSUME NEW m \in Pool, NEW k \in 1..Len(queues'[m])
              PROVE  Ahead(queues'[m], queues'[m][k].id) \cup GrantedNow(m)
                       \subseteq Ahead(queues[m], queues'[m][k].id)
  BY DEF InTurn, Waiting
<1>1. Len(queues[m]) \in Nat /\ drained(gone, m) \in 0..Len(queues[m])
  BY TurnoverEntries, QueuedCalls
<1>2. Len(queues'[m]) \in Nat
  <2>1. queues'[m] \in Seq(QueueEntry)
    BY DEF IInv, TypeOK
  <2>. QED  BY <2>1
<1>3. PICK p : Picks(queues[m], queues'[m], drained(gone, m), p)
  BY TurnoverEntries
<1>4. \A i \in 1..Len(queues'[m]) :
        p[i] \in (drained(gone, m) + 1)..Len(queues[m]) /\ queues'[m][i] = queues[m][p[i]]
  BY <1>3 DEF Picks
<1>5. \A i \in 1..Len(queues'[m]) : p[i] \in 1..Len(queues[m])
  BY <1>1, <1>4
<1>6. PICK w : w = queues'[m][k].id
  OBVIOUS
<1>7. ASSUME NEW x \in Ahead(queues'[m], w)
      PROVE  x \in Ahead(queues[m], w)
  <2>1. PICK j \in 1..Len(queues'[m]) :
          x = queues'[m][j].id /\ \E i \in j + 1..Len(queues'[m]) : queues'[m][i].id = w
    BY DEF Ahead
  <2>2. PICK i \in j + 1..Len(queues'[m]) : queues'[m][i].id = w
    BY <2>1
  <2>3. i \in 1..Len(queues'[m]) /\ j < i
    BY <1>2
  <2>4. PICK a \in 1..Len(queues[m]) : a = p[j] /\ queues'[m][j] = queues[m][a]
    BY <1>4, <1>5
  <2>5. PICK b \in 1..Len(queues[m]) : b = p[i] /\ queues'[m][i] = queues[m][b]
    BY <1>4, <1>5, <2>3
  <2>6. a < b
    BY <1>3, <2>3, <2>4, <2>5 DEF Picks
  <2>. QED  BY <1>1, <2>1, <2>2, <2>4, <2>5, <2>6, EarlierIsAhead
<1>8. ASSUME NEW x \in GrantedNow(m)
      PROVE  x \in Ahead(queues[m], w)
  <2>1. PICK l \in activeLeases' \ activeLeases : l.model = m /\ x = l.id
    BY DEF GrantedNow
  <2>2. PICK n \in Pool : \E i \in 1..drained(gone, n) : l = LeaseFor(queues[n][i], n)
    BY LeaseAfterTurnover
  <2>3. PICK i \in 1..drained(gone, n) : l = LeaseFor(queues[n][i], n)
    BY <2>2
  <2>4. n = m /\ x = queues[m][i].id
    BY <2>1, <2>3 DEF LeaseFor
  <2>5. PICK b \in (drained(gone, m) + 1)..Len(queues[m]) : queues[m][b].id = w
    BY <1>4, <1>6
  <2>6. i \in 1..Len(queues[m]) /\ b \in 1..Len(queues[m]) /\ i < b
    BY <1>1, <2>4
  <2>. QED  BY <1>1, <2>4, <2>5, <2>6, EarlierIsAhead
<1>. QED  BY <1>6, <1>7, <1>8

(* No other step grants a model somebody waits for, and a newcomer goes to *)
(* the end.                                                                *)
LEMMA AcquireInTurn ==
  ASSUME Orderly, NEW c \in Calls, NEW t \in TaskIds, NEW m \in Models,
         AcquireLease(c, t, m)
  PROVE  InTurn
<1>. USE DEF Orderly
<1>. SUFFICES ASSUME NEW n \in Pool, NEW w \in {e.id : e \in Waiting(n)}
              PROVE  Ahead(queues'[n], w) \cup GrantedNow(n) \subseteq Ahead(queues[n], w)
  BY DEF InTurn
<1>1. CASE AcquireFree(c, t, m)
  <2>1. m \in Pool /\ queues[m] = <<>> /\ Len(queues[m]) = 0
    BY <1>1, FreeMeansNoQueue DEF AcquireFree
  <2>2. n # m
    BY <2>1 DEF Waiting
  <2>3. GrantedNow(n) = {}
    BY <1>1, <2>2 DEF AcquireFree, GrantedNow
  <2>. QED  BY <1>1, <2>3 DEF AcquireFree
<1>2. CASE AcquireQueued(c, t, m)
  <2>. DEFINE entry == [id |-> c, taskId |-> t]
  <2>1. /\ m \in Pool /\ promise[c] = "unmade" /\ activeLeases' = activeLeases
        /\ queues' = [queues EXCEPT ![m] = Append(queues[m], entry)]
        /\ queues \in [Pool -> Seq(QueueEntry)] /\ entry \in QueueEntry
    BY <1>2 DEF AcquireQueued, IInv, TypeOK, QueueEntry
  <2>2. GrantedNow(n) = {}
    BY <2>1 DEF GrantedNow
  <2>3. CASE n # m
    BY <2>1, <2>2, <2>3
  <2>4. CASE n = m
    <3>1. /\ Len(queues'[m]) = Len(queues[m]) + 1
          /\ \A i \in 1..Len(queues[m]) : queues'[m][i] = queues[m][i]
          /\ queues'[m][Len(queues[m]) + 1] = entry
          /\ Len(queues[m]) \in Nat
      <4>1. queues'[m] = Append(queues[m], entry) /\ queues[m] \in Seq(QueueEntry)
        BY <2>1
      <4>. HIDE DEF entry
      <4>. QED  BY <2>1, <4>1, AppendProperties, LenProperties
    <3>2. w # c
      <4>1. PICK i \in 1..Len(queues[m]) : w = queues[m][i].id
        BY <2>4 DEF Waiting
      <4>. QED  BY <2>1, <4>1, QueuedCalls
    <3>3. ASSUME NEW x \in Ahead(queues'[m], w)
          PROVE  x \in Ahead(queues[m], w)
      <4>1. PICK j \in 1..Len(queues'[m]) :
              x = queues'[m][j].id /\ \E i \in j + 1..Len(queues'[m]) : queues'[m][i].id = w
        BY DEF Ahead
      <4>2. PICK i \in j + 1..Len(queues'[m]) : queues'[m][i].id = w
        BY <4>1
      <4>3. i # Len(queues[m]) + 1
        BY <3>1, <3>2, <4>2
      <4>4. i \in 1..Len(queues[m]) /\ j \in 1..Len(queues[m]) /\ j < i
        BY <3>1, <4>3
      <4>5. queues[m][i].id = w /\ queues[m][j].id = x
        BY <3>1, <4>1, <4>2, <4>4
      <4>. QED  BY <3>1, <4>4, <4>5, EarlierIsAhead
    <3>. QED  BY <2>2, <2>4, <3>3
  <2>. QED  BY <2>3, <2>4
<1>3. CASE AcquireUnknown(c, m)
  <2>1. GrantedNow(n) = {} /\ queues' = queues
    BY <1>3 DEF AcquireUnknown, GrantedNow
  <2>. QED  BY <2>1
<1>. QED  BY <1>1, <1>2, <1>3 DEF AcquireLease

(* Waiters of a model are served in the order in which they asked, whatever*)
(* leases are released or cancelled meanwhile: drainQueue() takes the head,*)
(* acquireLease() appends, and releaseByTaskId() keeps the order of the    *)
(* others.                                                                 *)
THEOREM OrderHolds == Spec => FirstComeFirstServed
<1>1. ASSUME Orderly, [Next]_vars
      PROVE  [InTurn]_vars
  <2>1. IInv'
    BY <1>1, NextPreservesIInv DEF Orderly
  <2>2. ASSUME NEW c \in Calls, ReleaseLease(c)
        PROVE  InTurn
    BY <1>1, <2>1, <2>2, ReleaseTurnsOver, TurnoverInTurn DEF Orderly
  <2>3. ASSUME NEW t \in TaskIds, ReleaseByTaskId(t)
        PROVE  InTurn
    BY <1>1, <2>1, <2>3, CancelTurnsOver, TurnoverInTurn DEF Orderly
  <2>. QED  BY <1>1, <2>2, <2>3, AcquireInTurn DEF Next
<1>2. [InTurn]_vars <=>
        [\A m \in Pool :
           \A w \in {e.id : e \in Waiting(m)} \cap {e.id : e \in Waiting(m)'} :
             Ahead(queues'[m], w) \cup GrantedNow(m) \subseteq Ahead(queues[m], w)]_vars
  BY DEF InTurn
<1>. QED  BY <1>1, <1>2, OrderlyHolds, PTL DEF Spec, FirstComeFirstServed

-----------------------------------------------------------------------------
(* The instance of LeaseService counts with an operator of its own.        *)
LEMMA SameCardinality == \A S : Service!Cardinality(S) = Cardinality(S)
BY DEF Cardinality, Service!Cardinality

(* Leases of different calls are as many as the calls.                     *)
LEMMA AsManyHolders ==
  ASSUME NEW L, IsFiniteSet(L), \A k, l \in L : k.id = l.id => k = l
  PROVE  Cardinality({l.id : l \in L}) = Cardinality(L)
<1>. DEFINE T == {l.id : l \in L}
            f == [l \in L |-> l.id]
<1>1. f \in [L -> T] /\ \A x \in T : \E l \in L : f[l] = x
  OBVIOUS
<1>2. \A k, l \in L : f[k] = f[l] => k = l
  OBVIOUS
<1>. HIDE DEF T, f
<1>3. f \in Bijection(L, T)
  BY <1>1, <1>2 DEF Bijection, Injection, Surjection, IsInjective
<1>4. ExistsBijection(L, T)
  BY <1>3 DEF ExistsBijection
<1>5. Cardinality(T) = Cardinality(L)
  BY <1>4, FS_Bijection
<1>. QED  BY <1>5 DEF T

(* The variables of LeaseService, as this module has them.                 *)
Unmade == {c \in Calls : promise[c] = "unmade"}
Waiters == [m \in Pool |-> {e.id : e \in Waiting(m)}]
Holders == [m \in Pool |-> {l.id : l \in LeasesOn(m)}]

(* Where the scheduler is orderly, its slots are used as promised.         *)
LEMMA OrderlyServes ==
  Orderly => Service!Within(Holders) /\ Service!NobodyWaitsInVain(Holders, Waiters)
<1>. SUFFICES ASSUME Orderly
              PROVE  Service!Within(Holders) /\ Service!NobodyWaitsInVain(Holders, Waiters)
  OBVIOUS
<1>. USE DEF Orderly
<1>1. ASSUME NEW m \in Pool
      PROVE  Service!Cardinality(Holders[m]) = countActiveLeases(m)
  <2>1. IsFiniteSet(LeasesOn(m)) /\ \A k, l \in LeasesOn(m) : k.id = l.id => k = l
    BY DEF IInv, LeasesFinite, LeasesOn, PromisesAgree
  <2>2. Holders[m] = {l.id : l \in LeasesOn(m)}
    BY DEF Holders
  <2>. QED  BY <2>1, <2>2, AsManyHolders, SameCardinality DEF countActiveLeases
<1>2. ASSUME NEW m \in Pool, Waiters[m] # {}
      PROVE  queues[m] # <<>>
  <2>1. 1..Len(queues[m]) # {}
    BY <1>2 DEF Waiters, Waiting
  <2>. QED  BY <2>1
<1>. QED  BY <1>1, <1>2
          DEF Service!Within, Service!NobodyWaitsInVain, IInv, WithinCapacity, NobodyIdles

(* A call of acquireLease() is a call made of the service.                 *)
LEMMA AcquireAsks ==
  ASSUME Orderly, NEW c \in Calls, NEW t \in TaskIds, NEW m \in Models,
         AcquireLease(c, t, m)
  PROVE  /\ c \in Unmade /\ Unmade' = Unmade \ {c}
         /\ \/ \E n \in Pool :
                 \/ Holders' = [Holders EXCEPT ![n] = @ \cup {c}] /\ Waiters' = Waiters
                 \/ Waiters' = [Waiters EXCEPT ![n] = @ \cup {c}] /\ Holders' = Holders
            \/ Waiters' = Waiters /\ Holders' = Holders
<1>. USE DEF Orderly
<1>0. promise \in [Calls -> PromiseState]
  BY DEF IInv, TypeOK
<1>1. CASE AcquireFree(c, t, m)
  <2>. DEFINE lease == [id |-> c, taskId |-> t, model |-> m]
  <2>1. /\ m \in Pool /\ promise[c] = "unmade" /\ queues' = queues
        /\ activeLeases' = activeLeases \cup {lease}
        /\ promise' = [promise EXCEPT ![c] = "granted"]
    BY <1>1 DEF AcquireFree
  <2>2. c \in Unmade /\ Unmade' = Unmade \ {c}
    BY <1>0, <2>1 DEF Unmade
  <2>3. Waiters' = Waiters
    BY <2>1 DEF Waiters, Waiting
  <2>4. LeasesOn(m)' = LeasesOn(m) \cup {lease} /\ \A n \in Pool \ {m} : LeasesOn(n)' = LeasesOn(n)
    BY <2>1 DEF LeasesOn
  <2>5. Holders'[m] = Holders[m] \cup {c} /\ \A n \in Pool \ {m} : Holders'[n] = Holders[n]
    <3>1. lease.id = c
      OBVIOUS
    <3>2. /\ \A n \in Pool : Holders'[n] = {l.id : l \in LeasesOn(n)'}
          /\ \A n \in Pool : Holders[n] = {l.id : l \in LeasesOn(n)}
      BY DEF Holders
    <3>. HIDE DEF lease
    <3>3. {l.id : l \in LeasesOn(m) \cup {lease}} = {l.id : l \in LeasesOn(m)} \cup {lease.id}
      OBVIOUS
    <3>. QED  BY <2>1, <2>4, <3>1, <3>2, <3>3
  <2>6. Holders' = [Holders EXCEPT ![m] = @ \cup {c}]
    BY <2>5 DEF Holders
  <2>. QED  BY <2>1, <2>2, <2>3, <2>6
<1>2. CASE AcquireQueued(c, t, m)
  <2>. DEFINE entry == [id |-> c, taskId |-> t]
  <2>1. /\ m \in Pool /\ promise[c] = "unmade" /\ activeLeases' = activeLeases
        /\ queues' = [queues EXCEPT ![m] = Append(queues[m], entry)]
        /\ queues \in [Pool -> Seq(QueueEntry)] /\ entry \in QueueEntry
        /\ promise' = [promise EXCEPT ![c] = "pending"]
    BY <1>2 DEF AcquireQueued, IInv, TypeOK, QueueEntry
  <2>2. c \in Unmade /\ Unmade' = Unmade \ {c}
    BY <1>0, <2>1 DEF Unmade
  <2>3. Holders' = Holders
    BY <2>1 DEF Holders, LeasesOn
  <2>4. Waiters'[m] = Waiters[m] \cup {c}
    <3>1. /\ Len(queues'[m]) = Len(queues[m]) + 1
          /\ \A i \in 1..Len(queues[m]) : queues'[m][i] = queues[m][i]
          /\ queues'[m][Len(queues[m]) + 1] = entry
          /\ Len(queues[m]) \in Nat
      <4>1. queues'[m] = Append(queues[m], entry) /\ queues[m] \in Seq(QueueEntry)
        BY <2>1
      <4>. HIDE DEF entry
      <4>. QED  BY <2>1, <4>1, AppendProperties, LenProperties
    <3>2. Waiting(m)' = Waiting(m) \cup {entry}
      <4>1. 1..Len(queues'[m]) = (1..Len(queues[m])) \cup {Len(queues[m]) + 1}
        BY <3>1
      <4>2. Waiting(m)' = {queues'[m][i] : i \in 1..Len(queues'[m])}
        BY DEF Waiting
      <4>. HIDE DEF entry
      <4>3. {queues'[m][i] : i \in (1..Len(queues[m])) \cup {Len(queues[m]) + 1}}
              = {queues'[m][i] : i \in 1..Len(queues[m])} \cup {entry}
        BY <3>1
      <4>4. {queues'[m][i] : i \in 1..Len(queues[m])} = Waiting(m)
        BY <3>1 DEF Waiting
      <4>. QED  BY <4>1, <4>2, <4>3, <4>4
    <3>. QED  BY <2>1, <3>2 DEF Waiters
  <2>5. \A n \in Pool \ {m} : Waiters'[n] = Waiters[n]
    BY <2>1 DEF Waiters, Waiting
  <2>6. Waiters' = [Waiters EXCEPT ![m] = @ \cup {c}]
    BY <2>4, <2>5 DEF Waiters
  <2>. QED  BY <2>1, <2>2, <2>3, <2>6
<1>3. CASE AcquireUnknown(c, m)
  <2>1. /\ promise[c] = "unmade" /\ queues' = queues /\ activeLeases' = activeLeases
        /\ promise' = [promise EXCEPT ![c] = "rejected"]
    BY <1>3 DEF AcquireUnknown
  <2>. QED  BY <1>0, <2>1 DEF Unmade, Waiters, Waiting, Holders, LeasesOn
<1>. QED  BY <1>1, <1>2, <1>3 DEF AcquireLease

(* What releaseLease() and releaseByTaskId() do is one turnover of the     *)
(* service.                                                                *)
LEMMA TurnoverServes ==
  ASSUME Orderly, Orderly', NEW gone, NEW refused, Turnover(gone, refused)
  PROVE  \E left, served, denied \in SUBSET Calls : Service!Turnover(left, served, denied)
<1>. USE DEF Orderly
<1>. DEFINE left == {l.id : l \in gone}
            served == {c \in Calls : \E m \in Pool :
                         \E i \in 1..drained(gone, m) : queues[m][i].id = c}
            denied == {c \in Calls : c \in refused}
<1>1. ASSUME NEW m \in Pool
      PROVE  /\ drained(gone, m) \in 0..Len(queues[m])
             /\ Len(queues[m]) \in Nat
             /\ \A i \in 1..Len(queues[m]) :
                  queues[m][i].id \in Calls /\ promise[queues[m][i].id] = "pending"
             /\ \A i \in 1..drained(gone, m) :
                  LeaseFor(queues[m][i], m) \in activeLeases'
             /\ \A i \in (drained(gone, m) + 1)..Len(queues[m]) :
                  promise'[queues[m][i].id] =
                    IF queues[m][i].id \in refused THEN "rejected" ELSE "pending"
             /\ \E p :
                  /\ Picks(queues[m], queues'[m], drained(gone, m), p)
                  /\ \A i \in (drained(gone, m) + 1)..Len(queues[m]) :
                       queues[m][i].id \in refused <=> ~ Kept(p, i)
  <2>1. /\ Len(queues[m]) \in Nat
        /\ \A i \in 1..Len(queues[m]) :
             queues[m][i].id \in Calls /\ promise[queues[m][i].id] = "pending"
    BY QueuedCalls DEF QueueEntry
  <2>. QED  BY <2>1, TurnoverEntries
<1>2. \A m, n \in Pool : \A i \in 1..Len(queues[m]), j \in 1..Len(queues[n]) :
        queues[m][i].id = queues[n][j].id => m = n /\ i = j
  BY DEF PromisesAgree
<1>3. gone \in SUBSET activeLeases /\ activeLeases \in SUBSET Lease
  BY DEF Turnover, IInv, TypeOK
<1>4. left \in SUBSET Calls /\ served \in SUBSET Calls /\ denied \in SUBSET Calls
  BY <1>3 DEF Lease
<1>5. ASSUME NEW c \in Calls, c \in denied
      PROVE  promise[c] = "pending" /\ c \notin served
  <2>1. PICK m \in Pool : \E i \in (drained(gone, m) + 1)..Len(queues[m]) : queues[m][i].id = c
    BY <1>5 DEF Turnover
  <2>2. PICK i \in (drained(gone, m) + 1)..Len(queues[m]) : queues[m][i].id = c
    BY <2>1
  <2>3. i \in 1..Len(queues[m])
    BY <1>1
  <2>4. ASSUME NEW n \in Pool, NEW j \in 1..drained(gone, n), queues[n][j].id = c
        PROVE  FALSE
    <3>1. j \in 1..Len(queues[n])
      BY <1>1
    <3>2. m = n /\ i = j
      BY <1>2, <2>2, <2>3, <2>4, <3>1
    <3>. QED  BY <1>1, <3>2
  <2>. QED  BY <1>1, <2>2, <2>3, <2>4
<1>6. ASSUME NEW c \in Calls, c \in served
      PROVE  promise[c] = "pending" /\ promise'[c] = "granted"
  <2>1. PICK m \in Pool : \E i \in 1..drained(gone, m) : queues[m][i].id = c
    BY <1>6
  <2>2. PICK i \in 1..drained(gone, m) : queues[m][i].id = c
    BY <2>1
  <2>3. i \in 1..Len(queues[m])
    BY <1>1
  <2>. QED  BY <1>1, <2>1, <2>2, <2>3 DEF Turnover
<1>7. served \cap denied = {}
  BY <1>5
<1>8. Unmade' = Unmade
  <2>1. \A c \in Calls : promise'[c] = "unmade" <=> promise[c] = "unmade"
    <3>. TAKE c \in Calls
    <3>1. CASE c \in served
      BY <1>6, <3>1
    <3>2. CASE c \in denied
      BY <1>5, <3>2 DEF Turnover
    <3>3. CASE c \notin served /\ c \notin denied
      BY <3>3 DEF Turnover
    <3>. QED  BY <3>1, <3>2, <3>3
  <2>. QED  BY <2>1 DEF Unmade
<1>9. ASSUME NEW m \in Pool
      PROVE  Holders'[m] = (Holders[m] \ left) \cup (served \cap Waiters[m])
  <2>1. ASSUME NEW x \in Holders'[m]
        PROVE  x \in (Holders[m] \ left) \cup (served \cap Waiters[m])
    <3>1. PICK l \in activeLeases' : l.model = m /\ l.id = x
      BY DEF Holders, LeasesOn
    <3>2. CASE l \in activeLeases \ gone
      <4>1. x \notin left
        BY <1>3, <3>1, <3>2 DEF PromisesAgree
      <4>. QED  BY <3>1, <3>2, <4>1 DEF Holders, LeasesOn
    <3>3. ASSUME NEW n \in Pool, NEW i \in 1..drained(gone, n), l = LeaseFor(queues[n][i], n)
          PROVE  x \in served \cap Waiters[m]
      <4>1. n = m /\ queues[m][i].id = x
        BY <3>1, <3>3 DEF LeaseFor
      <4>2. i \in 1..Len(queues[m])
        BY <1>1, <4>1
      <4>3. x \in Calls /\ x \in served
        BY <1>1, <4>1, <4>2
      <4>. QED  BY <4>1, <4>2, <4>3 DEF Waiters, Waiting
    <3>. QED  BY <3>2, <3>3, LeaseAfterTurnover
  <2>2. ASSUME NEW x \in Holders[m], x \notin left
        PROVE  x \in Holders'[m]
    <3>1. PICK l \in activeLeases : l.model = m /\ l.id = x
      BY DEF Holders, LeasesOn
    <3>2. l \in activeLeases'
      BY <2>2, <3>1 DEF Turnover, LeasesAfter
    <3>. QED  BY <3>1, <3>2 DEF Holders, LeasesOn
  <2>3. ASSUME NEW x \in served, x \in Waiters[m]
        PROVE  x \in Holders'[m]
    <3>1. PICK n \in Pool : \E i \in 1..drained(gone, n) : queues[n][i].id = x
      OBVIOUS
    <3>2. PICK i \in 1..drained(gone, n) : queues[n][i].id = x
      BY <3>1
    <3>3. PICK j \in 1..Len(queues[m]) : queues[m][j].id = x
      BY <2>3 DEF Waiters, Waiting
    <3>4. i \in 1..Len(queues[n])
      BY <1>1
    <3>5. n = m
      BY <1>2, <3>2, <3>3, <3>4
    <3>6. LeaseFor(queues[m][i], m) \in activeLeases'
      BY <1>1, <3>5
    <3>. QED  BY <3>2, <3>5, <3>6 DEF Holders, LeasesOn, LeaseFor
  <2>. QED  BY <2>1, <2>2, <2>3
<1>10. ASSUME NEW m \in Pool
       PROVE  Waiters'[m] = Waiters[m] \ (served \cup denied)
  <2>1. PICK p : /\ Picks(queues[m], queues'[m], drained(gone, m), p)
                 /\ \A i \in (drained(gone, m) + 1)..Len(queues[m]) :
                      queues[m][i].id \in refused <=> ~ Kept(p, i)
    BY <1>1
  <2>2. ASSUME NEW x \in Waiters'[m]
        PROVE  x \in Waiters[m] \ (served \cup denied)
    <3>1. PICK k \in 1..Len(queues'[m]) : x = queues'[m][k].id
      BY DEF Waiters, Waiting
    <3>2. PICK i \in (drained(gone, m) + 1)..Len(queues[m]) :
            i = p[k] /\ queues'[m][k] = queues[m][i]
      BY <2>1 DEF Picks
    <3>3. i \in 1..Len(queues[m]) /\ queues[m][i].id = x
      BY <1>1, <3>1, <3>2
    <3>4. x \notin denied
      BY <2>1, <3>2, <3>3 DEF Kept, Picks
    <3>5. x \in Calls /\ promise'[x] = "pending"
      BY <1>1, <2>1, <3>2, <3>3 DEF Kept, Picks
    <3>. QED  BY <1>6, <3>3, <3>4, <3>5 DEF Waiters, Waiting
  <2>3. ASSUME NEW x \in Waiters[m], x \notin served, x \notin denied
        PROVE  x \in Waiters'[m]
    <3>1. PICK i \in 1..Len(queues[m]) : queues[m][i].id = x
      BY DEF Waiters, Waiting
    <3>2. x \in Calls
      BY <1>1, <3>1
    <3>3. i \in (drained(gone, m) + 1)..Len(queues[m])
      BY <1>1, <2>3, <3>1, <3>2
    <3>4. Kept(p, i)
      BY <2>1, <2>3, <3>1, <3>2, <3>3
    <3>5. PICK k \in 1..Len(queues'[m]) : p[k] = i
      BY <2>1, <3>4 DEF Kept, Picks
    <3>6. queues'[m][k].id = x
      BY <2>1, <3>1, <3>5 DEF Picks
    <3>. QED  BY <3>6 DEF Waiters, Waiting
  <2>. QED  BY <2>2, <2>3
<1>11. Service!Turnover(left, served, denied)
  <2>1. Holders' = [m \in Pool |-> (Holders[m] \ left) \cup (served \cap Waiters[m])]
    <3>. HIDE DEF left, served
    <3>. QED  BY <1>9 DEF Holders
  <2>2. Waiters' = [m \in Pool |-> Waiters[m] \ (served \cup denied)]
    <3>. HIDE DEF denied, served
    <3>. QED  BY <1>10 DEF Waiters
  <2>. HIDE DEF left, served, denied
  <2>. QED  BY <1>7, <1>8, <2>1, <2>2
            DEF Service!Turnover, Unmade, Holders, Waiters
<1>. HIDE DEF left, served, denied
<1>. QED  BY <1>4, <1>11

(* Every step of the scheduler is a step of the service or changes nothing *)
(* the service speaks of.                                                  *)
LEMMA ServiceStep ==
  ASSUME Orderly, Orderly', [Next]_vars,
         Service!Within(Holders'), Service!NobodyWaitsInVain(Holders', Waiters')
  PROVE  [Service!Next]_(Service!vars)
<1>1. ASSUME NEW c \in Calls, NEW t \in TaskIds, NEW m \in Models, AcquireLease(c, t, m)
      PROVE  Service!Next
  <2>1. Service!Ask(c)
    BY <1>1, AcquireAsks DEF Service!Ask, Unmade, Holders, Waiters
  <2>. QED  BY <2>1 DEF Service!Next, Holders, Waiters
<1>2. ASSUME NEW gone, NEW refused, Turnover(gone, refused)
      PROVE  Service!Next
  <2>1. \E left, served, denied \in SUBSET Calls : Service!Turnover(left, served, denied)
    BY <1>2, TurnoverServes
  <2>. QED  BY <2>1 DEF Service!Next, Holders, Waiters
<1>3. ASSUME NEW c \in Calls, ReleaseLease(c)
      PROVE  Service!Next
  BY <1>2, <1>3, ReleaseTurnsOver DEF Orderly
<1>4. ASSUME NEW t \in TaskIds, ReleaseByTaskId(t)
      PROVE  Service!Next
  BY <1>2, <1>4, CancelTurnsOver DEF Orderly
<1>5. CASE UNCHANGED vars
  BY <1>5 DEF vars, Service!vars, Waiting, LeasesOn
<1>. QED  BY <1>1, <1>3, <1>4, <1>5 DEF Next

(* The scheduler implements LeaseService: whatever releaseLease() and      *)
(* releaseByTaskId() do to leases and queues, seen from outside slots are  *)
(* neither exceeded nor left idle while somebody waits, and no call is in  *)
(* two places.                                                             *)
THEOREM ServiceImplemented == Spec => ImplementsLeaseService
<1>1. Init => Service!Init
  <2>. SUFFICES ASSUME Init
                PROVE  Service!Init
    OBVIOUS
  <2>1. {c \in Calls : promise[c] = "unmade"} = Calls
    BY DEF Init
  <2>2. \A m \in Pool : {e.id : e \in Waiting(m)} = {} /\ {l.id : l \in LeasesOn(m)} = {}
    <3>1. \A m \in Pool : queues[m] = <<>> /\ 1..Len(queues[m]) = {} /\ LeasesOn(m) = {}
      BY DEF Init, LeasesOn
    <3>. QED  BY <3>1 DEF Waiting
  <2>. QED  BY <2>1, <2>2 DEF Service!Init
<1>2. Orderly' => Service!Within(Holders') /\ Service!NobodyWaitsInVain(Holders', Waiters')
  <2>1. (Orderly => Service!Within(Holders) /\ Service!NobodyWaitsInVain(Holders, Waiters))'
    BY OrderlyServes, PTL
  <2>. QED  BY <2>1
<1>3. Orderly /\ Orderly' /\ [Next]_vars => [Service!Next]_(Service!vars)
  BY <1>2, ServiceStep
<1>. QED  BY <1>1, <1>3, OrderlyHolds, PTL
          DEF Spec, ImplementsLeaseService, Service!Spec
=============================================================================
