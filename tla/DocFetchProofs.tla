--------------------------- MODULE DocFetchProofs ---------------------------
(***************************************************************************)
(* For any fetches, servers, sessions and budgets: requests only go to     *)
(* allowed hosts, what the trail tells was done, kept and charged, and     *)
(* what operators read from it - in order, compared, checked - is what     *)
(* happened.                                                               *)
(***************************************************************************)
EXTENDS DocFetch, TLAPS, FiniteSetTheorems, SequenceTheorems

(* Every non-empty set of natural numbers has a least member: the initial  *)
(* segments that end in it are finite sets, and these are well-founded.    *)
LEMMA LeastExists ==
  ASSUME NEW T \in SUBSET Nat, T # {}
  PROVE  \E n \in T : \A m \in T : n \leq m
<1> DEFINE Segments == {0..n : n \in T}
<1>1. IsWellFoundedOn(StrictSubsetOrdering(Nat), FiniteSubsetsOf(Nat))
  BY FS_StrictSubsetOrderingWellFounded
<1>2. Segments \subseteq FiniteSubsetsOf(Nat)
  <2>1. \A n \in T : IsFiniteSet(0..n) /\ 0..n \subseteq Nat
    BY FS_Interval
  <2> QED  BY <2>1 DEF FiniteSubsetsOf
<1>3. Segments # {}
  OBVIOUS
<1> HIDE DEF Segments
<1>4. PICK s \in Segments : \A r \in Segments : <<r, s>> \notin StrictSubsetOrdering(Nat)
  BY <1>1, <1>2, <1>3, WFMin
<1>5. PICK n \in T : s = 0..n
  BY <1>4 DEF Segments
<1>6. ASSUME NEW m \in T, m < n
      PROVE  FALSE
  <2>1. 0..m \in Segments /\ 0..m \subseteq 0..n /\ 0..m \subseteq Nat /\ 0..n \subseteq Nat
    BY <1>6 DEF Segments
  <2>2. n \in 0..n /\ n \notin 0..m
    BY <1>6
  <2>3. <<0..m, 0..n>> \in StrictSubsetOrdering(Nat)
    BY <2>1, <2>2 DEF StrictSubsetOrdering
  <2> QED  BY <1>4, <1>5, <2>1, <2>3
<1> QED  BY <1>6

(* A set of positions has a last one.                                      *)
LEMMA LastExists ==
  ASSUME NEW n \in Nat, NEW s \in SUBSET (1..n), s # {}
  PROVE  Max(s) \in s /\ \A y \in s : Max(s) >= y
<1> DEFINE Back == {n - x : x \in s}
<1>0. \A x \in s : x \in Nat /\ n - x \in Nat
  OBVIOUS
<1>1. Back \in SUBSET Nat /\ Back # {}
  BY <1>0
<1>2. PICK m \in Back : \A l \in Back : m \leq l
  <2> HIDE DEF Back
  <2> QED  BY <1>1, LeastExists
<1>3. PICK x \in s : m = n - x
  BY <1>2
<1>4. ASSUME NEW y \in s PROVE x >= y
  <2>1. n - y \in Back
    OBVIOUS
  <2>2. n - x \leq n - y
    BY <1>2, <1>3, <2>1
  <2> QED  BY <1>0, <2>2
<1> QED  BY <1>3, <1>4 DEF Max

-----------------------------------------------------------------------------
(* Rows that can be listed by a key.                                       *)
CanBeListed(S, key) ==
  /\ IsFiniteSet(S) /\ S \subseteq Nat
  /\ \A i \in S : key[i] \in Int

(* Rows come in a total order.                                             *)
LEMMA OrderIsTotal ==
  ASSUME NEW S, NEW key, CanBeListed(S, key)
  PROVE  /\ \A i \in S : ~ComesBefore(key, i, i)
         /\ \A i, j \in S : i # j => ComesBefore(key, i, j) \/ ComesBefore(key, j, i)
         /\ \A i, j, k \in S :
              ComesBefore(key, i, j) /\ ComesBefore(key, j, k) => ComesBefore(key, i, k)
  BY DEF CanBeListed, ComesBefore

(* A row that comes before another has a lower place.                      *)
LEMMA PlacesAscend ==
  ASSUME NEW S, NEW key, CanBeListed(S, key)
  PROVE  /\ Cardinality(S) \in Nat
         /\ \A i \in S : Place(S, key, i) \in 1..Cardinality(S)
         /\ \A i, j \in S : ComesBefore(key, i, j) => Place(S, key, i) < Place(S, key, j)
<1> DEFINE Ahead(i) == {j \in S : ComesBefore(key, j, i)}
<1>0. IsFiniteSet(S) /\ Cardinality(S) \in Nat
  BY FS_CardinalityType DEF CanBeListed
<1>1. \A i : IsFiniteSet(Ahead(i)) /\ Cardinality(Ahead(i)) \in Nat
  BY <1>0, FS_Subset, FS_CardinalityType
<1>2. \A i : Place(S, key, i) = Cardinality(Ahead(i)) + 1
  BY DEF Place
<1>3. ASSUME NEW i \in S
      PROVE  Place(S, key, i) \in 1..Cardinality(S)
  <2>1. Ahead(i) \subseteq S /\ Ahead(i) # S
    BY <1>3, OrderIsTotal
  <2>2. Cardinality(Ahead(i)) < Cardinality(S)
    <3> HIDE DEF Ahead
    <3> QED  BY <1>0, <1>1, <2>1, FS_Subset
  <2> HIDE DEF Ahead
  <2> QED  BY <1>0, <1>1, <1>2, <2>2
<1>4. ASSUME NEW i \in S, NEW j \in S, ComesBefore(key, i, j)
      PROVE  Place(S, key, i) < Place(S, key, j)
  <2>1. Ahead(i) \subseteq Ahead(j) /\ i \in Ahead(j) /\ i \notin Ahead(i)
    BY <1>4, OrderIsTotal
  <2> HIDE DEF Ahead
  <2>2. Ahead(i) \in SUBSET Ahead(j) /\ Ahead(i) # Ahead(j) /\ IsFiniteSet(Ahead(j))
    BY <1>1, <2>1
  <2>3. Cardinality(Ahead(i)) < Cardinality(Ahead(j))
    BY <1>1, <2>2, FS_Subset
  <2> QED  BY <1>1, <1>2, <2>3
<1> QED  BY <1>0, <1>3, <1>4

(* Every place is that of one row, and places are in the order of the rows.*)
LEMMA PlacesAreRows ==
  ASSUME NEW S, NEW key, CanBeListed(S, key)
  PROVE  /\ \A k \in 1..Cardinality(S) :
              RowAt(S, key, k) \in S /\ Place(S, key, RowAt(S, key, k)) = k
         /\ \A i \in S : RowAt(S, key, Place(S, key, i)) = i
         /\ \A i, j \in S : Place(S, key, i) < Place(S, key, j) <=> ComesBefore(key, i, j)
<1>1. PICK n \in Nat : n = Cardinality(S)
  BY PlacesAscend
<1>2. PICK f : f = [i \in S |-> Place(S, key, i)]
  OBVIOUS
<1>3. ASSUME NEW i \in S, NEW j \in S
      PROVE  /\ Place(S, key, i) = Place(S, key, j) => i = j
             /\ Place(S, key, i) < Place(S, key, j) <=> ComesBefore(key, i, j)
  <2>1. Place(S, key, i) \in Nat /\ Place(S, key, j) \in Nat
    BY PlacesAscend
  <2>2. i # j => ComesBefore(key, i, j) \/ ComesBefore(key, j, i)
    BY OrderIsTotal
  <2>3. /\ ComesBefore(key, i, j) => Place(S, key, i) < Place(S, key, j)
        /\ ComesBefore(key, j, i) => Place(S, key, j) < Place(S, key, i)
    BY PlacesAscend
  <2> QED  BY <2>1, <2>2, <2>3
<1>4. f \in Injection(S, 1..n)
  BY <1>1, <1>2, <1>3, PlacesAscend DEF Injection, IsInjective
<1>5. IsFiniteSet(1..n) /\ Cardinality(1..n) = n
  BY FS_Interval
<1>6. f \in Surjection(S, 1..n)
  BY <1>1, <1>4, <1>5, FS_Injection
<1>7. \A k \in 1..n : \E i \in S : Place(S, key, i) = k
  BY <1>2, <1>6 DEF Surjection
<1>8. \A k \in 1..n : RowAt(S, key, k) \in S /\ Place(S, key, RowAt(S, key, k)) = k
  BY <1>7 DEF RowAt
<1>9. \A i \in S : RowAt(S, key, Place(S, key, i)) = i
  BY <1>1, <1>3, <1>8, PlacesAscend
<1> QED  BY <1>1, <1>3, <1>8, <1>9

(* What a listing has, by its places.                                      *)
LEMMA ListingHasRows ==
  ASSUME NEW rows, NEW S, NEW key, CanBeListed(S, key)
  PROVE  /\ Cardinality(S) \in Nat /\ DOMAIN Listed(rows, S, key) = 1..Cardinality(S)
         /\ \A k \in DOMAIN Listed(rows, S, key) :
              \E i \in S : Listed(rows, S, key)[k] = rows[i] /\ Place(S, key, i) = k
         /\ \A i \in S : /\ Place(S, key, i) \in DOMAIN Listed(rows, S, key)
                         /\ Listed(rows, S, key)[Place(S, key, i)] = rows[i]
<1>1. /\ DOMAIN Listed(rows, S, key) = 1..Cardinality(S)
      /\ \A k \in 1..Cardinality(S) : Listed(rows, S, key)[k] = rows[RowAt(S, key, k)]
  BY DEF Listed
<1> QED  BY <1>1, PlacesAscend, PlacesAreRows

(* Keys that order the rows alike list them alike.                         *)
LEMMA OrderLists ==
  ASSUME NEW rows, NEW S, NEW key, NEW other,
         \A i, j \in S : ComesBefore(key, i, j) <=> ComesBefore(other, i, j)
  PROVE  Listed(rows, S, key) = Listed(rows, S, other)
<1>1. ASSUME NEW i \in S
      PROVE  Place(S, key, i) = Place(S, other, i)
  <2>1. {j \in S : ComesBefore(key, j, i)} = {j \in S : ComesBefore(other, j, i)}
    OBVIOUS
  <2> QED  BY <2>1 DEF Place
<1>2. \A k : RowAt(S, key, k) = RowAt(S, other, k)
  BY <1>1 DEF RowAt
<1> QED  BY <1>2 DEF Listed

-----------------------------------------------------------------------------
(* The two loops over a trail, that of the integrity check and that of the *)
(* comparison, by what they do with place i.                               *)
FirstState(loop) ==
  IF loop = "integrity" THEN [open |-> {}, violations |-> {}]
                        ELSE [onlyInA |-> {}, matched |-> {}, changed |-> {}]
NextState(loop, a, b, state, i) ==
  IF loop = "integrity" THEN Examine(state, a[i]) ELSE MatchOne(state, i, a, b)

(* What the fold behind FoldLeft computes for the sets of places in D.     *)
FoldsOn(g, loop, a, b, D) ==
  g = [s \in D |-> IF s = {} THEN FirstState(loop)
                   ELSE NextState(loop, a, b, g[s \ {Max(s)}], Max(s))]

(* There is such a function: the sets of m + 1 places follow those of m.   *)
LEMMA FoldsExist ==
  ASSUME NEW loop, NEW a, NEW b, NEW n \in Nat
  PROVE  \E g : FoldsOn(g, loop, a, b, SUBSET (1..n))
<1> DEFINE S == 1..n
           D(m) == {s \in SUBSET S : Cardinality(s) <= m}
           Missing == {m \in Nat : ~ \E g : FoldsOn(g, loop, a, b, D(m))}
<1>0. IsFiniteSet(S)
  BY FS_Interval
<1>1. \A s \in SUBSET S : IsFiniteSet(s) /\ Cardinality(s) \in Nat
  BY <1>0, FS_Subset, FS_CardinalityType
<1>2. ASSUME NEW m \in Nat, m > 0, NEW s \in D(m), s # {}
      PROVE  s \ {Max(s)} \in D(m - 1)
  <2>1. Max(s) \in s
    BY <1>2, LastExists
  <2>2. Cardinality(s \ {Max(s)}) = Cardinality(s) - 1
    BY <1>1, <1>2, <2>1, FS_RemoveElement
  <2>3. s \ {Max(s)} \in SUBSET S /\ Cardinality(s) <= m
    BY <1>2
  <2>4. Cardinality(s \ {Max(s)}) <= m - 1
    BY <1>1, <1>2, <2>2, <2>3
  <2> QED  BY <2>3, <2>4
<1>3. ASSUME Missing # {} PROVE FALSE
  <2>1. PICK m \in Missing : \A l \in Missing : m <= l
    <3>1. Missing \in SUBSET Nat
      OBVIOUS
    <3> HIDE DEF Missing
    <3> QED  BY <1>3, <3>1, LeastExists
  <2>2. CASE m = 0
    <3>1. D(0) = {{}}
      <4>1. \A s \in D(0) : Cardinality(s) = 0
        BY <1>1
      <4>2. \A s \in D(0) : s = {}
        BY <1>1, <4>1, FS_EmptySet
      <4>3. {} \in D(0)
        BY FS_EmptySet
      <4> QED  BY <4>2, <4>3
    <3>2. FoldsOn([s \in D(0) |-> FirstState(loop)], loop, a, b, D(0))
      BY <3>1 DEF FoldsOn
    <3> QED  BY <2>1, <2>2, <3>2
  <2>3. CASE m > 0
    <3>1. m - 1 \in Nat /\ m - 1 \notin Missing
      <4>1. m \in Nat
        BY <2>1
      <4> HIDE DEF Missing
      <4> QED  BY <2>1, <2>3, <4>1
    <3>2. PICK g : FoldsOn(g, loop, a, b, D(m - 1))
      BY <3>1
    <3> DEFINE h == [s \in D(m) |->
                      IF s = {} THEN FirstState(loop)
                      ELSE NextState(loop, a, b, g[s \ {Max(s)}], Max(s))]
    <3>3. ASSUME NEW s \in D(m), s # {}
          PROVE  h[s \ {Max(s)}] = g[s \ {Max(s)}]
      <4> DEFINE r == s \ {Max(s)}
      <4>1. r \in D(m - 1)
        BY <1>2, <2>3, <3>3
      <4>2. r \in D(m)
        BY <1>1, <2>3, <4>1
      <4> HIDE DEF r, D
      <4>3. g[r] = IF r = {} THEN FirstState(loop)
                   ELSE NextState(loop, a, b, g[r \ {Max(r)}], Max(r))
        BY <3>2, <4>1 DEF FoldsOn
      <4> QED  BY <4>2, <4>3 DEF r
    <3>4. FoldsOn(h, loop, a, b, D(m))
      <4> HIDE DEF D
      <4> QED  BY <3>3 DEF FoldsOn
    <3> QED  BY <2>1, <3>4
  <2> QED  BY <2>1, <2>2, <2>3
<1>4. D(Cardinality(S)) = SUBSET S
  BY <1>0, FS_Subset, FS_CardinalityType
<1>5. Cardinality(S) \in Nat
  BY <1>0, FS_CardinalityType
<1> QED  BY <1>3, <1>4, <1>5

(* The states a loop goes through.                                         *)
GoesThrough(g, loop, a, b, n) ==
  /\ g[0] = FirstState(loop)
  /\ \A k \in 1..n : g[k] = NextState(loop, a, b, g[k - 1], k)

(* A fold over n places, and that it goes through them to its value.       *)
FoldsPlaces(fold, loop, a, b, n) == FoldsOn(fold, loop, a, b, SUBSET (1..n))
EndsAs(fold, g, loop, a, b, n) == GoesThrough(g, loop, a, b, n) /\ g[n] = fold[1..n]

(* A fold goes through them, a place at a time.                            *)
LEMMA FoldsGoThrough ==
  ASSUME NEW loop, NEW a, NEW b, NEW n \in Nat, NEW fold, FoldsPlaces(fold, loop, a, b, n)
  PROVE  \E g : EndsAs(fold, g, loop, a, b, n)
<1>0. FoldsOn(fold, loop, a, b, SUBSET (1..n))
  BY DEF FoldsPlaces
<1>1. PICK g : g = [k \in 0..n |-> fold[1..k]]
  OBVIOUS
<1>2. g[0] = FirstState(loop)
  BY <1>0, <1>1 DEF FoldsOn
<1>3. ASSUME NEW k \in 1..n
      PROVE  g[k] = NextState(loop, a, b, g[k - 1], k)
  <2>1. Max(1..k) = k
    <3>1. 1..k \in SUBSET (1..n) /\ k \in 1..k
      OBVIOUS
    <3>2. Max(1..k) \in 1..k /\ Max(1..k) >= k
      BY <3>1, LastExists
    <3> QED  BY <3>2
  <2>2. 1..k \in SUBSET (1..n) /\ 1..k # {} /\ (1..k) \ {k} = 1..k - 1
    OBVIOUS
  <2>3. fold[1..k] = NextState(loop, a, b, fold[1..k - 1], k)
    BY <1>0, <2>1, <2>2 DEF FoldsOn
  <2> QED  BY <1>1, <2>3
<1>4. g[n] = fold[1..n]
  BY <1>1
<1> QED  BY <1>2, <1>3, <1>4 DEF GoesThrough, EndsAs

(* What the integrity check reports is what its loop ends with.            *)
LEMMA IntegritySteps ==
  ASSUME NEW a, NEW n \in Nat, DOMAIN a = 1..n
  PROVE  \E g : /\ GoesThrough(g, "integrity", a, a, n)
                /\ CheckAuditIntegrity(a) =
                     g[n].violations \cup {Violation("unmatched_started", r) : r \in g[n].open}
<1> DEFINE start == [open |-> {}, violations |-> {}]
           Unfold(f) == [s \in SUBSET (DOMAIN a) |->
                           IF s = {} THEN start ELSE Examine(f[s \ {Max(s)}], a[Max(s)])]
           iter == CHOOSE f : f = Unfold(f)
           whole == FoldLeft(Examine, start, a)
<1>1. whole = iter[DOMAIN a]
  BY Zenon DEF FoldLeft, MapThenFoldSet
<1>2. CheckAuditIntegrity(a) =
        whole.violations \cup {Violation("unmatched_started", r) : r \in whole.open}
  BY DEF CheckAuditIntegrity
<1> HIDE DEF whole
<1>3. ASSUME NEW f
      PROVE  FoldsOn(f, "integrity", a, a, SUBSET (1..n)) <=> f = Unfold(f)
  BY DEF FoldsOn, FirstState, NextState
<1>4. PICK h : FoldsOn(h, "integrity", a, a, SUBSET (1..n))
  BY FoldsExist
<1> HIDE DEF Unfold
<1>5. h = Unfold(h)
  BY <1>3, <1>4
<1>6. iter = Unfold(iter)
  BY <1>5, Zenon
<1> HIDE DEF iter
<1>7. FoldsOn(iter, "integrity", a, a, SUBSET (1..n))
  BY <1>3, <1>6
<1>8. PICK g : GoesThrough(g, "integrity", a, a, n) /\ g[n] = iter[1..n]
  <2>1. FoldsPlaces(iter, "integrity", a, a, n)
    BY <1>7 DEF FoldsPlaces
  <2>2. \E g : EndsAs(iter, g, "integrity", a, a, n)
    BY <2>1, FoldsGoThrough
  <2> QED  BY <2>2 DEF EndsAs
<1>9. g[n] = whole
  BY <1>1, <1>8
<1> QED  BY <1>2, <1>8, <1>9

(* What a comparison says of what its loop ends with.                      *)
Findings(state, b) ==
  [onlyInA |-> state.onlyInA, onlyInB |-> DOMAIN b \ state.matched, changed |-> state.changed,
   identical |-> state.onlyInA = {} /\ DOMAIN b \ state.matched = {} /\ state.changed = {}]

(* What the comparison says is what its loop ends with, too.               *)
LEMMA DiffSteps ==
  ASSUME NEW a, NEW b, NEW n \in Nat, DOMAIN a = 1..n
  PROVE  \E g : /\ GoesThrough(g, "diff", a, b, n)
                /\ DiffReplayPacks(a, b) = Findings(g[n], b)
<1> DEFINE start == [onlyInA |-> {}, matched |-> {}, changed |-> {}]
           places == [i \in DOMAIN a |-> i]
           Unfold(f) == [s \in SUBSET (DOMAIN places) |->
                           IF s = {} THEN start
                           ELSE MatchOne(f[s \ {Max(s)}], places[Max(s)], a, b)]
           iter == CHOOSE f : f = Unfold(f)
           whole == FoldLeft(LAMBDA state, place : MatchOne(state, place, a, b), start, places)
<1> HIDE DEF places
<1>1. whole = iter[DOMAIN places]
  BY Zenon DEF FoldLeft, MapThenFoldSet
<1>2. DiffReplayPacks(a, b) = Findings(whole, b)
  BY DEF DiffReplayPacks, Findings, places
<1> HIDE DEF whole
<1>0. DOMAIN places = 1..n /\ \A i \in 1..n : places[i] = i
  BY DEF places
<1>3. ASSUME NEW f
      PROVE  FoldsOn(f, "diff", a, b, SUBSET (1..n)) <=> f = Unfold(f)
  <2>1. \A s \in SUBSET (1..n) : s # {} => places[Max(s)] = Max(s)
    BY <1>0, LastExists
  <2> QED  BY <1>0, <2>1 DEF FoldsOn, FirstState, NextState
<1>4. PICK h : FoldsOn(h, "diff", a, b, SUBSET (1..n))
  BY FoldsExist
<1> HIDE DEF Unfold
<1>5. h = Unfold(h)
  BY <1>3, <1>4
<1>6. iter = Unfold(iter)
  BY <1>5, Zenon
<1> HIDE DEF iter
<1>7. FoldsOn(iter, "diff", a, b, SUBSET (1..n))
  BY <1>3, <1>6
<1>8. PICK g : GoesThrough(g, "diff", a, b, n) /\ g[n] = iter[1..n]
  <2>1. FoldsPlaces(iter, "diff", a, b, n)
    BY <1>7 DEF FoldsPlaces
  <2>2. \E g : EndsAs(iter, g, "diff", a, b, n)
    BY <2>1, FoldsGoThrough
  <2> QED  BY <2>2 DEF EndsAs
<1>9. g[n] = whole
  BY <1>0, <1>1, <1>8
<1> QED  BY <1>2, <1>8, <1>9
-----------------------------------------------------------------------------
(* The records of a key, and which of them a record is.                    *)
WithKey(a, key) == {i \in DOMAIN a : DiffKey(a[i]) = key}
Rank(a, i) == Place(WithKey(a, DiffKey(a[i])), AsWritten(a), i)

(* The records of a key are counted as they were written.                  *)
LEMMA RanksCount ==
  ASSUME NEW a, NEW n \in Nat, DOMAIN a = 1..n, NEW key
  PROVE  /\ CanBeListed(WithKey(a, key), AsWritten(a))
         /\ Cardinality(WithKey(a, key)) \in Nat
         /\ \A i \in WithKey(a, key) :
              /\ Rank(a, i) \in 1..Cardinality(WithKey(a, key))
              /\ Rank(a, i) = Place(WithKey(a, key), AsWritten(a), i)
         /\ \A r \in 1..Cardinality(WithKey(a, key)) : \E i \in WithKey(a, key) : Rank(a, i) = r
         /\ \A i, j \in WithKey(a, key) : Rank(a, i) < Rank(a, j) <=> i < j
<1>1. PICK S : S = WithKey(a, key)
  OBVIOUS
<1>2. CanBeListed(S, AsWritten(a))
  <2>1. IsFiniteSet(1..n)
    BY FS_Interval
  <2>2. S \in SUBSET (1..n)
    BY <1>1 DEF WithKey
  <2>3. IsFiniteSet(S)
    BY <2>1, <2>2, FS_Subset
  <2> QED  BY <2>2, <2>3 DEF CanBeListed, AsWritten
<1>3. \A i \in S : Rank(a, i) = Place(S, AsWritten(a), i)
  BY <1>1 DEF Rank, WithKey
<1>4. \A i, j \in S : ComesBefore(AsWritten(a), i, j) <=> i < j
  BY <1>1 DEF ComesBefore, AsWritten, WithKey
<1>5. /\ Cardinality(S) \in Nat
      /\ \A i \in S : Rank(a, i) \in 1..Cardinality(S)
      /\ \A r \in 1..Cardinality(S) : \E i \in S : Rank(a, i) = r
  BY <1>2, <1>3, PlacesAscend, PlacesAreRows
<1>6. \A i, j \in S : Rank(a, i) < Rank(a, j) <=> i < j
  BY <1>2, <1>3, <1>4, PlacesAreRows
<1> QED  BY <1>1, <1>2, <1>3, <1>5, <1>6

(* Record i of a and record j of b are the same one of their key, in a and *)
(* in b; what the comparison has to find, by the pairs.                    *)
Pair(a, b, i, j) ==
  /\ i \in DOMAIN a /\ j \in DOMAIN b
  /\ DiffKey(a[i]) = DiffKey(b[j])
  /\ Rank(a, i) = Rank(b, j)
Alone(a, b) == {i \in DOMAIN a : ~\E j \in DOMAIN b : Pair(a, b, i, j)}
Differ(a, b) == {p \in (DOMAIN a) \X (DOMAIN b) :
                   Pair(a, b, p[1], p[2]) /\ Compared(a[p[1]]) # Compared(b[p[2]])}
NothingToFind(a, b) == Alone(a, b) = {} /\ Alone(b, a) = {} /\ Differ(a, b) = {}

(* What differs is pairs.                                                  *)
LEMMA DifferHasPairs ==
  ASSUME NEW a, NEW b
  PROVE  /\ \A i, j : <<i, j>> \in Differ(a, b) <=>
              Pair(a, b, i, j) /\ Compared(a[i]) # Compared(b[j])
         /\ \A p \in Differ(a, b) :
              /\ p = <<p[1], p[2]>> /\ p[1] \in DOMAIN a /\ p[2] \in DOMAIN b
              /\ Pair(a, b, p[1], p[2]) /\ Compared(a[p[1]]) # Compared(b[p[2]])
<1>1. PICK A, B : A = DOMAIN a /\ B = DOMAIN b
  OBVIOUS
<1>0. \A p : p \in Differ(a, b) <=>
        p \in A \X B /\ Pair(a, b, p[1], p[2]) /\ Compared(a[p[1]]) # Compared(b[p[2]])
  <2> DEFINE Q(p) == Pair(a, b, p[1], p[2]) /\ Compared(a[p[1]]) # Compared(b[p[2]])
  <2>1. Differ(a, b) = {p \in A \X B : Q(p)}
    BY <1>1 DEF Differ
  <2>2. PICK X : X = A \X B
    OBVIOUS
  <2> HIDE DEF Q
  <2>3. \A p : p \in Differ(a, b) <=> p \in X /\ Q(p)
    BY <2>1, <2>2
  <2> QED  BY <2>2, <2>3 DEF Q
<1>2. ASSUME NEW i, NEW j
      PROVE  <<i, j>> \in Differ(a, b) <=> Pair(a, b, i, j) /\ Compared(a[i]) # Compared(b[j])
  <2>1. <<i, j>>[1] = i /\ <<i, j>>[2] = j
    OBVIOUS
  <2>2. <<i, j>> \in A \X B <=> i \in A /\ j \in B
    OBVIOUS
  <2>3. Pair(a, b, i, j) => i \in A /\ j \in B
    BY <1>1 DEF Pair
  <2>4. <<i, j>> \in Differ(a, b) <=>
          /\ <<i, j>> \in A \X B
          /\ Pair(a, b, <<i, j>>[1], <<i, j>>[2])
          /\ Compared(a[<<i, j>>[1]]) # Compared(b[<<i, j>>[2]])
    BY <1>0
  <2> QED  BY <2>1, <2>2, <2>3, <2>4
<1>3. ASSUME NEW p \in Differ(a, b)
      PROVE  /\ p = <<p[1], p[2]>> /\ p[1] \in A /\ p[2] \in B
             /\ Pair(a, b, p[1], p[2]) /\ Compared(a[p[1]]) # Compared(b[p[2]])
  <2>1. /\ p \in A \X B
        /\ Pair(a, b, p[1], p[2]) /\ Compared(a[p[1]]) # Compared(b[p[2]])
    BY <1>0, <1>3
  <2> QED  BY <2>1
<1> QED  BY <1>1, <1>2, <1>3

(* A record is in at most one pair.                                        *)
LEMMA PairsAreUnique ==
  ASSUME NEW a, NEW b, NEW n \in Nat, NEW m \in Nat, DOMAIN a = 1..n, DOMAIN b = 1..m
  PROVE  /\ \A i, j : Pair(a, b, i, j) <=> Pair(b, a, j, i)
         /\ \A i, j, k : Pair(a, b, i, j) /\ Pair(a, b, i, k) => j = k
         /\ \A i, j, k : Pair(a, b, i, j) /\ Pair(a, b, k, j) => i = k
<1>1. ASSUME NEW c, NEW l \in Nat, DOMAIN c = 1..l, NEW i \in DOMAIN c, NEW j \in DOMAIN c,
             DiffKey(c[i]) = DiffKey(c[j]), Rank(c, i) = Rank(c, j)
      PROVE  i = j
  <2>1. PICK key : key = DiffKey(c[i])
    OBVIOUS
  <2>2. i \in WithKey(c, key) /\ j \in WithKey(c, key)
    BY <1>1, <2>1 DEF WithKey
  <2>3. /\ Rank(c, i) < Rank(c, j) <=> i < j
        /\ Rank(c, j) < Rank(c, i) <=> j < i
        /\ Rank(c, i) \in 1..Cardinality(WithKey(c, key)) /\ Cardinality(WithKey(c, key)) \in Nat
    BY <1>1, <2>2, RanksCount
  <2> QED  BY <1>1, <2>3
<1>2. \A i, j : Pair(a, b, i, j) <=> Pair(b, a, j, i)
  BY DEF Pair
<1>3. ASSUME NEW i, NEW j, NEW k, Pair(a, b, i, j), Pair(a, b, i, k)
      PROVE  j = k
  BY <1>1, <1>3 DEF Pair
<1>4. ASSUME NEW i, NEW j, NEW k, Pair(a, b, i, j), Pair(a, b, k, j)
      PROVE  i = k
  BY <1>1, <1>4 DEF Pair
<1> QED  BY <1>2, <1>3, <1>4

(* Where the loop of the comparison is after k records.                    *)
ComparedTo(state, a, b, k) ==
  /\ state = [onlyInA |-> state.onlyInA, matched |-> state.matched, changed |-> state.changed]
  /\ \A i : i \in state.onlyInA <=> i \in Alone(a, b) /\ i \leq k
  /\ \A j : j \in state.matched <=> \E i \in DOMAIN a : Pair(a, b, i, j) /\ i \leq k
  /\ \A p : p \in state.changed <=> p \in Differ(a, b) /\ p[1] \leq k

(* Of the records of its key that are not taken, a record finds its pair.  *)
LEMMA FirstFreeIsPair ==
  ASSUME NEW a, NEW b, NEW n \in Nat, NEW m \in Nat, DOMAIN a = 1..n, DOMAIN b = 1..m,
         NEW k \in 1..n, NEW matched,
         \A j : j \in matched <=> \E i \in DOMAIN a : Pair(a, b, i, j) /\ i \leq k - 1,
         NEW free, free = {j \in DOMAIN b : DiffKey(b[j]) = DiffKey(a[k]) /\ j \notin matched},
         NEW match, match = CHOOSE j \in free : \A l \in free : j \leq l
  PROVE  /\ free = {} => k \in Alone(a, b)
         /\ free # {} => Pair(a, b, k, match)
<1>1. PICK key : key = DiffKey(a[k])
  OBVIOUS
<1>2. k \in WithKey(a, key)
  BY <1>1 DEF WithKey
<1>3. /\ Rank(a, k) \in Nat \ {0} /\ Cardinality(WithKey(a, key)) \in Nat
      /\ Rank(a, k) \leq Cardinality(WithKey(a, key))
  BY <1>2, RanksCount
<1>4. /\ Cardinality(WithKey(b, key)) \in Nat
      /\ \A j \in WithKey(b, key) : Rank(b, j) \in Nat \ {0}
      /\ \A j, l \in WithKey(b, key) : Rank(b, j) < Rank(b, l) <=> j < l
      /\ \A r \in 1..Cardinality(WithKey(b, key)) : \E j \in WithKey(b, key) : Rank(b, j) = r
      /\ \A j \in WithKey(b, key) : Rank(b, j) \leq Cardinality(WithKey(b, key))
  BY RanksCount
<1>5. ASSUME NEW j \in WithKey(b, key)
      PROVE  j \in free <=> Rank(b, j) >= Rank(a, k)
  <2>1. j \in free <=> ~\E i \in DOMAIN a : Pair(a, b, i, j) /\ i \leq k - 1
    BY <1>1, <1>5 DEF WithKey
  <2>2. ASSUME NEW i \in DOMAIN a, Pair(a, b, i, j), i \leq k - 1
        PROVE  Rank(b, j) < Rank(a, k)
    <3>1. i \in WithKey(a, key) /\ Rank(a, i) = Rank(b, j) /\ i < k
      BY <1>5, <2>2 DEF Pair, WithKey
    <3> QED  BY <1>2, <3>1, RanksCount
  <2>3. ASSUME Rank(b, j) < Rank(a, k)
        PROVE  \E i \in DOMAIN a : Pair(a, b, i, j) /\ i \leq k - 1
    <3>1. Rank(b, j) \in 1..Cardinality(WithKey(a, key))
      BY <1>3, <1>4, <2>3
    <3>2. PICK i \in WithKey(a, key) : Rank(a, i) = Rank(b, j)
      BY <3>1, RanksCount
    <3>3. i < k
      BY <1>2, <2>3, <3>2, RanksCount
    <3>4. i \in 1..n /\ Pair(a, b, i, j)
      BY <1>5, <3>2 DEF Pair, WithKey
    <3> QED  BY <3>3, <3>4
  <2> QED  BY <1>3, <1>4, <2>1, <2>2, <2>3
<1>6. \A j \in free : j \in WithKey(b, key) /\ j \in Nat
  BY <1>1 DEF WithKey
<1>7. ASSUME free = {} PROVE k \in Alone(a, b)
  <2>1. ASSUME NEW j \in DOMAIN b, Pair(a, b, k, j)
        PROVE  FALSE
    <3>1. j \in WithKey(b, key) /\ Rank(b, j) = Rank(a, k)
      BY <1>1, <2>1 DEF Pair, WithKey
    <3> QED  BY <1>3, <1>5, <1>7, <3>1
  <2> QED  BY <2>1 DEF Alone
<1>8. ASSUME free # {} PROVE Pair(a, b, k, match)
  <2>1. PICK x \in free : TRUE
    BY <1>8
  <2>2. Rank(a, k) \in 1..Cardinality(WithKey(b, key))
    <3>1. x \in WithKey(b, key) /\ Rank(b, x) >= Rank(a, k)
      BY <1>5, <1>6, <2>1
    <3> QED  BY <1>3, <1>4, <3>1
  <2>3. PICK j \in WithKey(b, key) : Rank(b, j) = Rank(a, k)
    BY <1>4, <2>2
  <2>4. j \in free /\ j \in Nat
    BY <1>3, <1>5, <1>6, <2>3
  <2>5. \A l \in free : j \leq l
    <3> TAKE l \in free
    <3>1. l \in WithKey(b, key) /\ l \in Nat /\ Rank(b, l) >= Rank(a, k)
      BY <1>5, <1>6
    <3> QED  BY <1>3, <1>4, <2>3, <2>4, <3>1
  <2>6. j = match
    <3>1. \A x1 \in free : (\A l \in free : x1 \leq l) => x1 = j
      BY <1>6, <2>4, <2>5
    <3> QED  BY <2>4, <2>5, <3>1
  <2>7. Pair(a, b, k, j)
    BY <1>1, <2>3 DEF Pair, WithKey
  <2> QED  BY <2>6, <2>7
<1> QED  BY <1>7, <1>8

(* The loop keeps to the pairs.                                            *)
LEMMA MatchingKeepsPairs ==
  ASSUME NEW a, NEW b, NEW n \in Nat, NEW m \in Nat, DOMAIN a = 1..n, DOMAIN b = 1..m,
         NEW k \in 1..n, NEW state, ComparedTo(state, a, b, k - 1)
  PROVE  ComparedTo(MatchOne(state, k, a, b), a, b, k)
<1>1. PICK free : free = {j \in DOMAIN b : /\ DiffKey(b[j]) = DiffKey(a[k])
                                           /\ j \notin state.matched}
  OBVIOUS
<1>2. PICK match : match = CHOOSE j \in free : \A l \in free : j \leq l
  OBVIOUS
<1>3. \A j : j \in state.matched <=> \E i \in DOMAIN a : Pair(a, b, i, j) /\ i \leq k - 1
  BY DEF ComparedTo
<1>4. /\ free = {} => k \in Alone(a, b)
      /\ free # {} => Pair(a, b, k, match)
  BY <1>1, <1>2, <1>3, FirstFreeIsPair
<1>5. \A i \in DOMAIN a : i \leq k <=> i \leq k - 1 \/ i = k
  OBVIOUS
<1>6. MatchOne(state, k, a, b) =
        IF free = {}
        THEN [state EXCEPT !.onlyInA = @ \cup {k}]
        ELSE [state EXCEPT !.matched = @ \cup {match},
                           !.changed = IF Compared(a[k]) # Compared(b[match])
                                         THEN @ \cup {<<k, match>>} ELSE @]
  BY <1>1, <1>2 DEF MatchOne
<1>7. /\ state = [onlyInA |-> state.onlyInA, matched |-> state.matched, changed |-> state.changed]
      /\ \A i : i \in state.onlyInA <=> i \in Alone(a, b) /\ i \leq k - 1
      /\ \A p : p \in state.changed <=> p \in Differ(a, b) /\ p[1] \leq k - 1
  BY DEF ComparedTo
<1>8. /\ \A i : i \in Alone(a, b) => i \in DOMAIN a
      /\ \A p : p \in Differ(a, b) =>
           p[1] \in DOMAIN a /\ p = <<p[1], p[2]>> /\ Pair(a, b, p[1], p[2])
  BY DifferHasPairs DEF Alone
<1>9. CASE free = {}
  <2>1. PICK to : to = MatchOne(state, k, a, b)
    OBVIOUS
  <2>2. to = [onlyInA |-> state.onlyInA \cup {k}, matched |-> state.matched,
              changed |-> state.changed]
    BY <1>6, <1>7, <1>9, <2>1
  <2>3. \A j : ~Pair(a, b, k, j)
    BY <1>4, <1>9 DEF Alone, Pair
  <2>4. \A i : i \in to.onlyInA <=> i \in Alone(a, b) /\ i \leq k
    BY <1>4, <1>5, <1>7, <1>8, <1>9, <2>2
  <2>5. \A j : j \in to.matched <=> \E i \in DOMAIN a : Pair(a, b, i, j) /\ i \leq k
    BY <1>3, <1>5, <2>2, <2>3
  <2>6. \A p : p \in to.changed <=> p \in Differ(a, b) /\ p[1] \leq k
    BY <1>5, <1>7, <1>8, <2>2, <2>3
  <2> QED  BY <2>1, <2>2, <2>4, <2>5, <2>6 DEF ComparedTo
<1>10. CASE free # {}
  <2>1. PICK to : to = MatchOne(state, k, a, b)
    OBVIOUS
  <2>2. to = [onlyInA |-> state.onlyInA, matched |-> state.matched \cup {match},
              changed |-> IF Compared(a[k]) # Compared(b[match])
                            THEN state.changed \cup {<<k, match>>} ELSE state.changed]
    BY <1>6, <1>7, <1>10, <2>1
  <2>3. \A j : Pair(a, b, k, j) <=> j = match
    BY <1>4, <1>10, PairsAreUnique
  <2>4. k \notin Alone(a, b)
    BY <2>3 DEF Alone, Pair
  <2>5. \A i : i \in to.onlyInA <=> i \in Alone(a, b) /\ i \leq k
    BY <1>5, <1>7, <1>8, <2>2, <2>4
  <2>6. \A j : j \in to.matched <=> \E i \in DOMAIN a : Pair(a, b, i, j) /\ i \leq k
    BY <1>3, <1>5, <2>2, <2>3
  <2>7. <<k, match>> \in Differ(a, b) <=> Compared(a[k]) # Compared(b[match])
    BY <2>3, DifferHasPairs
  <2>8. \A p : p \in to.changed <=> p \in Differ(a, b) /\ p[1] \leq k
    <3>1. \A p : p \in Differ(a, b) /\ p[1] = k => p = <<k, match>>
      BY <1>8, <2>3
    <3>2. <<k, match>>[1] = k /\ k \leq k
      OBVIOUS
    <3> QED  BY <1>5, <1>7, <1>8, <2>2, <2>7, <3>1, <3>2
  <2> QED  BY <2>1, <2>2, <2>5, <2>6, <2>8 DEF ComparedTo
<1> QED  BY <1>9, <1>10

(* So the comparison finds the records that have no pair, and the pairs    *)
(* that differ.                                                            *)
LEMMA DiffIsByPairs ==
  ASSUME NEW a, NEW b, NEW n \in Nat, NEW m \in Nat, DOMAIN a = 1..n, DOMAIN b = 1..m
  PROVE  /\ DiffReplayPacks(a, b).onlyInA = Alone(a, b)
         /\ DiffReplayPacks(a, b).onlyInB = Alone(b, a)
         /\ DiffReplayPacks(a, b).changed = Differ(a, b)
         /\ DiffReplayPacks(a, b).identical <=> NothingToFind(a, b)
<1>1. PICK g : /\ GoesThrough(g, "diff", a, b, n)
               /\ DiffReplayPacks(a, b) = Findings(g[n], b)
  BY DiffSteps
<1> DEFINE Wrong == {k \in 0..n : ~ComparedTo(g[k], a, b, k)}
<1>2. 0 \notin Wrong
  <2>1. g[0] = [onlyInA |-> {}, matched |-> {}, changed |-> {}]
    BY <1>1 DEF GoesThrough, FirstState
  <2>2. \A i \in DOMAIN a : ~(i \leq 0)
    OBVIOUS
  <2>3. \A p \in Differ(a, b) : p[1] \in DOMAIN a
    BY DifferHasPairs
  <2> QED  BY <2>1, <2>2, <2>3 DEF ComparedTo, Alone
<1>3. \A k \in 1..n : k - 1 \notin Wrong => k \notin Wrong
  <2> SUFFICES ASSUME NEW k \in 1..n, k - 1 \notin Wrong PROVE k \notin Wrong
    OBVIOUS
  <2>1. ComparedTo(g[k - 1], a, b, k - 1)
    OBVIOUS
  <2>2. g[k] = MatchOne(g[k - 1], k, a, b)
    BY <1>1 DEF GoesThrough, NextState
  <2>3. ComparedTo(g[k], a, b, k)
    BY <2>1, <2>2, MatchingKeepsPairs
  <2> QED  BY <2>3
<1>4. Wrong = {}
  <2>1. Wrong \in SUBSET Nat /\ \A k \in Wrong : k \in 0..n
    OBVIOUS
  <2> HIDE DEF Wrong
  <2>2. SUFFICES ASSUME Wrong # {} PROVE FALSE
    OBVIOUS
  <2>3. PICK k \in Wrong : \A l \in Wrong : k \leq l
    BY <2>1, <2>2, LeastExists
  <2>4. k \in 1..n
    BY <1>2, <2>1, <2>3
  <2> QED  BY <1>3, <2>3, <2>4
<1>5. ComparedTo(g[n], a, b, n)
  BY <1>4
<1>6. /\ \A i \in DOMAIN a : i \leq n
      /\ \A i, j : Pair(a, b, i, j) <=> Pair(b, a, j, i)
  BY PairsAreUnique
<1>7. g[n].onlyInA = Alone(a, b)
  BY <1>5, <1>6 DEF ComparedTo, Alone
<1>8. DOMAIN b \ g[n].matched = Alone(b, a)
  BY <1>5, <1>6 DEF ComparedTo, Alone
<1>9. g[n].changed = Differ(a, b)
  BY <1>5, <1>6, DifferHasPairs DEF ComparedTo
<1>10. PICK d : d = DiffReplayPacks(a, b)
  OBVIOUS
<1>11. d = Findings(g[n], b)
  BY <1>1, <1>10
<1>12. /\ d.onlyInA = g[n].onlyInA /\ d.onlyInB = DOMAIN b \ g[n].matched
       /\ d.changed = g[n].changed
       /\ d.identical <=> /\ g[n].onlyInA = {} /\ DOMAIN b \ g[n].matched = {}
                          /\ g[n].changed = {}
  BY <1>11 DEF Findings
<1> QED  BY <1>7, <1>8, <1>9, <1>10, <1>12 DEF NothingToFind

(* There is nothing of this key to find.                                   *)
NothingOfKey(a, b, key) ==
  /\ \A i \in Alone(a, b) : DiffKey(a[i]) # key
  /\ \A j \in Alone(b, a) : DiffKey(b[j]) # key
  /\ \A p \in Differ(a, b) : DiffKey(a[p[1]]) # key

(* The tracks of a key are the same if and only if there is nothing of it  *)
(* to find.                                                                *)
LEMMA TracksAreByPairs ==
  ASSUME NEW a, NEW b, NEW n \in Nat, NEW m \in Nat, DOMAIN a = 1..n, DOMAIN b = 1..m,
         NEW key
  PROVE  NothingOfKey(a, b, key) <=> Track(a, key) = Track(b, key)
<1> DEFINE Count(c) == Cardinality(WithKey(c, key))
           IsTrack(c) ==
             /\ Count(c) \in Nat /\ DOMAIN Track(c, key) = 1..Count(c)
             /\ \A i \in WithKey(c, key) :
                  /\ Rank(c, i) \in 1..Count(c)
                  /\ Track(c, key)[Rank(c, i)] = Compared(c[i])
             /\ \A r \in 1..Count(c) : \E i \in WithKey(c, key) : Rank(c, i) = r
<1>1. ASSUME NEW c, NEW l \in Nat, DOMAIN c = 1..l
      PROVE  IsTrack(c)
  <2>1. PICK rows : rows = [i \in DOMAIN c |-> Compared(c[i])]
    OBVIOUS
  <2>2. Track(c, key) = Listed(rows, WithKey(c, key), AsWritten(c))
    BY <2>1 DEF Track, WithKey
  <2>3. /\ CanBeListed(WithKey(c, key), AsWritten(c))
        /\ \A i \in WithKey(c, key) :
             /\ Rank(c, i) \in 1..Count(c)
             /\ Rank(c, i) = Place(WithKey(c, key), AsWritten(c), i)
        /\ \A r \in 1..Count(c) : \E i \in WithKey(c, key) : Rank(c, i) = r
    BY <1>1, RanksCount
  <2>4. /\ Count(c) \in Nat /\ DOMAIN Track(c, key) = 1..Count(c)
        /\ \A i \in WithKey(c, key) : Track(c, key)[Rank(c, i)] = rows[i]
    BY <2>2, <2>3, ListingHasRows
  <2>5. \A i \in WithKey(c, key) : rows[i] = Compared(c[i])
    BY <2>1 DEF WithKey
  <2> QED  BY <2>3, <2>4, <2>5
<1>2. IsTrack(a) /\ IsTrack(b)
  BY <1>1
<1>3. \A i \in DOMAIN a, j \in DOMAIN b :
        Pair(a, b, i, j) <=>
          /\ i \in WithKey(a, DiffKey(a[i])) /\ j \in WithKey(b, DiffKey(a[i]))
          /\ Rank(a, i) = Rank(b, j)
  BY DEF Pair, WithKey
<1>4. ASSUME NothingOfKey(a, b, key)
      PROVE  Track(a, key) = Track(b, key)
  <2>1. \A i \in WithKey(a, key) : \E j \in WithKey(b, key) :
          Rank(a, i) = Rank(b, j) /\ Compared(a[i]) = Compared(b[j])
    <3> TAKE i \in WithKey(a, key)
    <3>1. PICK j \in DOMAIN b : Pair(a, b, i, j)
      BY <1>4 DEF NothingOfKey, Alone, WithKey
    <3>2. Compared(a[i]) = Compared(b[j])
      <4>1. <<i, j>> \notin Differ(a, b)
        <5>1. <<i, j>>[1] = i /\ DiffKey(a[i]) = key
          BY DEF WithKey
        <5> QED  BY <1>4, <5>1 DEF NothingOfKey
      <4> QED  BY <3>1, <4>1, DifferHasPairs
    <3> QED  BY <3>1, <3>2 DEF Pair, WithKey
  <2>2. \A j \in WithKey(b, key) : \E i \in WithKey(a, key) : Rank(a, i) = Rank(b, j)
    BY <1>4 DEF NothingOfKey, Alone, Pair, WithKey
  <2> HIDE DEF Count
  <2>3. Count(a) = Count(b)
    <3>1. Count(a) \in Nat /\ Count(b) \in Nat
      BY <1>2
    <3>2. Count(a) > 0 => Count(a) \leq Count(b)
      <4>1. SUFFICES ASSUME Count(a) > 0 PROVE Count(a) \leq Count(b)
        OBVIOUS
      <4>2. Count(a) \in 1..Count(a)
        BY <3>1, <4>1
      <4>3. PICK i \in WithKey(a, key) : Rank(a, i) = Count(a)
        BY <1>2, <4>2
      <4>4. Count(a) \in 1..Count(b)
        BY <1>2, <2>1, <4>3
      <4> QED  BY <3>1, <4>4
    <3>3. Count(b) > 0 => Count(b) \leq Count(a)
      <4>1. SUFFICES ASSUME Count(b) > 0 PROVE Count(b) \leq Count(a)
        OBVIOUS
      <4>2. Count(b) \in 1..Count(b)
        BY <3>1, <4>1
      <4>3. PICK i \in WithKey(b, key) : Rank(b, i) = Count(b)
        BY <1>2, <4>2
      <4>4. Count(b) \in 1..Count(a)
        BY <1>2, <2>2, <4>3
      <4> QED  BY <3>1, <4>4
    <3> QED  BY <3>1, <3>2, <3>3
  <2>4. \A r \in 1..Count(a) : Track(a, key)[r] = Track(b, key)[r]
    BY <1>2, <2>1
  <2>5. DOMAIN Track(a, key) = 1..Count(a) /\ DOMAIN Track(b, key) = 1..Count(a)
    BY <1>2, <2>3
  <2>6. /\ Track(a, key) = [r \in DOMAIN Track(a, key) |-> Track(a, key)[r]]
        /\ Track(b, key) = [r \in DOMAIN Track(b, key) |-> Track(b, key)[r]]
    BY DEF Track, Listed
  <2> QED  BY <2>4, <2>5, <2>6
<1>5. ASSUME Track(a, key) = Track(b, key)
      PROVE  NothingOfKey(a, b, key)
  <2> HIDE DEF Count
  <2>1. \A r : r \in 1..Count(a) <=> r \in 1..Count(b)
    BY <1>2, <1>5
  <2>2. ASSUME NEW i \in DOMAIN a, DiffKey(a[i]) = key
        PROVE  \E j \in DOMAIN b : Pair(a, b, i, j)
    <3>1. i \in WithKey(a, key)
      BY <2>2 DEF WithKey
    <3>2. Rank(a, i) \in 1..Count(b)
      BY <1>2, <2>1, <3>1
    <3>3. PICK j \in WithKey(b, key) : Rank(b, j) = Rank(a, i)
      BY <1>2, <3>2
    <3> QED  BY <2>2, <3>3 DEF Pair, WithKey
  <2>3. ASSUME NEW j \in DOMAIN b, DiffKey(b[j]) = key
        PROVE  \E i \in DOMAIN a : Pair(b, a, j, i)
    <3>1. j \in WithKey(b, key)
      BY <2>3 DEF WithKey
    <3>2. Rank(b, j) \in 1..Count(a)
      BY <1>2, <2>1, <3>1
    <3>3. PICK i \in WithKey(a, key) : Rank(a, i) = Rank(b, j)
      BY <1>2, <3>2
    <3> QED  BY <2>3, <3>3 DEF Pair, WithKey
  <2>4. ASSUME NEW i \in DOMAIN a, NEW j \in DOMAIN b, Pair(a, b, i, j), DiffKey(a[i]) = key
        PROVE  Compared(a[i]) = Compared(b[j])
    <3>1. i \in WithKey(a, key) /\ j \in WithKey(b, key) /\ Rank(a, i) = Rank(b, j)
      BY <2>4 DEF Pair, WithKey
    <3> QED  BY <1>2, <1>5, <3>1
  <2>5. \A p \in Differ(a, b) : DiffKey(a[p[1]]) # key
    <3> TAKE p \in Differ(a, b)
    <3>1. /\ Pair(a, b, p[1], p[2]) /\ Compared(a[p[1]]) # Compared(b[p[2]])
          /\ p[1] \in DOMAIN a /\ p[2] \in DOMAIN b
      BY DEF Differ
    <3> QED  BY <2>4, <3>1
  <2> QED  BY <2>2, <2>3, <2>5 DEF NothingOfKey, Alone
<1> QED  BY <1>4, <1>5

-----------------------------------------------------------------------------
(* What the fold behind MapThenSumSet computes for every set in D, the     *)
(* weights of members being w.                                             *)
Chosen(s) == CHOOSE x \in s : TRUE
SumsOn(g, w, D) ==
  g = [s \in D |-> IF s = {} THEN 0 ELSE w[Chosen(s)] + g[s \ {Chosen(s)}]]
Sums(g, w, S) == SumsOn(g, w, SUBSET S)

(* A family of finite sets has a member without smaller members.           *)
LEMMA SmallestExists ==
  ASSUME NEW S, IsFiniteSet(S), NEW F \in SUBSET SUBSET S, F # {}
  PROVE  \E s \in F : \A r \in SUBSET s : r # s => r \notin F
<1>1. IsWellFoundedOn(StrictSubsetOrdering(S), FiniteSubsetsOf(S))
  BY FS_StrictSubsetOrderingWellFounded
<1>2. F \subseteq FiniteSubsetsOf(S)
  BY FS_Subset DEF FiniteSubsetsOf
<1>3. PICK s \in F : \A r \in F : <<r, s>> \notin StrictSubsetOrdering(S)
  BY <1>1, <1>2, WFMin
<1>4. ASSUME NEW r \in SUBSET s, r # s, r \in F
      PROVE  FALSE
  BY <1>3, <1>4 DEF StrictSubsetOrdering
<1> QED  BY <1>3, <1>4

(* There is such a function: the sets of n + 1 members follow those of n.  *)
LEMMA SumsExist ==
  ASSUME NEW S, IsFiniteSet(S), NEW w
  PROVE  \E g : Sums(g, w, S)
<1> DEFINE D(n) == {s \in SUBSET S : Cardinality(s) <= n}
           Without == {n \in Nat : ~ \E g : SumsOn(g, w, D(n))}
<1>1. \A s \in SUBSET S : IsFiniteSet(s) /\ Cardinality(s) \in Nat
  BY FS_Subset, FS_CardinalityType
<1>2. ASSUME NEW n \in Nat, n > 0, NEW s \in D(n), s # {}
      PROVE  s \ {Chosen(s)} \in D(n - 1)
  <2>1. Chosen(s) \in s
    BY <1>2 DEF Chosen
  <2>2. Cardinality(s \ {Chosen(s)}) = Cardinality(s) - 1
    BY <1>1, <1>2, <2>1, FS_RemoveElement
  <2> QED  BY <1>1, <1>2, <2>2
<1>3. ASSUME Without # {} PROVE FALSE
  <2>1. PICK n \in Without : \A m \in Without : n <= m
    <3>1. Without \in SUBSET Nat
      OBVIOUS
    <3> HIDE DEF Without
    <3> QED  BY <1>3, <3>1, LeastExists
  <2>2. CASE n = 0
    <3>1. D(0) = {{}}
      <4>1. \A s \in D(0) : Cardinality(s) = 0
        BY <1>1
      <4>2. \A s \in D(0) : s = {}
        BY <1>1, <4>1, FS_EmptySet
      <4>3. {} \in D(0)
        BY FS_EmptySet
      <4> QED  BY <4>2, <4>3
    <3>2. SumsOn([s \in D(0) |-> 0], w, D(0))
      BY <3>1 DEF SumsOn
    <3> QED  BY <2>1, <2>2, <3>2
  <2>3. CASE n > 0
    <3>1. n - 1 \in Nat /\ n - 1 \notin Without
      <4>1. n \in Nat
        BY <2>1
      <4> HIDE DEF Without
      <4> QED  BY <2>1, <2>3, <4>1
    <3>2. PICK g : SumsOn(g, w, D(n - 1))
      BY <3>1
    <3> DEFINE h == [s \in D(n) |->
                      IF s = {} THEN 0 ELSE w[Chosen(s)] + g[s \ {Chosen(s)}]]
    <3>3. ASSUME NEW s \in D(n), s # {}
          PROVE  h[s \ {Chosen(s)}] = g[s \ {Chosen(s)}]
      <4> DEFINE r == s \ {Chosen(s)}
      <4>1. r \in D(n - 1)
        BY <1>2, <2>3, <3>3
      <4>2. r \in D(n)
        BY <1>1, <2>3, <4>1
      <4> HIDE DEF r, D
      <4>3. g[r] = IF r = {} THEN 0 ELSE w[Chosen(r)] + g[r \ {Chosen(r)}]
        BY <3>2, <4>1 DEF SumsOn
      <4> QED  BY <4>2, <4>3 DEF r
    <3>4. SumsOn(h, w, D(n))
      <4> HIDE DEF D
      <4> QED  BY <3>3 DEF SumsOn
    <3> QED  BY <2>1, <3>4
  <2> QED  BY <2>1, <2>2, <2>3
<1>4. D(Cardinality(S)) = SUBSET S
  BY FS_Subset, FS_CardinalityType
<1>5. Cardinality(S) \in Nat
  BY FS_CardinalityType
<1> QED  BY <1>3, <1>4, <1>5 DEF Sums

(* Sums of natural numbers are natural numbers.                            *)
LEMMA SumsTyped ==
  ASSUME NEW S, IsFiniteSet(S), NEW w, \A x \in S : w[x] \in Nat, NEW g, Sums(g, w, S)
  PROVE  g \in [SUBSET S -> Nat]
<1> DEFINE Odd == {s \in SUBSET S : g[s] \notin Nat}
<1>1. \A s \in SUBSET S : g[s] = IF s = {} THEN 0 ELSE w[Chosen(s)] + g[s \ {Chosen(s)}]
  BY DEF Sums, SumsOn
<1>2. ASSUME Odd # {} PROVE FALSE
  <2>1. PICK s \in Odd : \A r \in SUBSET s : r # s => r \notin Odd
    <3>1. Odd \in SUBSET SUBSET S
      OBVIOUS
    <3> HIDE DEF Odd
    <3> QED  BY <1>2, <3>1, SmallestExists
  <2>2. s # {} /\ s \in SUBSET S
    <3>1. s \in SUBSET S /\ g[s] \notin Nat
      BY <2>1
    <3>2. g[{}] = 0
      BY <1>1
    <3> HIDE DEF Odd
    <3>3. g[{}] \in Nat
      BY <3>2
    <3>4. s # {}
      BY <3>1, <3>3, Zenon
    <3> QED  BY <3>1, <3>4
  <2>3. Chosen(s) \in s
    BY <2>2 DEF Chosen
  <2>4. s \ {Chosen(s)} \notin Odd /\ s \ {Chosen(s)} \in SUBSET S
    BY <2>1, <2>2, <2>3
  <2>5. g[s \ {Chosen(s)}] \in Nat /\ g[s] \notin Nat
    BY <2>1, <2>4
  <2>6. w[Chosen(s)] \in Nat
    BY <2>2, <2>3
  <2>7. g[s] = w[Chosen(s)] + g[s \ {Chosen(s)}]
    BY <1>1, <2>2
  <2> HIDE DEF Odd
  <2> QED  BY <2>5, <2>6, <2>7
<1>3. DOMAIN g = SUBSET S /\ g = [s \in DOMAIN g |-> g[s]]
  BY DEF Sums, SumsOn
<1> QED  BY <1>2, <1>3

(* It does not matter which member is added last.                          *)
LEMMA SumsSplit ==
  ASSUME NEW S, IsFiniteSet(S), NEW w, \A x \in S : w[x] \in Nat, NEW g, Sums(g, w, S),
         NEW s \in SUBSET S, NEW x \in s
  PROVE  g[s] = w[x] + g[s \ {x}]
<1> DEFINE Odd == {t \in SUBSET S : \E y \in t : g[t] # w[y] + g[t \ {y}]}
<1>1. \A t \in SUBSET S : g[t] = IF t = {} THEN 0 ELSE w[Chosen(t)] + g[t \ {Chosen(t)}]
  BY DEF Sums, SumsOn
<1>2. ASSUME Odd # {} PROVE FALSE
  <2>1. PICK t \in Odd : \A r \in SUBSET t : r # t => r \notin Odd
    <3>1. Odd \in SUBSET SUBSET S
      OBVIOUS
    <3> HIDE DEF Odd
    <3> QED  BY <1>2, <3>1, SmallestExists
  <2>2. PICK y \in t : g[t] # w[y] + g[t \ {y}]
    BY <2>1
  <2>3. PICK c \in t : c = Chosen(t)
    BY DEF Chosen
  <2>4. c # y /\ g[t] = w[c] + g[t \ {c}]
    BY <1>1, <2>1, <2>2, <2>3
  <2>5. g[t \ {c}] = w[y] + g[(t \ {c}) \ {y}]
    BY <2>1, <2>2, <2>4
  <2>6. g[t \ {y}] = w[c] + g[(t \ {y}) \ {c}]
    BY <2>1, <2>3, <2>4
  <2>7. (t \ {c}) \ {y} = (t \ {y}) \ {c} /\ (t \ {y}) \ {c} \in SUBSET S
    BY <2>1
  <2>8. PICK rest \in Nat : rest = g[(t \ {y}) \ {c}] /\ rest = g[(t \ {c}) \ {y}]
    <3>1. g \in [SUBSET S -> Nat]
      BY SumsTyped
    <3> HIDE DEF Odd
    <3> QED  BY <2>7, <3>1
  <2>9. w[c] \in Nat /\ w[y] \in Nat
    BY <2>1
  <2>10. g[t] = w[c] + (w[y] + rest) /\ g[t \ {y}] = w[c] + rest
    BY <2>4, <2>5, <2>6, <2>8
  <2> QED  BY <2>2, <2>8, <2>9, <2>10
<1> QED  BY <1>2

(* A sum depends on the weights of the members alone.                      *)
LEMMA SumsAgree ==
  ASSUME NEW S, IsFiniteSet(S), NEW w, NEW g, Sums(g, w, S),
         NEW T, NEW v, NEW h, Sums(h, v, T),
         NEW s \in SUBSET S, s \subseteq T, \A x \in s : w[x] = v[x]
  PROVE  g[s] = h[s]
<1> DEFINE Odd == {r \in SUBSET s : g[r] # h[r]}
<1>1. /\ \A r \in SUBSET S : g[r] = IF r = {} THEN 0 ELSE w[Chosen(r)] + g[r \ {Chosen(r)}]
      /\ \A r \in SUBSET T : h[r] = IF r = {} THEN 0 ELSE v[Chosen(r)] + h[r \ {Chosen(r)}]
  BY DEF Sums, SumsOn
<1>2. ASSUME Odd # {} PROVE FALSE
  <2>1. PICK t \in Odd : \A r \in SUBSET t : r # t => r \notin Odd
    <3>1. Odd \in SUBSET SUBSET S
      OBVIOUS
    <3> HIDE DEF Odd
    <3> QED  BY <1>2, <3>1, SmallestExists
  <2>2. t # {} /\ t \in SUBSET S /\ t \in SUBSET T /\ g[t] # h[t]
    BY <1>1, <2>1
  <2>3. Chosen(t) \in t /\ w[Chosen(t)] = v[Chosen(t)]
    BY <2>1, <2>2 DEF Chosen
  <2>4. g[t \ {Chosen(t)}] = h[t \ {Chosen(t)}]
    BY <2>1, <2>2, <2>3
  <2> QED  BY <1>1, <2>2, <2>3, <2>4
<1> QED  BY <1>2

(* The weights of the members of a set, as they are summed up.             *)
Total(w, S) == MapThenSumSet(LAMBDA x : w[x], S)

(* The fold of a total is such a sum.                                      *)
LEMMA TotalIsSum ==
  ASSUME NEW S, IsFiniteSet(S), NEW w
  PROVE  \E g : Sums(g, w, S) /\ Total(w, S) = g[S]
<1> DEFINE Unfold(f) == [s \in SUBSET S |->
                           IF s = {} THEN 0
                           ELSE w[CHOOSE x \in s : TRUE] + f[s \ {CHOOSE x \in s : TRUE}]]
           iter == CHOOSE f : f = Unfold(f)
<1>1. Total(w, S) = iter[S]
  BY Zenon DEF Total, MapThenSumSet, MapThenFoldSet
<1>2. PICK g : Sums(g, w, S)
  BY SumsExist
<1>3. ASSUME NEW f
      PROVE  Sums(f, w, S) <=> f = Unfold(f)
  BY DEF Sums, SumsOn, Chosen
<1> HIDE DEF Unfold
<1>4. g = Unfold(g)
  BY <1>2, <1>3
<1>5. iter = Unfold(iter)
  BY <1>4, Zenon
<1> HIDE DEF iter
<1>6. Sums(iter, w, S)
  BY <1>3, <1>5
<1> QED  BY <1>1, <1>6

(* A total of numbers is a number, is the same for weights that are the    *)
(* same, and grows by the weight of what joins the set.                    *)
LEMMA TotalsAdd ==
  ASSUME NEW S, IsFiniteSet(S), NEW w, \A x \in S : w[x] \in Nat
  PROVE  /\ Total(w, S) \in Nat
         /\ Total(w, {}) = 0
         /\ \A v : (\A x \in S : v[x] = w[x]) => Total(v, S) = Total(w, S)
         /\ \A x \in S : Total(w, S) = w[x] + Total(w, S \ {x})
<1>1. PICK g : Sums(g, w, S) /\ Total(w, S) = g[S]
  BY TotalIsSum
<1>2. Total(w, S) \in Nat
  <2>1. g \in [SUBSET S -> Nat]
    BY <1>1, SumsTyped
  <2> QED  BY <1>1, <2>1
<1>3. Total(w, {}) = 0
  <2>1. IsFiniteSet({})
    BY FS_EmptySet
  <2>2. PICK h : Sums(h, w, {}) /\ Total(w, {}) = h[{}]
    BY <2>1, TotalIsSum
  <2> QED  BY <2>2 DEF Sums, SumsOn
<1>4. ASSUME NEW v, \A x \in S : v[x] = w[x]
      PROVE  Total(v, S) = Total(w, S)
  <2>1. PICK h : Sums(h, v, S) /\ Total(v, S) = h[S]
    BY TotalIsSum
  <2>2. S \in SUBSET S /\ S \subseteq S
    OBVIOUS
  <2>3. h[S] = g[S]
    BY <1>1, <1>4, <2>1, <2>2, SumsAgree
  <2> QED  BY <1>1, <2>1, <2>3
<1>5. ASSUME NEW x \in S
      PROVE  Total(w, S) = w[x] + Total(w, S \ {x})
  <2>1. PICK R : R = S \ {x}
    OBVIOUS
  <2>2. R \in SUBSET S /\ R \subseteq R /\ R \in SUBSET R /\ S \in SUBSET S
    BY <2>1
  <2>3. IsFiniteSet(R)
    BY <2>2, FS_Subset
  <2>4. PICK h : Sums(h, w, R) /\ Total(w, R) = h[R]
    BY <2>3, TotalIsSum
  <2>5. h[R] = g[R]
    BY <1>1, <2>2, <2>3, <2>4, SumsAgree
  <2>6. g[S] = w[x] + g[R]
    BY <1>1, <2>1, <2>2, SumsSplit
  <2> QED  BY <1>1, <2>1, <2>4, <2>5, <2>6
<1> QED  BY <1>2, <1>3, <1>4, <1>5

-----------------------------------------------------------------------------
(* What is kept of a fetch, and what is not, of one that came to nothing.  *)
Kept(d) == [provenanceId |-> request[d].task, invocationId |-> d] \in artifacts
Untouched(d) == Stores(d) = {} /\ charged[d] = 0
Paid(d) == charged[d] = page[d].outcome.tokensUsed
EndedWith(d, event) == page[d].state = "ended" /\ page[d].outcome.eventType = event

(* Fetches arrive one after the other.                                     *)
ArriveInOrder ==
  /\ IsFiniteSet({d \in Executions : pc[d] # "idle"})
  /\ \A d \in Executions : pc[d] = "idle" <=> request[d] = NoRequest
  /\ \A d \in Executions : pc[d] # "idle" => request[d] \in Request /\ request[d].startedAt \leq now
  /\ \A d, e \in Executions :
       e < d /\ pc[d] # "idle" => pc[e] # "idle" /\ request[e].startedAt \leq request[d].startedAt

(* Where a fetch is, its start is on the trail, its page has ended and its *)
(* writes are made.                                                        *)
FetchIs(d) ==
  /\ pc[d] = "idle" => (\A i \in DOMAIN trail : trail[i].call # d) /\ Untouched(d)
  /\ pc[d] = "executing" => Started(d) /\ page[d].state # "idle" /\ Untouched(d)
  /\ pc[d] = "stored" =>
       Started(d) /\ wired /\ EndedWith(d, "tool.finished") /\ Kept(d) /\ charged[d] = 0
  /\ pc[d] = "charged" =>
       Started(d) /\ wired /\ EndedWith(d, "tool.finished") /\ Kept(d) /\ Paid(d)
  /\ pc[d] = "done" => Has(d, EventType \ {"tool.started"})

(* A record is of a fetch, and of what was done of it.                     *)
IsOfFetch(r) ==
  /\ r.call \in Executions /\ pc[r.call] # "idle"
  /\ r.sessionId = request[r.call].session /\ r.taskId = request[r.call].task
  /\ r.startedAt = request[r.call].startedAt
  /\ r.principalId = PrincipalOf[r.sessionId] /\ r.toolName = tool
  /\ r.eventType \in EventType
  /\ r.eventType # "tool.started" => pc[r.call] = "done"
  /\ r.eventType = "tool.denied" => r.policyDecision = None
  /\ r.eventType = "policy.denied" => r.policyDecision # None
  /\ r.eventType \in WorkerEvent => Started(r.call) /\ EndedWith(r.call, r.eventType)
  /\ r.eventType = "tool.finished" /\ wired => Kept(r.call) /\ Paid(r.call)
  /\ r.eventType # "tool.started" /\ ~(r.eventType = "tool.finished" /\ wired) =>
       Untouched(r.call)
  /\ r.budgetRemaining # None =>
       r.budgetRemaining \in Nat /\ budget[r.sessionId] \leq r.budgetRemaining

(* A fetch has one record, or its start and then its end.                  *)
StartThenEnd ==
  \A i, j \in DOMAIN trail :
    i < j /\ trail[i].call = trail[j].call =>
      trail[i].eventType = "tool.started" /\ trail[j].eventType \in WorkerEvent

(* The budget is what the charges have left of it.                         *)
BudgetIsLeft == \A s \in Sessions : budget[s] = Less(InitialBudget, Spent(s))

IInv ==
  /\ TypeOK
  /\ OnlyAllowedHostsContacted
  /\ \E S : trail \in Seq(S)
  /\ ArriveInOrder
  /\ \A d \in Executions : FetchIs(d)
  /\ \A i \in DOMAIN trail : IsOfFetch(trail[i])
  /\ StartThenEnd
  /\ BudgetIsLeft
-----------------------------------------------------------------------------
(* What DOMAIN says of a trail.                                            *)
LEMMA TrailIsSequence == IInv => \E n \in Nat : DOMAIN trail = 1..n
<1> SUFFICES ASSUME IInv PROVE \E n \in Nat : DOMAIN trail = 1..n
  OBVIOUS
<1>1. PICK S : trail \in Seq(S)
  BY DEF IInv
<1>2. Len(trail) \in Nat /\ DOMAIN trail = 1..Len(trail)
  BY <1>1
<1> QED  BY <1>2

(* The records of a session can be listed by when their calls started.     *)
LEMMA SessionCanBeListed ==
  IInv => \A s : CanBeListed(OfSession(trail, s), Starts(trail))
<1> SUFFICES ASSUME IInv, NEW s PROVE CanBeListed(OfSession(trail, s), Starts(trail))
  OBVIOUS
<1>1. PICK n \in Nat : DOMAIN trail = 1..n
  BY TrailIsSequence
<1>2. PICK S : S = OfSession(trail, s)
  OBVIOUS
<1>3. S \in SUBSET (1..n)
  BY <1>1, <1>2 DEF OfSession
<1>4. IsFiniteSet(1..n)
  BY FS_Interval
<1>5. IsFiniteSet(S)
  BY <1>3, <1>4, FS_Subset
<1>6. \A i \in S : Starts(trail)[i] \in Int
  <2> TAKE i \in S
  <2>1. i \in DOMAIN trail /\ Starts(trail)[i] = trail[i].startedAt
    BY <1>1, <1>3 DEF Starts
  <2>2. request[trail[i].call] \in Request
        /\ trail[i].startedAt = request[trail[i].call].startedAt
    BY <2>1 DEF IInv, IsOfFetch, ArriveInOrder
  <2>3. 0..MaxTime \subseteq Int
    BY DocFetchAssumption DEF DocFetchAssumption
  <2> QED  BY <2>1, <2>2, <2>3 DEF Request
<1> QED  BY <1>2, <1>3, <1>5, <1>6 DEF CanBeListed

(* What an operator reads of a session: a sequence of its records, each    *)
(* once, by when their calls started.                                      *)
LEMMA SessionIsRead ==
  ASSUME IInv, NEW s, NEW rows, rows = QueryBySession(trail, s)
  PROVE  /\ \E n \in Nat : DOMAIN rows = 1..n
         /\ \A k \in DOMAIN rows : \E i \in DOMAIN trail :
              rows[k] = trail[i] /\ trail[i].sessionId = s
         /\ \A i \in DOMAIN trail : trail[i].sessionId = s =>
              \E k \in DOMAIN rows : rows[k] = trail[i]
<1>1. PICK S : S = OfSession(trail, s)
  OBVIOUS
<1>2. rows = Listed(trail, S, Starts(trail)) /\ CanBeListed(S, Starts(trail))
  BY <1>1, SessionCanBeListed DEF QueryBySession
<1>3. \A i : i \in S <=> i \in DOMAIN trail /\ trail[i].sessionId = s
  BY <1>1 DEF OfSession
<1>4. /\ \E n \in Nat : DOMAIN rows = 1..n
      /\ \A k \in DOMAIN rows : \E i \in S : rows[k] = trail[i]
      /\ \A i \in S : \E k \in DOMAIN rows : rows[k] = trail[i]
  BY <1>2, ListingHasRows
<1> QED  BY <1>3, <1>4

(* What comparing two sessions says is right.                              *)
LEMMA DiffIsRight == IInv => DiffTellsOutcomes
<1> SUFFICES ASSUME IInv PROVE DiffTellsOutcomes
  OBVIOUS
<1> DEFINE Right(there, back, a, b, keys) ==
      /\ \A k \in keys : ListsKey(there, a, b, k) <=> Track(a, k) # Track(b, k)
      /\ there.onlyInA = back.onlyInB /\ there.onlyInB = back.onlyInA
      /\ there.changed = {<<p[2], p[1]>> : p \in back.changed}
<1>1. ASSUME NEW s \in Sessions, NEW q \in Sessions,
             NEW a, a = QueryBySession(trail, s), NEW b, b = QueryBySession(trail, q),
             NEW keys, keys = {DiffKey(trail[i]) : i \in DOMAIN trail},
             NEW there, there = DiffReplayPacks(a, b), NEW back, back = DiffReplayPacks(b, a)
      PROVE  Right(there, back, a, b, keys)
  <2>1. PICK n \in Nat : DOMAIN a = 1..n
    BY <1>1, SessionIsRead
  <2>2. PICK m \in Nat : DOMAIN b = 1..m
    BY <1>1, SessionIsRead
  <2>5. /\ there.onlyInA = Alone(a, b) /\ there.onlyInB = Alone(b, a)
        /\ there.changed = Differ(a, b)
    BY <1>1, <2>1, <2>2, DiffIsByPairs
  <2>6. /\ back.onlyInA = Alone(b, a) /\ back.onlyInB = Alone(a, b)
        /\ back.changed = Differ(b, a)
    BY <1>1, <2>1, <2>2, DiffIsByPairs
  <2>7. \A k \in keys : ListsKey(there, a, b, k) <=> Track(a, k) # Track(b, k)
    <3> TAKE k \in keys
    <3>1. NothingOfKey(a, b, k) <=> Track(a, k) = Track(b, k)
      BY <2>1, <2>2, TracksAreByPairs
    <3> QED  BY <2>5, <3>1 DEF NothingOfKey, ListsKey
  <2>8. Differ(a, b) = {<<p[2], p[1]>> : p \in Differ(b, a)}
    <3>1. \A i, j : <<i, j>> \in Differ(a, b) <=> <<j, i>> \in Differ(b, a)
      <4> TAKE i, j
      <4>1. Pair(a, b, i, j) <=> Pair(b, a, j, i)
        BY <2>1, <2>2, PairsAreUnique
      <4>2. <<i, j>> \in Differ(a, b) <=> Pair(a, b, i, j) /\ Compared(a[i]) # Compared(b[j])
        BY DifferHasPairs
      <4>3. <<j, i>> \in Differ(b, a) <=> Pair(b, a, j, i) /\ Compared(b[j]) # Compared(a[i])
        BY DifferHasPairs
      <4> QED  BY <4>1, <4>2, <4>3
    <3>2. /\ \A p \in Differ(a, b) : p = <<p[1], p[2]>>
          /\ \A p \in Differ(b, a) : p = <<p[1], p[2]>>
      BY DifferHasPairs
    <3>3. ASSUME NEW p \in Differ(a, b) PROVE \E r \in Differ(b, a) : p = <<r[2], r[1]>>
      <4>1. <<p[2], p[1]>> \in Differ(b, a)
        BY <3>1, <3>2
      <4>2. p = <<<<p[2], p[1]>>[2], <<p[2], p[1]>>[1]>>
        BY <3>2
      <4> QED  BY <4>1, <4>2
    <3>4. ASSUME NEW r \in Differ(b, a) PROVE <<r[2], r[1]>> \in Differ(a, b)
      BY <3>1, <3>2
    <3> QED  BY <3>3, <3>4
  <2> QED  BY <2>5, <2>6, <2>7, <2>8
<1> HIDE DEF Right
<1>2. \A s, q \in Sessions :
        Right(DiffReplayPacks(QueryBySession(trail, s), QueryBySession(trail, q)),
              DiffReplayPacks(QueryBySession(trail, q), QueryBySession(trail, s)),
              QueryBySession(trail, s), QueryBySession(trail, q),
              {DiffKey(trail[i]) : i \in DOMAIN trail})
  BY <1>1, Zenon
<1> QED  BY <1>2, Zenon DEF DiffTellsOutcomes, Right

(* What is read by when calls started is read call by call.                *)
LEMMA OrderIsRight == IInv => ReplayFollowsStartOrder
<1> SUFFICES ASSUME IInv, NEW s \in Sessions,
                    \A d, e \in FetchesOf(s) :
                      d # e => request[d].startedAt # request[e].startedAt
             PROVE  ValidateReplaySequence(QueryBySession(trail, s),
                      Listed(trail, OfSession(trail, s),
                             [i \in DOMAIN trail |-> trail[i].call])) = {}
  BY DEF ReplayFollowsStartOrder
<1>1. PICK S : S = OfSession(trail, s)
  OBVIOUS
<1>2. PICK calls : calls = [i \in DOMAIN trail |-> trail[i].call]
  OBVIOUS
<1>3. PICK starts : starts = Starts(trail)
  OBVIOUS
<1>4. ASSUME NEW i \in S
      PROVE  /\ calls[i] = trail[i].call /\ starts[i] = request[calls[i]].startedAt
             /\ calls[i] \in FetchesOf(s) /\ pc[calls[i]] # "idle"
  <2>1. i \in DOMAIN trail /\ trail[i].sessionId = s
    BY <1>1 DEF OfSession
  <2>2. IsOfFetch(trail[i]) /\ calls[i] = trail[i].call /\ starts[i] = trail[i].startedAt
    BY <1>2, <1>3, <2>1 DEF IInv, Starts
  <2> QED  BY <2>1, <2>2 DEF IsOfFetch, FetchesOf, IInv, ArriveInOrder
<1>5. \A d, e \in Executions :
        /\ d \in Nat
        /\ pc[d] # "idle" => request[d].startedAt \in Nat
        /\ e < d /\ pc[d] # "idle" => request[e].startedAt \leq request[d].startedAt
  <2> TAKE d, e \in Executions
  <2>1. d \in Nat /\ MaxTime \in Nat
    BY DocFetchAssumption DEF DocFetchAssumption
  <2>2. pc[d] # "idle" => request[d].startedAt \in Nat
    <3>1. pc[d] # "idle" => request[d] \in Request
      BY DEF IInv, ArriveInOrder
    <3> QED  BY <2>1, <3>1 DEF Request
  <2>3. e < d /\ pc[d] # "idle" => request[e].startedAt \leq request[d].startedAt
    BY DEF IInv, ArriveInOrder
  <2> QED  BY <2>1, <2>2, <2>3
<1>6. ASSUME NEW i \in S, NEW j \in S
      PROVE  ComesBefore(starts, i, j) <=> ComesBefore(calls, i, j)
  <2>1. PICK d, e \in Executions : d = calls[i] /\ e = calls[j]
    BY <1>4 DEF FetchesOf
  <2>2. /\ starts[i] = request[d].startedAt /\ starts[j] = request[e].startedAt
        /\ d # e => request[d].startedAt # request[e].startedAt
        /\ pc[d] # "idle" /\ pc[e] # "idle"
    BY <1>4, <2>1
  <2>3. CASE d = e
    BY <1>5, <2>1, <2>2, <2>3 DEF ComesBefore
  <2>4. CASE d < e
    BY <1>5, <2>1, <2>2, <2>4 DEF ComesBefore
  <2>5. CASE e < d
    BY <1>5, <2>1, <2>2, <2>5 DEF ComesBefore
  <2> QED  BY <1>5, <2>3, <2>4, <2>5
<1>7. Listed(trail, S, starts) = Listed(trail, S, calls)
  BY <1>6, OrderLists
<1>8. \A rows : ValidateReplaySequence(rows, rows) = {}
  BY DEF ValidateReplaySequence
<1> QED  BY <1>1, <1>2, <1>3, <1>7, <1>8 DEF QueryBySession

(* What the trail says was done.                                           *)
LEMMA RecordsAreRight == IInv => RecordedMeansDone
<1> SUFFICES ASSUME IInv
             PROVE  RecordedMeansDone
  OBVIOUS
<1>1. ASSUME NEW s \in Sessions, NEW pack, pack = BuildReplayPack(trail, artifacts, s)
      PROVE  /\ budget[s] = Less(InitialBudget, Spent(s))
             /\ pack.lastKnownBudgetRemaining # None => pack.lastKnownBudgetRemaining \geq budget[s]
             /\ ValidateExportBundle(pack) = {}
             /\ \A i \in DOMAIN pack.auditRecords :
                  LET r == pack.auditRecords[i]
                  IN  IF r.eventType = "tool.finished" /\ wired
                      THEN /\ \E a \in pack.artifacts : a.invocationId = r.call
                           /\ charged[r.call] = page[r.call].outcome.tokensUsed
                      ELSE r.eventType # "tool.started" => Stores(r.call) = {} /\ charged[r.call] = 0
  <2>1. PICK rows : rows = QueryBySession(trail, s)
    OBVIOUS
  <2>2. PICK n \in Nat : DOMAIN rows = 1..n
    BY <2>1, SessionIsRead
  <2>3. \A k \in DOMAIN rows : \E i \in DOMAIN trail : rows[k] = trail[i] /\ trail[i].sessionId = s
    BY <2>1, SessionIsRead
  <2>4. \A k \in DOMAIN rows : IsOfFetch(rows[k]) /\ rows[k].sessionId = s
    BY <2>3 DEF IInv
  <2>5. PICK budgets : budgets = {k \in DOMAIN rows : rows[k].budgetRemaining # None}
    OBVIOUS
  <2>6. PICK taskIds : taskIds = {rows[i].taskId : i \in DOMAIN rows} \ {None}
    OBVIOUS
  <2>7. /\ pack.auditRecords = rows
        /\ pack.artifacts = {a \in artifacts : a.provenanceId \in taskIds}
        /\ pack.lastKnownBudgetRemaining =
             IF budgets = {} THEN None
             ELSE rows[CHOOSE i \in budgets : \A j \in budgets : j \leq i].budgetRemaining
    BY <1>1, <2>1, <2>5, <2>6 DEF BuildReplayPack
  <2>8. ASSUME pack.lastKnownBudgetRemaining # None
        PROVE  pack.lastKnownBudgetRemaining \geq budget[s]
    <3>1. budgets # {}
      BY <2>7, <2>8
    <3>2. budgets \in SUBSET (1..n) /\ \A k \in budgets : k \in Nat
      BY <2>2, <2>5
    <3>3. \E k \in budgets : \A j \in budgets : j \leq k
      BY <3>1, <3>2, LastExists
    <3>4. PICK k \in budgets : pack.lastKnownBudgetRemaining = rows[k].budgetRemaining
      BY <2>7, <3>1, <3>3
    <3>5. rows[k].budgetRemaining \in Nat /\ budget[s] \leq rows[k].budgetRemaining
      BY <2>4, <2>5, <3>4 DEF IsOfFetch
    <3>6. budget[s] \in Nat
      BY DEF IInv, TypeOK
    <3> QED  BY <3>4, <3>5, <3>6
  <2>9. ValidateExportBundle(pack) = {}
    BY <2>6, <2>7 DEF ValidateExportBundle
  <2>10. ASSUME NEW k \in DOMAIN rows, rows[k].eventType = "tool.finished", wired
         PROVE  /\ \E a \in pack.artifacts : a.invocationId = rows[k].call
                /\ charged[rows[k].call] = page[rows[k].call].outcome.tokensUsed
    <3>1. PICK d \in Executions : d = rows[k].call
      BY <2>4 DEF IsOfFetch
    <3>2. Kept(d) /\ Paid(d) /\ rows[k].taskId = request[d].task /\ request[d] \in Request
      BY <2>4, <2>10, <3>1 DEF IsOfFetch, IInv, ArriveInOrder
    <3>3. request[d].task \in taskIds
      <4>1. request[d].task # None
        BY <3>2, DocFetchAssumption DEF DocFetchAssumption, Request
      <4> QED  BY <2>6, <3>2, <4>1
    <3>4. PICK a \in artifacts : a = [provenanceId |-> request[d].task, invocationId |-> d]
      BY <3>2 DEF Kept
    <3>5. a \in pack.artifacts /\ a.invocationId = d
      BY <2>7, <3>3, <3>4
    <3> QED  BY <3>1, <3>2, <3>5 DEF Paid
  <2>11. ASSUME NEW k \in DOMAIN rows, rows[k].eventType # "tool.started",
                ~(rows[k].eventType = "tool.finished" /\ wired)
         PROVE  Stores(rows[k].call) = {} /\ charged[rows[k].call] = 0
    BY <2>4, <2>11 DEF IsOfFetch, Untouched
  <2> QED  BY <2>7, <2>8, <2>9, <2>10, <2>11 DEF IInv, BudgetIsLeft
<1>2. ASSUME NEW d \in Executions, Stores(d) # {} \/ charged[d] > 0, pc[d] = "done"
      PROVE  Has(d, {"tool.finished"})
  <2>1. PICK i \in DOMAIN trail : trail[i].call = d /\ trail[i].eventType # "tool.started"
    BY <1>2 DEF IInv, FetchIs, Has
  <2>2. IsOfFetch(trail[i]) /\ charged[d] \in Nat
    BY DEF IInv, TypeOK
  <2>3. ~Untouched(d)
    BY <1>2, <2>2 DEF Untouched
  <2> QED  BY <2>1, <2>2, <2>3 DEF IsOfFetch, Has
<1> QED  BY <1>1, <1>2 DEF RecordedMeansDone

-----------------------------------------------------------------------------
(* What the default rules say of a request is a decision.                  *)
LEMMA DecisionIsDecision ==
  ASSUME NEW req
  PROVE  Decision(req) \in PolicyDecision
<1> DEFINE list == DEFAULT_POLICY_RULES
           ctx == Context(req.session, req.url)
           Matching == {i \in DOMAIN list : MatchesRule(list[i], ctx)}
<1>1. /\ DOMAIN list = 1..12
      /\ \A i \in 1..12 : /\ list[i].effect \in PolicyMode
                          /\ list[i].allowedRuntimeTarget \in RuntimeTarget \cup {NoTarget}
                          /\ list[i].auditRequired \in BOOLEAN
  <2> DEFINE IsRule(r) == /\ r.effect \in PolicyMode
                          /\ r.allowedRuntimeTarget \in RuntimeTarget \cup {NoTarget}
                          /\ r.auditRequired \in BOOLEAN
  <2>1. \A match : \A effect \in PolicyMode : \A target \in RuntimeTarget \cup {NoTarget} :
          \A audit \in BOOLEAN : IsRule(Rule(match, effect, target, audit))
    BY DEF Rule
  <2>2. /\ {"allow", "deny", "host_elevated_only", "allow_with_approval", "sandbox_only"}
             \subseteq PolicyMode
        /\ {NoTarget, "sandbox", "browser_worker", "host_elevated"}
             \subseteq RuntimeTarget \cup {NoTarget}
    BY DEF PolicyMode, RuntimeTarget
  <2> HIDE DEF IsRule
  <2>3. IsRule(list[1]) /\ IsRule(list[2]) /\ IsRule(list[3]) /\ IsRule(list[4])
    BY <2>1, <2>2 DEF DEFAULT_POLICY_RULES
  <2>4. IsRule(list[5]) /\ IsRule(list[6]) /\ IsRule(list[7]) /\ IsRule(list[8])
    BY <2>1, <2>2 DEF DEFAULT_POLICY_RULES
  <2>5. IsRule(list[9]) /\ IsRule(list[10]) /\ IsRule(list[11]) /\ IsRule(list[12])
    BY <2>1, <2>2 DEF DEFAULT_POLICY_RULES
  <2>6. DOMAIN list = 1..12
    BY DEF DEFAULT_POLICY_RULES
  <2> HIDE DEF list
  <2>7. \A i \in 1..12 : i = 1 \/ i = 2 \/ i = 3 \/ i = 4 \/ i = 5 \/ i = 6
                         \/ i = 7 \/ i = 8 \/ i = 9 \/ i = 10 \/ i = 11 \/ i = 12
    OBVIOUS
  <2>8. \A i \in 1..12 : IsRule(list[i])
    BY <2>3, <2>4, <2>5, <2>7
  <2> QED  BY <2>6, <2>8 DEF IsRule
<1>2. Decision(req) = Evaluate(list, ctx)
  BY DEF Decision
<1> HIDE DEF list, ctx
<1>3. CASE Matching # {}
  <2>1. Matching \in SUBSET Nat
    BY <1>1
  <2>2. PICK least \in Matching : \A j \in Matching : least \leq j
    <3> HIDE DEF Matching
    <3> QED  BY <1>3, <2>1, LeastExists
  <2>3. \A j \in 1..least-1 : ~MatchesRule(list[j], ctx)
    BY <1>1, <2>2
  <2>4. least \in DOMAIN list /\ IsFirstMatch(list, ctx, least)
    BY <2>2, <2>3 DEF IsFirstMatch
  <2>5. PICK first \in DOMAIN list : first = CHOOSE i \in DOMAIN list : IsFirstMatch(list, ctx, i)
    BY <2>4
  <2>6. Evaluate(list, ctx) = BuildDecision(list[first], ctx)
    BY <1>3, <2>5 DEF Evaluate
  <2>7. BuildDecision(list[first], ctx) \in PolicyDecision
    BY <1>1 DEF BuildDecision, PolicyDecision, PolicyMode
  <2> QED  BY <1>2, <2>6, <2>7
<1>4. CASE Matching = {}
  <2>1. Evaluate(list, ctx) = DefaultDeny
    BY <1>4 DEF Evaluate
  <2> QED  BY <1>2, <2>1 DEF DefaultDeny, PolicyDecision, PolicyMode
<1> QED  BY <1>3, <1>4

-----------------------------------------------------------------------------
(* What any step leaves of what was there.                                 *)
GoesForward ==
  /\ wired' = wired
  /\ \A d \in Executions : pc[d] # "idle" => pc'[d] # "idle" /\ request'[d] = request[d]
  /\ \A d \in Executions : pc[d] = "done" =>
       pc'[d] = "done" /\ page'[d] = page[d] /\ charged'[d] = charged[d] /\ Stores(d)' = Stores(d)
  /\ \A s \in Sessions : budget'[s] \leq budget[s]
  /\ artifacts \subseteq artifacts'
  /\ \A i \in DOMAIN trail : i \in DOMAIN trail' /\ trail'[i] = trail[i]

(* What is on the trail stays there.                                       *)
LEMMA RecordsStay ==
  ASSUME IInv, TypeOK', GoesForward, NEW i \in DOMAIN trail
  PROVE  IsOfFetch(trail[i])'
<1>1. PICK r : r = trail[i] /\ r = trail'[i]
  BY DEF GoesForward
<1>2. IsOfFetch(r)
  BY <1>1 DEF IInv
<1>3. PICK d \in Executions : d = r.call
  BY <1>2 DEF IsOfFetch
<1>4. /\ pc[d] # "idle" /\ pc'[d] # "idle" /\ request'[d] = request[d]
      /\ request[d] \in Request /\ r.sessionId \in Sessions
  BY <1>2, <1>3 DEF IsOfFetch, GoesForward, IInv, ArriveInOrder, Request
<1>5. Has(d, {"tool.started"}) => Has(d, {"tool.started"})'
  BY DEF Has, GoesForward
<1>6. r.eventType # "tool.started" =>
        /\ pc[d] = "done" /\ pc'[d] = "done" /\ page'[d] = page[d]
        /\ charged'[d] = charged[d] /\ Stores(d)' = Stores(d)
  BY <1>2, <1>3 DEF IsOfFetch, GoesForward
<1>7. Kept(d) => Kept(d)'
  BY <1>4 DEF Kept, GoesForward
<1>8. r.eventType \in WorkerEvent => r.eventType # "tool.started"
  BY DEF WorkerEvent
<1>9. r.budgetRemaining # None =>
        r.budgetRemaining \in Nat /\ budget'[r.sessionId] \leq r.budgetRemaining
  <2>1. budget[r.sessionId] \in Nat /\ budget'[r.sessionId] \in Nat
        /\ budget'[r.sessionId] \leq budget[r.sessionId]
    BY <1>4 DEF IInv, TypeOK, GoesForward
  <2> QED  BY <1>2, <2>1 DEF IsOfFetch
<1>10. wired' = wired
  BY DEF GoesForward
<1>11. r.eventType \in WorkerEvent => Started(d)' /\ EndedWith(d, r.eventType)'
  BY <1>2, <1>3, <1>5, <1>6, <1>8 DEF IsOfFetch, Started, EndedWith
<1>12. r.eventType = "tool.finished" /\ wired' => Kept(d)' /\ Paid(d)'
  BY <1>2, <1>3, <1>6, <1>7, <1>10 DEF IsOfFetch, Paid
<1>13. r.eventType # "tool.started" /\ ~(r.eventType = "tool.finished" /\ wired') => Untouched(d)'
  BY <1>2, <1>3, <1>6, <1>10 DEF IsOfFetch, Untouched
<1>14. /\ r.sessionId = request'[d].session /\ r.taskId = request'[d].task
       /\ r.startedAt = request'[d].startedAt
       /\ r.principalId = PrincipalOf[r.sessionId] /\ r.toolName = tool
       /\ r.eventType \in EventType
       /\ r.eventType = "tool.denied" => r.policyDecision = None
       /\ r.eventType = "policy.denied" => r.policyDecision # None
  BY <1>2, <1>3, <1>4 DEF IsOfFetch
<1> QED  BY <1>1, <1>3, <1>4, <1>6, <1>9, <1>11, <1>12, <1>13, <1>14 DEF IsOfFetch

(* A fetch that a step leaves alone is where it was.                       *)
LEMMA FetchStays ==
  ASSUME IInv, GoesForward, NEW d \in Executions,
         pc'[d] = pc[d], page'[d] = page[d], charged'[d] = charged[d], Stores(d)' = Stores(d),
         \A i \in DOMAIN trail' : i \in DOMAIN trail \/ trail'[i].call # d
  PROVE  FetchIs(d)'
<1>1. FetchIs(d)
  BY DEF IInv
<1>2. \A events : Has(d, events) => Has(d, events)'
  BY DEF Has, GoesForward
<1>3. (\A i \in DOMAIN trail : trail[i].call # d) => (\A i \in DOMAIN trail' : trail'[i].call # d)
  BY DEF GoesForward
<1>4. Kept(d) /\ pc[d] # "idle" => Kept(d)'
  BY DEF Kept, GoesForward
<1>5. wired' = wired
  BY DEF GoesForward
<1>6. Started(d) => Started(d)'
  BY <1>2 DEF Started
<1>7. Untouched(d) => Untouched(d)'
  BY DEF Untouched
<1>8. /\ pc[d] = "idle" => (\A i \in DOMAIN trail' : trail'[i].call # d) /\ Untouched(d)'
      /\ pc[d] = "executing" => Started(d)' /\ page'[d].state # "idle" /\ Untouched(d)'
      /\ pc[d] = "stored" =>
           Started(d)' /\ wired' /\ EndedWith(d, "tool.finished")' /\ Kept(d)' /\ charged'[d] = 0
      /\ pc[d] = "charged" =>
           Started(d)' /\ wired' /\ EndedWith(d, "tool.finished")' /\ Kept(d)' /\ Paid(d)'
      /\ pc[d] = "done" => Has(d, EventType \ {"tool.started"})'
  BY <1>1, <1>2, <1>3, <1>4, <1>5, <1>6, <1>7 DEF FetchIs, EndedWith, Paid
<1> QED  BY <1>8 DEF FetchIs

(* The trail is as it was, or has one record more.                         *)
TrailStays == trail' = trail
TrailGets(r) == trail' = Append(trail, r)

(* What a record more does to it.                                          *)
LEMMA AppendedRecord ==
  ASSUME IInv, NEW r, TrailGets(r)
  PROVE  /\ \E S : trail' \in Seq(S)
         /\ \E n \in Nat : /\ DOMAIN trail = 1..n /\ DOMAIN trail' = 1..n+1
                           /\ trail'[n + 1] = r /\ \A i \in 1..n : trail'[i] = trail[i]
<1>1. PICK S : trail \in Seq(S)
  BY DEF IInv
<1>2. trail \in Seq(S \cup {r}) /\ r \in S \cup {r}
  BY <1>1
<1>3. trail' \in Seq(S \cup {r})
  BY <1>2 DEF TrailGets
<1>4. PICK n \in Nat : n = Len(trail) /\ DOMAIN trail = 1..n
  BY <1>1
<1>5. DOMAIN trail' = 1..n+1 /\ trail'[n + 1] = r /\ \A i \in 1..n : trail'[i] = trail[i]
  BY <1>1, <1>4 DEF TrailGets
<1> QED  BY <1>3, <1>4, <1>5

(* Once a fetch has its start only, it may get its end; one that has no    *)
(* record yet may get any.                                                 *)
LEMMA OnceMore ==
  ASSUME IInv, NEW r, TrailGets(r),
         \A i \in DOMAIN trail : trail[i].call = r.call =>
           trail[i].eventType = "tool.started" /\ r.eventType \in WorkerEvent
  PROVE  StartThenEnd'
<1>1. PICK n \in Nat : /\ DOMAIN trail = 1..n /\ DOMAIN trail' = 1..n+1
                       /\ trail'[n + 1] = r /\ \A i \in 1..n : trail'[i] = trail[i]
  BY AppendedRecord
<1>2. SUFFICES ASSUME NEW i \in DOMAIN trail', NEW j \in DOMAIN trail', i < j,
                      trail'[i].call = trail'[j].call
               PROVE  trail'[i].eventType = "tool.started" /\ trail'[j].eventType \in WorkerEvent
  BY DEF StartThenEnd
<1>3. i \in 1..n /\ trail'[i] = trail[i]
  BY <1>1, <1>2
<1>4. CASE j \in 1..n
  <2>1. trail'[j] = trail[j] /\ i \in DOMAIN trail /\ j \in DOMAIN trail /\ StartThenEnd
    BY <1>1, <1>3, <1>4 DEF IInv
  <2> QED  BY <1>2, <1>3, <2>1 DEF StartThenEnd
<1>5. CASE j = n + 1
  <2>1. trail'[j] = r /\ i \in DOMAIN trail
    BY <1>1, <1>3, <1>5
  <2> QED  BY <1>2, <1>3, <2>1
<1> QED  BY <1>1, <1>2, <1>4, <1>5

(* What the invariant says of the trail.                                   *)
TrailIsRight ==
  /\ \E S : trail \in Seq(S)
  /\ \A i \in DOMAIN trail : IsOfFetch(trail[i])
  /\ StartThenEnd

(* A step that writes no record keeps the trail as it has to be,           *)
LEMMA SameTrailIsRight ==
  ASSUME IInv, TypeOK', GoesForward, TrailStays
  PROVE  TrailIsRight'
<1>1. \A i \in DOMAIN trail' : i \in DOMAIN trail
  BY DEF TrailStays
<1>2. \A i \in DOMAIN trail' : IsOfFetch(trail[i])'
  BY <1>1, RecordsStay
<1>3. StartThenEnd'
  BY DEF IInv, StartThenEnd, TrailStays
<1>4. \E S : trail' \in Seq(S)
  BY DEF IInv, TrailStays
<1> QED  BY <1>2, <1>3, <1>4 DEF TrailIsRight

(* and so does one that writes a record that is right.                     *)
LEMMA LongerTrailIsRight ==
  ASSUME IInv, TypeOK', GoesForward, NEW r, TrailGets(r), IsOfFetch(r)',
         \A i \in DOMAIN trail : trail[i].call = r.call =>
           trail[i].eventType = "tool.started" /\ r.eventType \in WorkerEvent
  PROVE  TrailIsRight'
<1>1. PICK n \in Nat : /\ DOMAIN trail = 1..n /\ DOMAIN trail' = 1..n+1
                       /\ trail'[n + 1] = r /\ \A i \in 1..n : trail'[i] = trail[i]
  BY AppendedRecord
<1>2. ASSUME NEW i \in DOMAIN trail'
      PROVE  IsOfFetch(trail[i])'
  <2>1. CASE i \in DOMAIN trail
    BY <2>1, RecordsStay
  <2>2. CASE i \notin DOMAIN trail
    <3>1. trail'[i] = r
      BY <1>1, <1>2, <2>2
    <3> QED  BY <3>1 DEF IsOfFetch
  <2> QED  BY <2>1, <2>2
<1>3. StartThenEnd'
  BY OnceMore
<1>4. \E S : trail' \in Seq(S)
  BY AppendedRecord
<1> QED  BY <1>2, <1>3, <1>4 DEF TrailIsRight

-----------------------------------------------------------------------------
(* What a request is, once it has arrived.                                 *)
LEMMA ArrivalIsRequest ==
  ASSUME TypeOK, NEW d \in Executions, NEW asked \in Asked[d]
  PROVE  /\ At(asked, now) \in Request /\ At(asked, now).startedAt = now
         /\ asked.url = At(asked, now).url
<1>1. asked \in [session : Sessions, task : Tasks, url : Urls]
  BY DocFetchAssumption DEF DocFetchAssumption
<1>2. now \in 0..MaxTime
  BY DEF TypeOK
<1> QED  BY <1>1, <1>2 DEF At, Request

(* A request that has arrived is one.                                      *)
LEMMA RequestIsSome == \A r \in Request : r # NoRequest
<1> SUFFICES ASSUME NEW r \in Request, r = <<>> PROVE FALSE
  BY DEF NoRequest
<1>1. DOMAIN r = {"session", "task", "url", "startedAt"}
  BY DEF Request
<1>2. DOMAIN <<>> = {}
  OBVIOUS
<1> QED  BY <1>1, <1>2

(* A fetch that arrives is the last so far,                                *)
LEMMA ArrivalIsInOrder ==
  ASSUME IInv, NEW d \in Executions, NEW req \in Request, req.startedAt = now,
         Arrives(d, req), NEW w \in Where \ {"idle"}, pc' = [pc EXCEPT ![d] = w], now' = now
  PROVE  ArriveInOrder'
<1>1. /\ \A e \in Executions : pc'[e] = IF e = d THEN w ELSE pc[e]
      /\ \A e \in Executions : request'[e] = IF e = d THEN req ELSE request[e]
      /\ pc[d] = "idle" /\ \A e \in Executions : e < d => pc[e] # "idle"
  BY DEF IInv, TypeOK, Arrives
<1>2. ArriveInOrder /\ now \in Nat
  <2>1. MaxTime \in Nat
    BY DocFetchAssumption DEF DocFetchAssumption
  <2> QED  BY <2>1 DEF IInv, TypeOK
<1>3. IsFiniteSet({e \in Executions : pc'[e] # "idle"})
  <2>1. {e \in Executions : pc'[e] # "idle"} = {e \in Executions : pc[e] # "idle"} \cup {d}
    BY <1>1
  <2>2. IsFiniteSet({e \in Executions : pc[e] # "idle"})
    BY <1>2 DEF ArriveInOrder
  <2>3. PICK before : before = {e \in Executions : pc[e] # "idle"}
    OBVIOUS
  <2>4. IsFiniteSet(before \cup {d})
    <3>1. IsFiniteSet(before)
      BY <2>2, <2>3
    <3> QED  BY <3>1, FS_AddElement
  <2> QED  BY <2>1, <2>3, <2>4
<1>4. ASSUME NEW e \in Executions
      PROVE  pc'[e] = "idle" <=> request'[e] = NoRequest
  <2>1. CASE e = d
    <3>1. pc'[e] # "idle" /\ request'[e] # NoRequest
      BY <1>1, <2>1, RequestIsSome
    <3> QED  BY <3>1
  <2>2. CASE e # d
    BY <1>1, <1>2, <2>2 DEF ArriveInOrder
  <2> QED  BY <2>1, <2>2
<1>5. \A e \in Executions :
        pc'[e] # "idle" => request'[e] \in Request /\ request'[e].startedAt \leq now'
  BY <1>1, <1>2 DEF ArriveInOrder
<1>6. ASSUME NEW f \in Executions, NEW e \in Executions, e < f, pc'[f] # "idle"
      PROVE  pc'[e] # "idle" /\ request'[e].startedAt \leq request'[f].startedAt
  <2>1. e # f
    BY <1>6, DocFetchAssumption DEF DocFetchAssumption
  <2>2. CASE f = d
    BY <1>1, <1>2, <1>6, <2>1, <2>2 DEF ArriveInOrder
  <2>3. CASE f # d
    BY <1>1, <1>2, <1>6, <2>3 DEF ArriveInOrder
  <2> QED  BY <2>2, <2>3
<1> QED  BY <1>3, <1>4, <1>5, <1>6 DEF ArriveInOrder

(* and any other step leaves the order alone.                              *)
LEMMA OrderStays ==
  ASSUME IInv, request' = request, \A d \in Executions : pc'[d] = "idle" <=> pc[d] = "idle",
         now' \in Nat, now \leq now'
  PROVE  ArriveInOrder'
<1>1. {d \in Executions : pc'[d] # "idle"} = {d \in Executions : pc[d] # "idle"}
  OBVIOUS
<1>2. \A d \in Executions : pc[d] # "idle" => request[d] \in Request /\ request[d].startedAt \leq now'
  <2> TAKE d \in Executions
  <2>1. pc[d] # "idle" => request[d] \in Request /\ request[d].startedAt \leq now
    BY DEF IInv, ArriveInOrder
  <2>2. now \in Nat /\ MaxTime \in Nat
    BY DocFetchAssumption DEF DocFetchAssumption, IInv, TypeOK
  <2>3. request[d] \in Request => request[d].startedAt \in Nat
    BY <2>2 DEF Request
  <2> QED  BY <2>1, <2>2, <2>3
<1> QED  BY <1>1, <1>2 DEF IInv, ArriveInOrder

-----------------------------------------------------------------------------
(* There are finitely many fetches to sum up the charges of.               *)
LEMMA FetchesAreFew ==
  ASSUME IInv, NEW s
  PROVE  IsFiniteSet(FetchesOf(s)) /\ FetchesOf(s) \subseteq Executions
<1>1. PICK F : F = FetchesOf(s)
  OBVIOUS
<1>2. PICK A : A = {d \in Executions : pc[d] # "idle"}
  OBVIOUS
<1>3. F \in SUBSET A /\ F \subseteq Executions
  BY <1>1, <1>2 DEF FetchesOf, IInv, ArriveInOrder
<1>4. IsFiniteSet(A)
  BY <1>2 DEF IInv, ArriveInOrder
<1>5. IsFiniteSet(F)
  BY <1>3, <1>4, FS_Subset
<1> QED  BY <1>1, <1>3, <1>5

(* The charges are a total.                                                *)
LEMMA SpentIsTotal == \A s : Spent(s) = Total(charged, FetchesOf(s))
  BY Zenon DEF Spent, Total

(* And so they are after a step.                                           *)
LEMMA SpentWillBeTotal == \A s : Spent(s)' = Total(charged', FetchesOf(s)')
<1>1. (\A s : Spent(s) = Total(charged, FetchesOf(s)))'
  BY SpentIsTotal, PTL
<1> QED  BY <1>1

(* A fetch that arrives costs nothing.                                     *)
LEMMA ArrivalCostsNothing ==
  ASSUME IInv, NEW d \in Executions, NEW req \in Request, Arrives(d, req),
         budget' = budget, charged' = charged
  PROVE  BudgetIsLeft'
<1> SUFFICES ASSUME NEW s \in Sessions PROVE budget'[s] = Less(InitialBudget, Spent(s)')
  BY DEF BudgetIsLeft
<1>1. /\ Spent(s) = Total(charged, FetchesOf(s))
      /\ Spent(s)' = Total(charged, FetchesOf(s)')
  <2>1. Spent(s)' = Total(charged', FetchesOf(s)')
    BY SpentWillBeTotal
  <2> QED  BY <2>1, SpentIsTotal
<1>2. PICK F, G : F = FetchesOf(s) /\ G = FetchesOf(s)'
  OBVIOUS
<1>3. IsFiniteSet(F) /\ F \subseteq Executions
  BY <1>2, FetchesAreFew
<1>4. /\ \A e \in Executions : request'[e] = IF e = d THEN req ELSE request[e]
      /\ pc[d] = "idle" /\ request[d] = NoRequest /\ req # NoRequest
  BY RequestIsSome DEF IInv, TypeOK, Arrives, ArriveInOrder
<1>5. G = IF req.session = s THEN F \cup {d} ELSE F
  BY <1>2, <1>4 DEF FetchesOf
<1>6. charged[d] = 0 /\ d \notin F /\ \A e \in Executions : charged[e] \in Nat
  BY <1>2, <1>4 DEF IInv, FetchIs, Untouched, TypeOK, FetchesOf
<1>7. Total(charged, G) = Total(charged, F)
  <2>1. CASE G = F
    BY <2>1
  <2>2. CASE G = F \cup {d}
    <3>1. IsFiniteSet(G) /\ d \in G /\ G \ {d} = F /\ \A x \in G : charged[x] \in Nat
      BY <1>3, <1>6, <2>2, FS_AddElement
    <3>2. Total(charged, G) = charged[d] + Total(charged, G \ {d})
      BY <3>1, TotalsAdd
    <3>3. Total(charged, F) \in Nat
      BY <1>3, <1>6, TotalsAdd
    <3> QED  BY <1>6, <3>1, <3>2, <3>3
  <2> QED  BY <1>5, <2>1, <2>2
<1>8. budget[s] = Less(InitialBudget, Spent(s))
  BY DEF IInv, BudgetIsLeft
<1> QED  BY <1>1, <1>2, <1>7, <1>8

(* A step that neither charges nor brings a fetch leaves the sums alone.   *)
LEMMA SumsStay ==
  ASSUME IInv, budget' = budget, charged' = charged, request' = request
  PROVE  BudgetIsLeft'
<1> SUFFICES ASSUME NEW s \in Sessions PROVE budget'[s] = Less(InitialBudget, Spent(s)')
  BY DEF BudgetIsLeft
<1>1. FetchesOf(s)' = FetchesOf(s)
  BY DEF FetchesOf
<1>2. Spent(s)' = Total(charged', FetchesOf(s)')
  BY SpentWillBeTotal
<1>3. Spent(s)' = Spent(s)
  BY <1>1, <1>2, SpentIsTotal
<1> QED  BY <1>3 DEF IInv, BudgetIsLeft

(* What is charged is taken from the budget.                               *)
LEMMA ChargeIsTaken ==
  ASSUME IInv, NEW d \in Executions, Charge(d)
  PROVE  BudgetIsLeft'
<1> SUFFICES ASSUME NEW s \in Sessions PROVE budget'[s] = Less(InitialBudget, Spent(s)')
  BY DEF BudgetIsLeft
<1>1. PICK F : F = FetchesOf(s) /\ F = FetchesOf(s)'
  BY DEF FetchesOf, Charge
<1>2. Spent(s) = Total(charged, F) /\ Spent(s)' = Total(charged', F)
  <2>1. Spent(s)' = Total(charged', FetchesOf(s)')
    BY SpentWillBeTotal
  <2> QED  BY <1>1, <2>1, SpentIsTotal
<1>3. IsFiniteSet(F) /\ F \subseteq Executions
  BY <1>1, FetchesAreFew
<1>4. /\ pc[d] = "stored" /\ page[d].state = "ended" /\ charged[d] = 0
      /\ request[d] \in Request /\ request[d] # NoRequest
  BY RequestIsSome DEF Charge, IInv, FetchIs, EndedWith, ArriveInOrder
<1>5. PICK t \in Nat : t = page[d].outcome.tokensUsed
  BY <1>4 DEF IInv, TypeOK, WorkerTypeOK, Outcome
<1>6. /\ \A e \in Executions : charged'[e] = IF e = d THEN t ELSE charged[e]
      /\ budget'[s] = IF request[d].session = s THEN Less(budget[s], t) ELSE budget[s]
      /\ \A e \in Executions : charged[e] \in Nat /\ charged'[e] \in Nat
  BY <1>4, <1>5 DEF Charge, IInv, TypeOK, Request
<1>7. budget[s] = Less(InitialBudget, Spent(s)) /\ InitialBudget \in Nat
  BY DocFetchAssumption DEF DocFetchAssumption, IInv, BudgetIsLeft
<1>8. PICK c : c = charged'
  OBVIOUS
<1>9. CASE request[d].session # s
  <2>1. d \notin F
    BY <1>1, <1>9 DEF FetchesOf
  <2>2. \A x \in F : c[x] = charged[x]
    BY <1>3, <1>6, <1>8, <2>1
  <2>3. Total(c, F) = Total(charged, F)
    BY <1>3, <1>6, <2>2, TotalsAdd
  <2> QED  BY <1>2, <1>6, <1>7, <1>8, <1>9, <2>3
<1>10. CASE request[d].session = s
  <2>1. d \in F
    BY <1>1, <1>4, <1>10 DEF FetchesOf
  <2>2. PICK R : R = F \ {d}
    OBVIOUS
  <2>3. IsFiniteSet(R) /\ R \subseteq Executions
    BY <1>3, <2>2, FS_Subset
  <2>4. Total(charged, F) = charged[d] + Total(charged, R)
    BY <1>3, <1>6, <2>1, <2>2, TotalsAdd
  <2>5. Total(c, F) = c[d] + Total(c, R)
    <3>1. \A x \in F : c[x] \in Nat
      BY <1>3, <1>6, <1>8
    <3> QED  BY <1>3, <2>1, <2>2, <3>1, TotalsAdd
  <2>6. Total(c, R) = Total(charged, R) /\ Total(charged, R) \in Nat
    <3>1. \A x \in R : c[x] = charged[x] /\ charged[x] \in Nat
      BY <1>6, <1>8, <2>2, <2>3
    <3> QED  BY <2>3, <3>1, TotalsAdd
  <2>7. PICK rest \in Nat : rest = Total(charged, R)
    BY <2>6
  <2>8. Spent(s) = rest /\ Spent(s)' = t + rest
    BY <1>2, <1>4, <1>6, <1>8, <2>4, <2>5, <2>6, <2>7
  <2>9. budget[s] = Less(InitialBudget, rest) /\ budget'[s] = Less(budget[s], t)
    BY <1>6, <1>7, <1>10, <2>8
  <2>10. Less(Less(InitialBudget, rest), t) = Less(InitialBudget, t + rest)
    BY <1>7 DEF Less
  <2> QED  BY <2>8, <2>9, <2>10
<1> QED  BY <1>9, <1>10

-----------------------------------------------------------------------------
(* How far an execution can be.                                            *)
Page ==
  [state : {"idle", "requesting", "reading"}] \cup [state : {"ended"}, outcome : Outcome]
PageGets(d, p) == p \in Page /\ p.state # "idle" /\ page' = [page EXCEPT ![d] = p]

(* An execution that ends has an outcome.                                  *)
LEMMA EndIsPage ==
  ASSUME NEW d, NEW event \in WorkerEvent, NEW tokens \in Nat, Ends(d, event, tokens)
  PROVE  \E p : PageGets(d, p)
<1>1. PICK p : p = [state |-> "ended", outcome |-> [eventType |-> event, tokensUsed |-> tokens]]
  OBVIOUS
<1>2. [eventType |-> event, tokensUsed |-> tokens] \in Outcome
  BY DEF Outcome
<1>3. p \in Page /\ p.state = "ended"
  BY <1>1, <1>2 DEF Page
<1>4. page' = [page EXCEPT ![d] = p]
  BY <1>1 DEF Ends
<1> QED  BY <1>3, <1>4 DEF PageGets

(* What a URL is refused with is an event.                                 *)
LEMMA RefusalIsEvent ==
  ASSUME NEW url \in Urls
  PROVE  /\ Refusal(url) = NoRefusal \/ Refusal(url) \in WorkerEvent
         /\ Refusal(url) = NoRefusal => url.host.kind = "name" /\ IsDomainAllowed(url.host)
<1>1. url.tooLong \in BOOLEAN
  BY BrowserWorkerAssumption DEF BrowserWorkerAssumption
<1> QED  BY <1>1 DEF Refusal, NoRefusal, WorkerEvent

(* A call of execute() begins or ends an execution, and only allowed hosts *)
(* are contacted.                                                          *)
LEMMA ExecuteIsSafe ==
  ASSUME IInv, NEW d \in Executions, NEW url \in Urls, Execute(d, url)
  PROVE  (\E p : PageGets(d, p)) /\ OnlyAllowedHostsContacted'
<1>1. CASE Refusal(url) = NoRefusal
  <2>1. page' = [page EXCEPT ![d] = [state |-> "requesting"]] /\ contacted' = contacted \cup {url.host}
    BY <1>1 DEF Execute
  <2>2. PICK p : p = [state |-> "requesting"]
    OBVIOUS
  <2>3. p \in Page /\ p.state # "idle"
    BY <2>2 DEF Page
  <2>4. PageGets(d, p)
    BY <2>1, <2>2, <2>3 DEF PageGets
  <2>5. OnlyAllowedHostsContacted'
    BY <1>1, <2>1, RefusalIsEvent DEF OnlyAllowedHostsContacted, IInv
  <2> QED  BY <2>4, <2>5
<1>2. CASE Refusal(url) # NoRefusal
  <2>1. Ends(d, Refusal(url), 0) /\ contacted' = contacted
    BY <1>2 DEF Execute
  <2>2. Refusal(url) \in WorkerEvent /\ 0 \in Nat
    BY <1>2, RefusalIsEvent
  <2>3. \E p : PageGets(d, p)
    BY <2>1, <2>2, EndIsPage
  <2> QED  BY <2>1, <2>3 DEF OnlyAllowedHostsContacted, IInv
<1> QED  BY <1>1, <1>2

(* Nothing an execution does afterwards contacts another host.             *)
LEMMA WorkerIsSafe ==
  ASSUME IInv, NEW d \in Executions, WorkerNext(d)
  PROVE  (\E p : PageGets(d, p)) /\ OnlyAllowedHostsContacted'
<1>0. /\ 0 \in Nat /\ "browser.content_type.denied" \in WorkerEvent
      /\ "browser.redirect.denied" \in WorkerEvent /\ "browser.network.error" \in WorkerEvent
      /\ "tool.error" \in WorkerEvent /\ "browser.body.too_large" \in WorkerEvent
      /\ "tool.finished" \in WorkerEvent /\ "browser.timeout" \in WorkerEvent
  BY DEF WorkerEvent
<1>1. contacted' = contacted
  BY DEF WorkerNext, Responds, Redirects, ConnectionFails, BodyArrives, TimerFires
<1>2. \E p : PageGets(d, p)
  <2>1. CASE Responds(d)
    <3>1. CASE page' = [page EXCEPT ![d] = [state |-> "reading"]]
      <4>1. PICK p : p = [state |-> "reading"]
        OBVIOUS
      <4>2. p \in Page /\ p.state # "idle"
        BY <4>1 DEF Page
      <4>3. PageGets(d, p)
        BY <3>1, <4>1, <4>2 DEF PageGets
      <4> QED  BY <4>3
    <3>2. CASE Ends(d, "browser.content_type.denied", 0)
      BY <1>0, <3>2, EndIsPage
    <3> QED  BY <2>1, <3>1, <3>2 DEF Responds
  <2>2. CASE Redirects(d)
    BY <1>0, <2>2, EndIsPage DEF Redirects
  <2>3. CASE ConnectionFails(d)
    BY <1>0, <2>3, EndIsPage DEF ConnectionFails
  <2>4. CASE BodyArrives(d)
    <3>1. PICK length \in Bodies[d] : \/ Ends(d, "browser.body.too_large", 0)
                                      \/ Ends(d, "tool.finished", length)
      BY <2>4 DEF BodyArrives
    <3>2. length \in Nat
      BY BrowserWorkerAssumption DEF BrowserWorkerAssumption
    <3> QED  BY <1>0, <3>1, <3>2, EndIsPage
  <2>5. CASE TimerFires(d)
    BY <1>0, <2>5, EndIsPage DEF TimerFires
  <2> QED  BY <2>1, <2>2, <2>3, <2>4, <2>5 DEF WorkerNext
<1> QED  BY <1>1, <1>2 DEF OnlyAllowedHostsContacted, IInv

(* What a page that changes means for the others.                          *)
LEMMA PageIsTyped ==
  ASSUME IInv, NEW d \in Executions, NEW p, PageGets(d, p)
  PROVE  /\ WorkerTypeOK' /\ page'[d].state # "idle"
         /\ \A e \in Executions : e # d => page'[e] = page[e]
<1>1. page \in [Executions -> Page] /\ p \in Page /\ p.state # "idle"
      /\ page' = [page EXCEPT ![d] = p]
  BY DEF IInv, TypeOK, WorkerTypeOK, Page, PageGets
<1>2. page' \in [Executions -> Page] /\ page'[d] = p
      /\ \A e \in Executions : e # d => page'[e] = page[e]
  BY <1>1
<1> QED  BY <1>1, <1>2 DEF WorkerTypeOK, Page

-----------------------------------------------------------------------------
(* What the invariant says of the fetches.                                 *)
FetchesAreRight == \A d \in Executions : FetchIs(d)

(* The invariant, once its parts are there.                                *)
LEMMA PartsAreInvariant ==
  ASSUME TypeOK', OnlyAllowedHostsContacted', TrailIsRight', ArriveInOrder',
         FetchesAreRight', BudgetIsLeft'
  PROVE  IInv'
  BY DEF IInv, TrailIsRight, FetchesAreRight

(* A fetch that is refused has done nothing.                               *)
LEMMA RefusalIsRight ==
  ASSUME IInv, NEW d \in Executions, NEW asked \in Asked[d], NEW req, req = At(asked, now),
         Arrives(d, req),
         NEW event \in {"budget.exhausted", "tool.denied", "policy.denied"},
         NEW decision, NEW target, NEW error, NEW remaining,
         Refuse(d, req, event, decision, target, error, remaining),
         event = "tool.denied" => decision = None,
         event = "policy.denied" => decision # None,
         remaining # None => remaining = 0 /\ budget[req.session] = 0
  PROVE  IInv'
<1>1. TypeOK /\ req \in Request /\ req.startedAt = now
  BY ArrivalIsRequest DEF IInv
<1>2. PICK r : r = AuditRecord(d, req, event, decision, target, error, remaining, {})
  OBVIOUS
<1>3. /\ TrailGets(r) /\ pc' = [pc EXCEPT ![d] = "done"] /\ request' = [request EXCEPT ![d] = req]
      /\ UNCHANGED <<workerVars, now, wired, budget, artifacts, charged>>
  BY <1>2 DEF Refuse, Arrives, TrailGets
<1>4. /\ page' = page /\ contacted' = contacted /\ now' = now /\ wired' = wired
      /\ budget' = budget /\ artifacts' = artifacts /\ charged' = charged
  BY <1>3 DEF workerVars
<1>5. /\ r.call = d /\ r.eventType = event /\ r.policyDecision = decision
      /\ r.budgetRemaining = remaining /\ r.sessionId = req.session /\ r.taskId = req.task
      /\ r.startedAt = req.startedAt /\ r.principalId = PrincipalOf[req.session]
      /\ r.toolName = tool
  BY <1>2 DEF AuditRecord
<1>6. /\ event \in EventType /\ event \notin WorkerEvent /\ event # "tool.started"
      /\ event # "tool.finished"
  BY DEF EventType, WorkerEvent
<1>7. PICK n \in Nat : /\ DOMAIN trail = 1..n /\ DOMAIN trail' = 1..n+1
                       /\ trail'[n + 1] = r /\ \A i \in 1..n : trail'[i] = trail[i]
  BY <1>3, AppendedRecord
<1>8. TypeOK'
  <2>1. pc' \in [Executions -> Where] /\ request' \in [Executions -> Request \cup {NoRequest}]
    BY <1>1, <1>3 DEF TypeOK, Where
  <2>2. \A i \in DOMAIN trail' : trail'[i].eventType \in EventType
    BY <1>1, <1>5, <1>6, <1>7 DEF TypeOK
  <2> QED  BY <1>1, <1>4, <2>1, <2>2 DEF TypeOK, WorkerTypeOK
<1>9. /\ pc[d] = "idle" /\ pc'[d] = "done" /\ request'[d] = req
      /\ \A e \in Executions : e # d => pc'[e] = pc[e] /\ request'[e] = request[e]
  BY <1>1, <1>3 DEF TypeOK, Arrives
<1>10. \A e : Stores(e)' = Stores(e)
  BY <1>4 DEF Stores
<1>11. GoesForward
  <2>1. \A s \in Sessions : budget'[s] \leq budget[s]
    BY <1>1, <1>4 DEF TypeOK
  <2> QED  BY <1>4, <1>7, <1>9, <1>10, <2>1 DEF GoesForward
<1>12. Untouched(d) /\ \A i \in DOMAIN trail : trail[i].call # d
  BY <1>9 DEF IInv, FetchIs
<1>13. Untouched(d)'
  BY <1>4, <1>10, <1>12 DEF Untouched
<1>14. IsOfFetch(r)'
  <2>1. remaining # None => remaining \in Nat /\ budget'[req.session] \leq remaining
    BY <1>4
  <2> QED  BY <1>5, <1>6, <1>9, <1>13, <2>1 DEF IsOfFetch
<1>15. TrailIsRight'
  BY <1>3, <1>5, <1>8, <1>11, <1>12, <1>14, LongerTrailIsRight
<1>16. ArriveInOrder'
  BY <1>1, <1>3, <1>4, ArrivalIsInOrder DEF Where
<1>17. BudgetIsLeft'
  BY <1>1, <1>4, ArrivalCostsNothing
<1>18. FetchIs(d)'
  <2>1. Has(d, EventType \ {"tool.started"})'
    BY <1>5, <1>6, <1>7 DEF Has
  <2> QED  BY <1>9, <2>1 DEF FetchIs
<1>19. \A e \in Executions : e # d => FetchIs(e)'
  BY <1>4, <1>5, <1>7, <1>9, <1>10, <1>11, FetchStays
<1>20. OnlyAllowedHostsContacted'
  BY <1>4 DEF IInv, OnlyAllowedHostsContacted
<1>21. FetchesAreRight'
  BY <1>18, <1>19 DEF FetchesAreRight
<1> QED  BY <1>8, <1>15, <1>16, <1>17, <1>20, <1>21, PartsAreInvariant

(* A fetch that starts is on the trail, and has done nothing yet.          *)
LEMMA StartIsRight ==
  ASSUME IInv, NEW d \in Executions, NEW asked \in Asked[d], NEW req, req = At(asked, now),
         FetchStarts(d, req)
  PROVE  IInv'
<1>1. TypeOK /\ req \in Request /\ req.startedAt = now /\ req.url \in Urls
  BY ArrivalIsRequest DEF IInv, Request
<1>2. PICK r : r = AuditRecord(d, req, "tool.started", Decision(req), "browser_worker",
                               None, None, {})
  OBVIOUS
<1>3. /\ TrailGets(r) /\ pc' = [pc EXCEPT ![d] = "executing"]
      /\ request' = [request EXCEPT ![d] = req] /\ Arrives(d, req) /\ Execute(d, req.url)
      /\ UNCHANGED <<now, wired, budget, artifacts, charged>>
  BY <1>2 DEF FetchStarts, Arrives, TrailGets
<1>4. /\ now' = now /\ wired' = wired /\ budget' = budget /\ artifacts' = artifacts
      /\ charged' = charged
  BY <1>3
<1>5. /\ r.call = d /\ r.eventType = "tool.started"
      /\ r.budgetRemaining = None /\ r.sessionId = req.session /\ r.taskId = req.task
      /\ r.startedAt = req.startedAt /\ r.principalId = PrincipalOf[req.session]
      /\ r.toolName = tool
  BY <1>2 DEF AuditRecord
<1>6. "tool.started" \in EventType /\ "tool.started" \notin WorkerEvent
  BY DEF EventType, WorkerEvent
<1>7. PICK n \in Nat : /\ DOMAIN trail = 1..n /\ DOMAIN trail' = 1..n+1
                       /\ trail'[n + 1] = r /\ \A i \in 1..n : trail'[i] = trail[i]
  BY <1>3, AppendedRecord
<1>8. PICK p : PageGets(d, p)
  BY <1>1, <1>3, ExecuteIsSafe
<1>9. /\ WorkerTypeOK' /\ page'[d].state # "idle"
      /\ \A e \in Executions : e # d => page'[e] = page[e]
  BY <1>8, PageIsTyped
<1>10. TypeOK'
  <2>1. pc' \in [Executions -> Where] /\ request' \in [Executions -> Request \cup {NoRequest}]
    BY <1>1, <1>3 DEF TypeOK, Where
  <2>2. \A i \in DOMAIN trail' : trail'[i].eventType \in EventType
    BY <1>1, <1>5, <1>6, <1>7 DEF TypeOK
  <2> QED  BY <1>1, <1>4, <1>9, <2>1, <2>2 DEF TypeOK
<1>11. /\ pc[d] = "idle" /\ pc'[d] = "executing" /\ request'[d] = req
       /\ \A e \in Executions : e # d => pc'[e] = pc[e] /\ request'[e] = request[e]
  BY <1>1, <1>3 DEF TypeOK, Arrives
<1>12. \A e : Stores(e)' = Stores(e)
  BY <1>4 DEF Stores
<1>13. GoesForward
  <2>1. \A s \in Sessions : budget'[s] \leq budget[s]
    BY <1>1, <1>4 DEF TypeOK
  <2> QED  BY <1>4, <1>7, <1>9, <1>11, <1>12, <2>1 DEF GoesForward
<1>14. Untouched(d) /\ \A i \in DOMAIN trail : trail[i].call # d
  BY <1>11 DEF IInv, FetchIs
<1>15. Untouched(d)'
  BY <1>4, <1>12, <1>14 DEF Untouched
<1>16. IsOfFetch(r)'
  BY <1>5, <1>6, <1>11 DEF IsOfFetch
<1>17. TrailIsRight'
  BY <1>3, <1>5, <1>10, <1>13, <1>14, <1>16, LongerTrailIsRight
<1>18. ArriveInOrder'
  BY <1>1, <1>3, <1>4, ArrivalIsInOrder DEF Where
<1>19. BudgetIsLeft'
  BY <1>1, <1>3, <1>4, ArrivalCostsNothing
<1>20. FetchIs(d)'
  <2>1. Started(d)'
    BY <1>5, <1>7 DEF Started, Has
  <2> QED  BY <1>9, <1>11, <1>15, <2>1 DEF FetchIs
<1>21. \A e \in Executions : e # d => FetchIs(e)'
  BY <1>4, <1>5, <1>7, <1>9, <1>11, <1>12, <1>13, FetchStays
<1>22. OnlyAllowedHostsContacted'
  BY <1>1, <1>3, ExecuteIsSafe
<1>23. FetchesAreRight'
  BY <1>20, <1>21 DEF FetchesAreRight
<1> QED  BY <1>10, <1>17, <1>18, <1>19, <1>22, <1>23, PartsAreInvariant

(* While a fetch waits for its worker, its page alone changes.             *)
LEMMA WaitingIsRight ==
  ASSUME IInv, NEW d \in Executions, FetchGoesOn(d)
  PROVE  IInv'
<1>1. /\ now' = now /\ wired' = wired /\ budget' = budget /\ pc' = pc /\ request' = request
      /\ TrailStays /\ artifacts' = artifacts /\ charged' = charged
      /\ pc[d] = "executing" /\ WorkerNext(d)
  BY DEF FetchGoesOn, Waits, TrailStays
<1>2. PICK p : PageGets(d, p)
  BY <1>1, WorkerIsSafe
<1>3. /\ WorkerTypeOK' /\ page'[d].state # "idle"
      /\ \A e \in Executions : e # d => page'[e] = page[e]
  BY <1>2, PageIsTyped
<1>4. OnlyAllowedHostsContacted'
  BY <1>1, WorkerIsSafe
<1>5. TypeOK'
  BY <1>1, <1>3 DEF IInv, TypeOK, TrailStays
<1>6. \A e : Stores(e)' = Stores(e)
  BY <1>1 DEF Stores
<1>7. GoesForward
  <2>1. \A s \in Sessions : budget'[s] \leq budget[s]
    BY <1>1 DEF IInv, TypeOK
  <2> QED  BY <1>1, <1>3, <1>6, <2>1 DEF GoesForward, TrailStays
<1>8. TrailIsRight'
  BY <1>1, <1>5, <1>7, SameTrailIsRight
<1>9. ArriveInOrder'
  <2>1. now \in Nat
    BY DocFetchAssumption DEF DocFetchAssumption, IInv, TypeOK
  <2> QED  BY <1>1, <2>1, OrderStays
<1>10. BudgetIsLeft'
  BY <1>1, SumsStay
<1>11. FetchIs(d)'
  <2>1. Started(d) /\ Untouched(d)
    BY <1>1 DEF IInv, FetchIs
  <2>2. Started(d)' /\ Untouched(d)'
    BY <1>1, <1>6, <2>1 DEF Started, Has, Untouched, TrailStays
  <2> QED  BY <1>1, <1>3, <2>2 DEF FetchIs
<1>12. \A e \in Executions : e # d => FetchIs(e)'
  BY <1>1, <1>3, <1>6, <1>7, FetchStays DEF TrailStays
<1>13. FetchesAreRight'
  BY <1>11, <1>12 DEF FetchesAreRight
<1> QED  BY <1>4, <1>5, <1>8, <1>9, <1>10, <1>13, PartsAreInvariant

(* An artifact is that of its fetch.                                       *)
LEMMA StoringIsRight ==
  ASSUME IInv, NEW d \in Executions, StoreArtifact(d)
  PROVE  IInv'
<1>1. /\ now' = now /\ wired' = wired /\ budget' = budget /\ request' = request
      /\ TrailStays /\ charged' = charged /\ page' = page /\ contacted' = contacted
      /\ pc' = [pc EXCEPT ![d] = "stored"] /\ pc[d] = "executing"
      /\ wired /\ page[d].outcome.eventType = "tool.finished" /\ page[d].state = "ended"
  BY DEF StoreArtifact, TrailStays, workerVars, HasReceipt, Concluding
<1>2. PICK a : a = [provenanceId |-> request[d].task, invocationId |-> d]
  OBVIOUS
<1>3. artifacts' = artifacts \cup {a}
  BY <1>2 DEF StoreArtifact
<1>4. request[d] \in Request /\ TypeOK
  BY <1>1 DEF IInv, ArriveInOrder
<1>5. TypeOK'
  <2>1. a \in [provenanceId : Tasks, invocationId : Executions]
    BY <1>2, <1>4 DEF Request
  <2>2. pc' \in [Executions -> Where]
    BY <1>1, <1>4 DEF TypeOK, Where
  <2> QED  BY <1>1, <1>3, <1>4, <2>1, <2>2 DEF TypeOK, WorkerTypeOK, TrailStays
<1>6. \A e : e # d => Stores(e)' = Stores(e)
  BY <1>2, <1>3 DEF Stores
<1>7. pc'[d] = "stored" /\ \A e \in Executions : e # d => pc'[e] = pc[e]
  BY <1>1, <1>4 DEF TypeOK
<1>8. GoesForward
  <2>1. \A s \in Sessions : budget'[s] \leq budget[s]
    BY <1>1 DEF IInv, TypeOK
  <2> QED  BY <1>1, <1>3, <1>6, <1>7, <2>1 DEF GoesForward, TrailStays
<1>9. TrailIsRight'
  BY <1>1, <1>5, <1>8, SameTrailIsRight
<1>10. ArriveInOrder'
  <2>1. now \in Nat
    BY DocFetchAssumption DEF DocFetchAssumption, IInv, TypeOK
  <2> QED  BY <1>1, <1>7, <2>1, OrderStays
<1>11. BudgetIsLeft'
  BY <1>1, SumsStay
<1>12. FetchIs(d)'
  <2>1. Started(d) /\ Untouched(d)
    BY <1>1 DEF IInv, FetchIs
  <2>2. Started(d)' /\ charged'[d] = 0 /\ EndedWith(d, "tool.finished")'
    BY <1>1, <2>1 DEF Started, Has, Untouched, TrailStays, EndedWith
  <2>3. Kept(d)'
    BY <1>1, <1>2, <1>3 DEF Kept
  <2> QED  BY <1>1, <1>7, <2>2, <2>3 DEF FetchIs
<1>13. \A e \in Executions : e # d => FetchIs(e)'
  BY <1>1, <1>6, <1>7, <1>8, FetchStays DEF TrailStays
<1>14. FetchesAreRight'
  BY <1>12, <1>13 DEF FetchesAreRight
<1>15. OnlyAllowedHostsContacted'
  BY <1>1 DEF IInv, OnlyAllowedHostsContacted
<1> QED  BY <1>5, <1>9, <1>10, <1>11, <1>14, <1>15, PartsAreInvariant

(* A charge is that of its fetch, and comes out of the budget.             *)
LEMMA ChargingIsRight ==
  ASSUME IInv, NEW d \in Executions, Charge(d)
  PROVE  IInv'
<1>1. /\ now' = now /\ wired' = wired /\ request' = request /\ artifacts' = artifacts
      /\ TrailStays /\ page' = page /\ contacted' = contacted
      /\ pc' = [pc EXCEPT ![d] = "charged"] /\ pc[d] = "stored"
      /\ charged' = [charged EXCEPT ![d] = page[d].outcome.tokensUsed]
      /\ budget' = [budget EXCEPT ![request[d].session] = Less(@, page[d].outcome.tokensUsed)]
  BY DEF Charge, TrailStays, workerVars
<1>2. TypeOK /\ request[d] \in Request
  BY <1>1 DEF IInv, ArriveInOrder
<1>3. Started(d) /\ wired /\ EndedWith(d, "tool.finished") /\ Kept(d) /\ charged[d] = 0
  BY <1>1 DEF IInv, FetchIs
<1>4. PICK t \in Nat : t = page[d].outcome.tokensUsed
  BY <1>2, <1>3 DEF TypeOK, WorkerTypeOK, Outcome, EndedWith
<1>5. \A b \in Nat : Less(b, t) \in Nat /\ Less(b, t) \leq b
  BY DEF Less
<1>6. budget' \in [Sessions -> Nat] /\ \A s \in Sessions : budget'[s] \leq budget[s]
  <2>1. PICK q \in Sessions : q = request[d].session
    BY <1>2 DEF Request
  <2>2. budget \in [Sessions -> Nat] /\ budget' = [budget EXCEPT ![q] = Less(budget[q], t)]
    BY <1>1, <1>2, <1>4, <2>1 DEF TypeOK
  <2>3. budget[q] \in Nat /\ Less(budget[q], t) \in Nat /\ Less(budget[q], t) \leq budget[q]
    BY <1>5, <2>2
  <2> QED  BY <2>2, <2>3
<1>7. /\ pc'[d] = "charged" /\ \A e \in Executions : e # d => pc'[e] = pc[e]
      /\ charged'[d] = t /\ \A e \in Executions : e # d => charged'[e] = charged[e]
  BY <1>1, <1>2, <1>4 DEF TypeOK
<1>8. TypeOK'
  <2>1. pc' \in [Executions -> Where] /\ charged' \in [Executions -> Nat]
    BY <1>1, <1>2, <1>4 DEF TypeOK, Where
  <2> QED  BY <1>1, <1>2, <1>6, <2>1 DEF TypeOK, WorkerTypeOK, TrailStays
<1>9. \A e : Stores(e)' = Stores(e)
  BY <1>1 DEF Stores
<1>10. GoesForward
  BY <1>1, <1>6, <1>7, <1>9 DEF GoesForward, TrailStays
<1>11. TrailIsRight'
  BY <1>1, <1>8, <1>10, SameTrailIsRight
<1>12. ArriveInOrder'
  <2>1. now \in Nat
    BY DocFetchAssumption DEF DocFetchAssumption, IInv, TypeOK
  <2> QED  BY <1>1, <1>7, <2>1, OrderStays
<1>13. BudgetIsLeft'
  BY ChargeIsTaken
<1>14. FetchIs(d)'
  <2>1. /\ Started(d)' /\ EndedWith(d, "tool.finished")' /\ Kept(d)' /\ Paid(d)'
    BY <1>1, <1>3, <1>4, <1>7 DEF Started, Has, TrailStays, EndedWith, Kept, Paid
  <2> QED  BY <1>1, <1>3, <1>7, <2>1 DEF FetchIs
<1>15. \A e \in Executions : e # d => FetchIs(e)'
  BY <1>1, <1>7, <1>9, <1>10, FetchStays DEF TrailStays
<1>16. FetchesAreRight'
  BY <1>14, <1>15 DEF FetchesAreRight
<1>17. OnlyAllowedHostsContacted'
  BY <1>1 DEF IInv, OnlyAllowedHostsContacted
<1> QED  BY <1>8, <1>11, <1>12, <1>13, <1>16, <1>17, PartsAreInvariant

(* The last record of a fetch tells what came of it.                       *)
LEMMA EndIsRight ==
  ASSUME IInv, NEW d \in Executions, WriteEnd(d)
  PROVE  IInv'
<1>1. PICK req \in Request : req = request[d]
  BY DEF WriteEnd, Settled, IInv, ArriveInOrder
<1>2. PICK event : event = page[d].outcome.eventType
  OBVIOUS
<1>3. PICK remaining : remaining = IF wired /\ event = "tool.finished"
                                     THEN budget[req.session] ELSE None
  OBVIOUS
<1>4. PICK r : \E error, refs :
        /\ r = AuditRecord(d, req, event, Decision(req), "browser_worker", error, remaining, refs)
        /\ TrailGets(r)
  BY <1>1, <1>2, <1>3 DEF WriteEnd, TrailGets, HasReceipt
<1>5. /\ r.call = d /\ r.eventType = event /\ r.budgetRemaining = remaining
      /\ r.sessionId = req.session /\ r.taskId = req.task
      /\ r.startedAt = req.startedAt /\ r.principalId = PrincipalOf[req.session]
      /\ r.toolName = tool
  BY <1>4 DEF AuditRecord
<1>6. /\ now' = now /\ wired' = wired /\ request' = request /\ artifacts' = artifacts
      /\ page' = page /\ contacted' = contacted /\ budget' = budget /\ charged' = charged
      /\ pc' = [pc EXCEPT ![d] = "done"] /\ TrailGets(r)
  BY <1>4 DEF WriteEnd, workerVars
<1>7. /\ pc[d] # "idle" /\ pc[d] # "done" /\ Started(d) /\ EndedWith(d, event)
      /\ wired /\ event = "tool.finished" => Kept(d) /\ Paid(d)
      /\ ~(wired /\ event = "tool.finished") => Untouched(d)
  <2>1. CASE pc[d] = "charged"
    BY <1>2, <2>1 DEF IInv, FetchIs, EndedWith
  <2>2. CASE pc[d] = "executing" /\ Concluding(d) /\ ~(wired /\ HasReceipt(d))
    <3>1. Started(d) /\ Untouched(d) /\ page[d].state = "ended"
      BY <2>2 DEF IInv, FetchIs, Concluding
    <3> QED  BY <1>2, <2>2, <3>1 DEF EndedWith, HasReceipt
  <2> QED  BY <2>1, <2>2 DEF WriteEnd, Settled
<1>8. event \in WorkerEvent
  <2>1. page[d] \in Page /\ page[d].state = "ended"
    BY <1>7 DEF IInv, TypeOK, WorkerTypeOK, Page, EndedWith
  <2>2. page[d].outcome \in Outcome
    BY <2>1 DEF Page
  <2> QED  BY <1>2, <2>2 DEF Outcome
<1>9. /\ event \in EventType /\ event # "tool.started" /\ event # "tool.denied"
      /\ event # "policy.denied"
  BY <1>8 DEF EventType, WorkerEvent
<1>10. PICK n \in Nat : /\ DOMAIN trail = 1..n /\ DOMAIN trail' = 1..n+1
                        /\ trail'[n + 1] = r /\ \A i \in 1..n : trail'[i] = trail[i]
  BY <1>6, AppendedRecord
<1>11. TypeOK /\ TypeOK'
  <2>1. pc' \in [Executions -> Where]
    BY <1>6 DEF IInv, TypeOK, Where
  <2>2. \A i \in DOMAIN trail' : trail'[i].eventType \in EventType
    BY <1>5, <1>9, <1>10 DEF IInv, TypeOK
  <2> QED  BY <1>6, <2>1, <2>2 DEF IInv, TypeOK, WorkerTypeOK
<1>12. pc'[d] = "done" /\ \A e \in Executions : e # d => pc'[e] = pc[e]
  BY <1>6, <1>11 DEF TypeOK
<1>13. \A e : Stores(e)' = Stores(e)
  BY <1>6 DEF Stores
<1>14. GoesForward
  <2>1. \A s \in Sessions : budget'[s] \leq budget[s]
    BY <1>6, <1>11 DEF TypeOK
  <2> QED  BY <1>6, <1>7, <1>10, <1>12, <1>13, <2>1 DEF GoesForward
<1>15. Started(d)'
  BY <1>7, <1>14 DEF Started, Has, GoesForward
<1>16. /\ EndedWith(d, event)'
       /\ Kept(d) => Kept(d)'
       /\ Paid(d) => Paid(d)'
       /\ Untouched(d) => Untouched(d)'
  BY <1>6, <1>7, <1>13 DEF EndedWith, Kept, Paid, Untouched
<1>17. IsOfFetch(r)'
  <2>1. remaining # None => remaining \in Nat /\ budget'[req.session] \leq remaining
    <3>1. budget[req.session] \in Nat
      BY <1>1, <1>11 DEF TypeOK, Request
    <3> QED  BY <1>3, <1>6, <3>1
  <2>2. event = "tool.finished" /\ wired' => Kept(d)' /\ Paid(d)'
    BY <1>6, <1>7, <1>16
  <2>3. ~(event = "tool.finished" /\ wired') => Untouched(d)'
    BY <1>6, <1>7, <1>16
  <2>4. request'[d] = req
    BY <1>1, <1>6
  <2>5. Started(d)' /\ EndedWith(d, event)'
    BY <1>15, <1>16
  <2> QED  BY <1>5, <1>9, <1>12, <2>1, <2>2, <2>3, <2>4, <2>5 DEF IsOfFetch
<1>18. \A i \in DOMAIN trail : trail[i].call = r.call =>
         trail[i].eventType = "tool.started" /\ r.eventType \in WorkerEvent
  BY <1>5, <1>7, <1>8 DEF IInv, IsOfFetch
<1>19. TrailIsRight'
  BY <1>6, <1>11, <1>14, <1>17, <1>18, LongerTrailIsRight
<1>20. ArriveInOrder'
  <2>1. now \in Nat
    BY DocFetchAssumption DEF DocFetchAssumption, IInv, TypeOK
  <2> QED  BY <1>6, <1>7, <1>12, <2>1, OrderStays
<1>21. BudgetIsLeft'
  BY <1>6, SumsStay
<1>22. FetchIs(d)'
  <2>1. Has(d, EventType \ {"tool.started"})'
    BY <1>5, <1>9, <1>10 DEF Has
  <2> QED  BY <1>12, <2>1 DEF FetchIs
<1>23. \A e \in Executions : e # d => FetchIs(e)'
  BY <1>5, <1>6, <1>10, <1>12, <1>13, <1>14, FetchStays
<1>24. FetchesAreRight'
  BY <1>22, <1>23 DEF FetchesAreRight
<1>25. OnlyAllowedHostsContacted'
  BY <1>6 DEF IInv, OnlyAllowedHostsContacted
<1> QED  BY <1>11, <1>19, <1>20, <1>21, <1>24, <1>25, PartsAreInvariant

(* When the process stops, or time passes, nothing is written; a fetch     *)
(* that is cut off has what it had.                                        *)
LEMMA StoppingIsRight ==
  ASSUME IInv, Stop \/ Tick \/ UNCHANGED vars
  PROVE  IInv'
<1>1. /\ wired' = wired /\ request' = request /\ artifacts' = artifacts /\ budget' = budget
      /\ page' = page /\ contacted' = contacted /\ charged' = charged /\ TrailStays
  BY DEF Stop, Tick, vars, workerVars, TrailStays
<1>2. now \in 0..MaxTime /\ MaxTime \in Nat
  BY DocFetchAssumption DEF DocFetchAssumption, IInv, TypeOK
<1>3. now' \in 0..MaxTime /\ now' \in Nat /\ now \leq now'
  BY <1>2 DEF Stop, Tick, vars
<1>4. /\ pc' \in [Executions -> Where]
      /\ \A d \in Executions : pc'[d] = pc[d] \/ (pc[d] \notin {"idle", "done"} /\ pc'[d] = "lost")
  <2>1. CASE Stop
    BY <2>1 DEF Stop, Unfinished, Where, IInv, TypeOK
  <2>2. CASE pc' = pc
    BY <2>2 DEF IInv, TypeOK
  <2> QED  BY <2>1, <2>2 DEF Tick, vars
<1>5. TypeOK'
  BY <1>1, <1>3, <1>4 DEF IInv, TypeOK, WorkerTypeOK, TrailStays
<1>6. \A e : Stores(e)' = Stores(e)
  BY <1>1 DEF Stores
<1>7. GoesForward
  <2>1. \A s \in Sessions : budget'[s] \leq budget[s]
    BY <1>1 DEF IInv, TypeOK
  <2> QED  BY <1>1, <1>4, <1>6, <2>1 DEF GoesForward, TrailStays
<1>8. TrailIsRight'
  BY <1>1, <1>5, <1>7, SameTrailIsRight
<1>9. ArriveInOrder'
  BY <1>1, <1>3, <1>4, OrderStays
<1>10. BudgetIsLeft'
  BY <1>1, SumsStay
<1>11. ASSUME NEW d \in Executions PROVE FetchIs(d)'
  <2>1. CASE pc'[d] = pc[d]
    BY <1>1, <1>6, <1>7, <2>1, FetchStays DEF TrailStays
  <2>2. CASE pc'[d] = "lost"
    BY <2>2 DEF FetchIs
  <2> QED  BY <1>4, <2>1, <2>2
<1>12. FetchesAreRight'
  BY <1>11 DEF FetchesAreRight
<1>13. OnlyAllowedHostsContacted'
  BY <1>1 DEF IInv, OnlyAllowedHostsContacted
<1> QED  BY <1>5, <1>8, <1>9, <1>10, <1>12, <1>13, PartsAreInvariant

-----------------------------------------------------------------------------
(* It holds at first.                                                      *)
LEMMA InitEstablishesIInv == Init => IInv
<1> SUFFICES ASSUME Init PROVE IInv
  OBVIOUS
<1>1. /\ now = 0 /\ wired \in BOOLEAN /\ budget = [s \in Sessions |-> InitialBudget]
      /\ pc = [d \in Executions |-> "idle"] /\ request = [d \in Executions |-> NoRequest]
      /\ trail = <<>> /\ artifacts = {} /\ charged = [d \in Executions |-> 0]
      /\ page = [e \in Executions |-> [state |-> "idle"]] /\ contacted = {}
  BY DEF Init, WorkerInit
<1>2. MaxTime \in Nat /\ InitialBudget \in Nat
  BY DocFetchAssumption DEF DocFetchAssumption
<1>3. DOMAIN trail = {} /\ trail \in Seq({})
  BY <1>1
<1>4. WorkerTypeOK
  BY <1>1 DEF WorkerTypeOK
<1>5. TypeOK
  <2>1. now \in 0..MaxTime /\ budget \in [Sessions -> Nat] /\ charged \in [Executions -> Nat]
    BY <1>1, <1>2
  <2>2. pc \in [Executions -> Where] /\ request \in [Executions -> Request \cup {NoRequest}]
    BY <1>1 DEF Where
  <2> QED  BY <1>1, <1>3, <1>4, <2>1, <2>2 DEF TypeOK
<1>6. OnlyAllowedHostsContacted
  BY <1>1 DEF OnlyAllowedHostsContacted
<1>7. ArriveInOrder
  <2>1. {d \in Executions : pc[d] # "idle"} = {}
    BY <1>1
  <2>2. IsFiniteSet({})
    BY FS_EmptySet
  <2> QED  BY <1>1, <2>1, <2>2 DEF ArriveInOrder
<1>8. \A d \in Executions : FetchIs(d)
  BY <1>1, <1>3 DEF FetchIs, Untouched, Stores
<1>9. BudgetIsLeft
  <2> SUFFICES ASSUME NEW s \in Sessions PROVE budget[s] = Less(InitialBudget, Spent(s))
    BY DEF BudgetIsLeft
  <2>1. FetchesOf(s) = {}
    BY <1>1 DEF FetchesOf
  <2>2. IsFiniteSet({})
    BY FS_EmptySet
  <2>3. Total(charged, {}) = 0
    BY <2>2, TotalsAdd
  <2>4. Spent(s) = 0
    BY <2>1, <2>3, SpentIsTotal
  <2> QED  BY <1>1, <1>2, <2>4 DEF Less
<1> QED  BY <1>3, <1>5, <1>6, <1>7, <1>8, <1>9 DEF IInv, StartThenEnd

(* Every step preserves it.                                                *)
LEMMA StepPreservesIInv == IInv /\ [Next]_vars => IInv'
<1> SUFFICES ASSUME IInv, [Next]_vars PROVE IInv'
  OBVIOUS
<1>1. ASSUME NEW d \in Executions, NEW asked \in Asked[d], NEW req, req = At(asked, now),
             \/ FetchExhausted(d, req) \/ FetchIncapable(d, req) \/ FetchDenied(d, req)
             \/ FetchStarts(d, req)
      PROVE  IInv'
  <2>1. CASE FetchExhausted(d, req)
    BY <1>1, <2>1, RefusalIsRight DEF FetchExhausted
  <2>2. CASE FetchIncapable(d, req)
    BY <1>1, <2>2, RefusalIsRight DEF FetchIncapable
  <2>3. CASE FetchDenied(d, req)
    <3>1. Decision(req) # None
      BY DecisionIsDecision, DocFetchAssumption DEF DocFetchAssumption
    <3> QED  BY <1>1, <2>3, <3>1, RefusalIsRight DEF FetchDenied
  <2>4. CASE FetchStarts(d, req)
    BY <1>1, <2>4, StartIsRight
  <2> QED  BY <1>1, <2>1, <2>2, <2>3, <2>4
<1>2. ASSUME NEW d \in Executions, FetchGoesOn(d) \/ Conclude(d)
      PROVE  IInv'
  BY <1>2, WaitingIsRight, StoringIsRight, ChargingIsRight, EndIsRight DEF Conclude
<1>3. CASE Stop \/ Tick \/ UNCHANGED vars
  BY <1>3, StoppingIsRight
<1> QED  BY <1>1, <1>2, <1>3 DEF Next

(* So it always holds.                                                     *)
LEMMA InvariantHolds == Spec => []IInv
  BY InitEstablishesIInv, StepPreservesIInv, PTL DEF Spec

-----------------------------------------------------------------------------
(* The integrity check, by the places of the records it reads: the start   *)
(* at place i is open at place k if no record of its key is between that   *)
(* opens or closes one.                                                    *)
Touches(r) == r.eventType = "tool.started" \/ r.eventType \in Closing
OpenAt(a, i, k) ==
  /\ i \in DOMAIN a /\ i \leq k /\ a[i].eventType = "tool.started"
  /\ \A j \in DOMAIN a : i < j /\ j \leq k /\ Touches(a[j]) => InvKey(a[j]) # InvKey(a[i])
Orphan(a, k) ==
  /\ a[k].eventType \in Closing
  /\ \A i \in DOMAIN a : OpenAt(a, i, k - 1) => InvKey(a[i]) # InvKey(a[k])
Ungrounded(r) == r.eventType \in Denying /\ r.policyDecision = None
Objected(v, a, i) ==
  \/ Orphan(a, i) /\ v = Violation("orphaned_finished", a[i])
  \/ Ungrounded(a[i]) /\ v = Violation("denial_without_policy", a[i])

(* Where the loop of the check is after k records.                         *)
ExaminedTo(state, a, k) ==
  /\ \A r : r \in state.open <=> \E i \in DOMAIN a : OpenAt(a, i, k) /\ r = a[i]
  /\ \A v : v \in state.violations <=> \E i \in DOMAIN a : i \leq k /\ Objected(v, a, i)

(* What is open at a place, from what was open before it.                  *)
LEMMA OpenAtNext ==
  ASSUME NEW a, NEW n \in Nat, DOMAIN a = 1..n, NEW k \in 1..n, NEW i \in DOMAIN a
  PROVE  OpenAt(a, i, k) <=>
           \/ i = k /\ a[k].eventType = "tool.started"
           \/ OpenAt(a, i, k - 1) /\ (Touches(a[k]) => InvKey(a[i]) # InvKey(a[k]))
<1>1. \A j \in DOMAIN a : j \leq k <=> j \leq k - 1 \/ j = k
  OBVIOUS
<1>2. CASE i < k
  <2>1. i \leq k /\ i \leq k - 1 /\ i # k
    BY <1>2
  <2> QED  BY <1>1, <1>2, <2>1 DEF OpenAt
<1>3. CASE i = k
  <2>1. /\ i \leq k /\ ~(i \leq k - 1)
        /\ \A j \in DOMAIN a : ~(i < j /\ j \leq k)
    BY <1>3
  <2> QED  BY <1>3, <2>1 DEF OpenAt
<1>4. CASE i > k
  BY <1>4 DEF OpenAt
<1> QED  BY <1>2, <1>3, <1>4

(* The loop keeps to the places.                                           *)
LEMMA ExaminingKeepsPlaces ==
  ASSUME NEW a, NEW n \in Nat, DOMAIN a = 1..n, NEW k \in 1..n,
         NEW state, ExaminedTo(state, a, k - 1)
  PROVE  ExaminedTo(Examine(state, a[k]), a, k)
<1>1. PICK r : r = a[k]
  OBVIOUS
<1>2. PICK to : to = Examine(state, r)
  OBVIOUS
<1>3. /\ \A o : o \in state.open <=> \E i \in DOMAIN a : OpenAt(a, i, k - 1) /\ o = a[i]
      /\ \A v : v \in state.violations <=> \E i \in DOMAIN a : i \leq k - 1 /\ Objected(v, a, i)
  BY DEF ExaminedTo
<1>4. /\ to.violations = state.violations \cup Objections(state.open, r)
      /\ to.open = IF r.eventType = "tool.started"
                   THEN (state.open \ OfKey(state.open, r)) \cup {r}
                   ELSE IF r.eventType \in Closing THEN state.open \ OfKey(state.open, r)
                   ELSE state.open
  BY <1>2 DEF Examine, Closing
<1>5. \A o : o \in OfKey(state.open, r) <=> o \in state.open /\ InvKey(o) = InvKey(r)
  BY DEF OfKey
<1>6. \A o : o \in to.open <=>
        \/ o = r /\ r.eventType = "tool.started"
        \/ o \in state.open /\ (Touches(r) => InvKey(o) # InvKey(r))
  <2>1. CASE r.eventType = "tool.started"
    BY <1>4, <1>5, <2>1 DEF Touches
  <2>2. CASE r.eventType # "tool.started" /\ r.eventType \in Closing
    BY <1>4, <1>5, <2>2 DEF Touches
  <2>3. CASE r.eventType # "tool.started" /\ r.eventType \notin Closing
    BY <1>4, <2>3 DEF Touches
  <2> QED  BY <2>1, <2>2, <2>3
<1>7. \A o : o \in to.open <=> \E i \in DOMAIN a : OpenAt(a, i, k) /\ o = a[i]
  <2>1. \A i \in DOMAIN a : OpenAt(a, i, k) <=>
          \/ i = k /\ r.eventType = "tool.started"
          \/ OpenAt(a, i, k - 1) /\ (Touches(r) => InvKey(a[i]) # InvKey(r))
    BY <1>1, OpenAtNext
  <2>2. k \in DOMAIN a
    OBVIOUS
  <2> QED  BY <1>1, <1>3, <1>6, <2>1, <2>2
<1>8. \A v : v \in Objections(state.open, r) <=> Objected(v, a, k)
  <2>1. Orphan(a, k) <=> r.eventType \in Closing /\ OfKey(state.open, r) = {}
    <3>1. OfKey(state.open, r) = {} <=>
            \A i \in DOMAIN a : OpenAt(a, i, k - 1) => InvKey(a[i]) # InvKey(a[k])
      BY <1>1, <1>3, <1>5
    <3> QED  BY <1>1, <3>1 DEF Orphan
  <2>2. Ungrounded(a[k]) <=> r.eventType \in Denying /\ r.policyDecision = None
    BY <1>1 DEF Ungrounded
  <2> QED  BY <1>1, <2>1, <2>2 DEF Objections, Objected
<1>9. \A v : v \in to.violations <=> \E i \in DOMAIN a : i \leq k /\ Objected(v, a, i)
  <2>1. \A i \in DOMAIN a : i \leq k <=> i \leq k - 1 \/ i = k
    OBVIOUS
  <2>2. k \in DOMAIN a
    OBVIOUS
  <2> QED  BY <1>3, <1>4, <1>8, <2>1, <2>2
<1> QED  BY <1>1, <1>2, <1>7, <1>9 DEF ExaminedTo

(* A violation of a kind is reported of a call.                            *)
Reports(violations, kind, d) == \E v \in violations : v.kind = kind /\ v.record.call = d

(* What is reported of a call, by the places of its records.               *)
LEMMA ReportsAreByPlaces ==
  ASSUME NEW a, NEW n \in Nat, DOMAIN a = 1..n, NEW violations,
         violations = CheckAuditIntegrity(a), NEW d
  PROVE  /\ Reports(violations, "unmatched_started", d) <=>
              \E i \in DOMAIN a : OpenAt(a, i, n) /\ a[i].call = d
         /\ Reports(violations, "orphaned_finished", d) <=>
              \E i \in DOMAIN a : Orphan(a, i) /\ a[i].call = d
         /\ Reports(violations, "denial_without_policy", d) <=>
              \E i \in DOMAIN a : Ungrounded(a[i]) /\ a[i].call = d
<1>1. PICK g : /\ GoesThrough(g, "integrity", a, a, n)
               /\ violations = g[n].violations
                    \cup {Violation("unmatched_started", r) : r \in g[n].open}
  BY IntegritySteps
<1> DEFINE Wrong == {k \in 0..n : ~ExaminedTo(g[k], a, k)}
<1>2. 0 \notin Wrong
  <2>1. g[0] = [open |-> {}, violations |-> {}]
    BY <1>1 DEF GoesThrough, FirstState
  <2>2. \A i \in DOMAIN a : ~(i \leq 0)
    OBVIOUS
  <2> QED  BY <2>1, <2>2 DEF ExaminedTo, OpenAt
<1>3. \A k \in 1..n : k - 1 \notin Wrong => k \notin Wrong
  <2> SUFFICES ASSUME NEW k \in 1..n, k - 1 \notin Wrong PROVE k \notin Wrong
    OBVIOUS
  <2>1. ExaminedTo(g[k - 1], a, k - 1)
    OBVIOUS
  <2>2. g[k] = Examine(g[k - 1], a[k])
    BY <1>1 DEF GoesThrough, NextState
  <2>3. ExaminedTo(g[k], a, k)
    BY <2>1, <2>2, ExaminingKeepsPlaces
  <2> QED  BY <2>3
<1>4. Wrong = {}
  <2>1. Wrong \in SUBSET Nat /\ \A k \in Wrong : k \in 0..n
    OBVIOUS
  <2> HIDE DEF Wrong
  <2>2. SUFFICES ASSUME Wrong # {} PROVE FALSE
    OBVIOUS
  <2>3. PICK k \in Wrong : \A l \in Wrong : k \leq l
    BY <2>1, <2>2, LeastExists
  <2>4. k \in 1..n
    BY <1>2, <2>1, <2>3
  <2> QED  BY <1>3, <2>3, <2>4
<1>5. PICK final : final = g[n]
  OBVIOUS
<1>6. ExaminedTo(final, a, n)
  BY <1>4, <1>5
<1>7. \A i \in DOMAIN a : i \leq n
  OBVIOUS
<1>8. \A v : v \in violations <=>
        \E i \in DOMAIN a : \/ Objected(v, a, i)
                            \/ OpenAt(a, i, n) /\ v = Violation("unmatched_started", a[i])
  <2>1. \A v : v \in violations <=>
          \/ v \in final.violations
          \/ \E r \in final.open : v = Violation("unmatched_started", r)
    BY <1>1, <1>5
  <2> QED  BY <1>6, <1>7, <2>1 DEF ExaminedTo
<1>9. \A kind, r : Violation(kind, r).kind = kind /\ Violation(kind, r).record = r
  BY DEF Violation
<1>10. Reports(violations, "unmatched_started", d) <=>
         \E i \in DOMAIN a : OpenAt(a, i, n) /\ a[i].call = d
  BY <1>8, <1>9 DEF Reports, Objected
<1>11. Reports(violations, "orphaned_finished", d) <=>
         \E i \in DOMAIN a : Orphan(a, i) /\ a[i].call = d
  BY <1>8, <1>9 DEF Reports, Objected
<1>12. Reports(violations, "denial_without_policy", d) <=>
         \E i \in DOMAIN a : Ungrounded(a[i]) /\ a[i].call = d
  BY <1>8, <1>9 DEF Reports, Objected
<1> QED  BY <1>10, <1>11, <1>12

(* What an operator reads of a session, call by call: the end of a call    *)
(* comes after its start, and calls come in the order of their starts.     *)
ReadsCalls(rows, s) ==
  /\ \A k \in DOMAIN rows : IsOfFetch(rows[k]) /\ rows[k].sessionId = s
  /\ \A k \in DOMAIN rows : \E i \in DOMAIN trail : rows[k] = trail[i]
  /\ \A i \in DOMAIN trail : trail[i].sessionId = s => \E k \in DOMAIN rows : rows[k] = trail[i]
  /\ \A k, l \in DOMAIN rows :
       k < l => /\ rows[k].startedAt \in Nat /\ rows[l].startedAt \in Nat
                /\ rows[k].startedAt \leq rows[l].startedAt
  /\ \A k, l \in DOMAIN rows :
       k < l /\ rows[k].call = rows[l].call =>
         rows[k].eventType = "tool.started" /\ rows[l].eventType \in WorkerEvent

(* This is how the records of a session are listed.                        *)
LEMMA SessionReadsCalls ==
  ASSUME IInv, NEW s, NEW rows, rows = QueryBySession(trail, s)
  PROVE  ReadsCalls(rows, s)
<1>1. PICK S, key : S = OfSession(trail, s) /\ key = Starts(trail)
  OBVIOUS
<1>2. CanBeListed(S, key) /\ rows = Listed(trail, S, key)
  BY <1>1, SessionCanBeListed DEF QueryBySession
<1>3. PICK n \in Nat : n = Cardinality(S) /\ DOMAIN rows = 1..n
  BY <1>2, ListingHasRows
<1>4. PICK at : at = [k \in 1..n |-> RowAt(S, key, k)]
  OBVIOUS
<1>5. \A k \in 1..n : at[k] \in S /\ Place(S, key, at[k]) = k /\ rows[k] = trail[at[k]]
  BY <1>2, <1>3, <1>4, PlacesAreRows DEF Listed
<1>6. \A i : i \in S <=> i \in DOMAIN trail /\ trail[i].sessionId = s
  BY <1>1 DEF OfSession
<1>7. \A k \in DOMAIN rows : IsOfFetch(rows[k]) /\ rows[k].sessionId = s
  BY <1>3, <1>5, <1>6 DEF IInv
<1>8. \A i \in S : key[i] = trail[i].startedAt /\ i \in Int
  <2>1. PICK m \in Nat : DOMAIN trail = 1..m
    BY TrailIsSequence
  <2> QED  BY <1>1, <1>6, <2>1 DEF Starts
<1>9. \A k, l \in 1..n : k < l <=>
        \/ rows[k].startedAt < rows[l].startedAt
        \/ rows[k].startedAt = rows[l].startedAt /\ at[k] < at[l]
  <2> TAKE k, l \in 1..n
  <2>1. k < l <=> ComesBefore(key, at[k], at[l])
    BY <1>2, <1>5, PlacesAreRows
  <2> QED  BY <1>5, <1>8, <2>1 DEF ComesBefore
<1>10. \A k \in DOMAIN rows : rows[k].startedAt \in Nat
  <2> TAKE k \in DOMAIN rows
  <2>1. request[rows[k].call] \in Request
        /\ rows[k].startedAt = request[rows[k].call].startedAt
    BY <1>7 DEF IInv, ArriveInOrder, IsOfFetch
  <2>2. 0..MaxTime \subseteq Nat
    BY DocFetchAssumption DEF DocFetchAssumption
  <2> QED  BY <2>1, <2>2 DEF Request
<1>11. \A k, l \in DOMAIN rows : k < l => rows[k].startedAt \leq rows[l].startedAt
  BY <1>3, <1>9, <1>10
<1>12. ASSUME NEW k \in DOMAIN rows, NEW l \in DOMAIN rows, k < l, rows[k].call = rows[l].call
       PROVE  rows[k].eventType = "tool.started" /\ rows[l].eventType \in WorkerEvent
  <2>1. rows[k].startedAt = rows[l].startedAt
    BY <1>7, <1>12 DEF IsOfFetch
  <2>2. at[k] < at[l]
    BY <1>3, <1>9, <1>10, <1>12, <2>1
  <2>3. at[k] \in DOMAIN trail /\ at[l] \in DOMAIN trail /\ rows[k] = trail[at[k]]
        /\ rows[l] = trail[at[l]]
    BY <1>3, <1>5, <1>6
  <2> QED  BY <1>12, <2>2, <2>3 DEF IInv, StartThenEnd
<1>13. \A k \in DOMAIN rows : \E i \in DOMAIN trail : rows[k] = trail[i]
  BY <1>3, <1>5, <1>6
<1>14. \A i \in DOMAIN trail : trail[i].sessionId = s => \E k \in DOMAIN rows : rows[k] = trail[i]
  BY SessionIsRead
<1> QED  BY <1>7, <1>10, <1>11, <1>12, <1>13, <1>14 DEF ReadsCalls

(* A call with a record that opens or closes was started, and is listed    *)
(* from its start.                                                         *)
LEMMA TouchingCalls ==
  ASSUME IInv, NEW s, NEW rows, NEW n \in Nat, DOMAIN rows = 1..n, ReadsCalls(rows, s),
         NEW k \in DOMAIN rows, Touches(rows[k]), NEW d, d = rows[k].call
  PROVE  /\ d \in Executions /\ Started(d) /\ request[d].session = s
         /\ \E l \in DOMAIN rows :
              l \leq k /\ rows[l].call = d /\ rows[l].eventType = "tool.started"
<1>1. d \in Executions /\ request[d].session = s /\ IsOfFetch(rows[k])
  BY DEF ReadsCalls, IsOfFetch
<1>2. "tool.started" \notin WorkerEvent /\ Closing \subseteq WorkerEvent
  BY DEF WorkerEvent, Closing
<1>3. Started(d)
  <2>1. CASE rows[k].eventType = "tool.started"
    BY <2>1 DEF ReadsCalls, Started, Has
  <2>2. CASE rows[k].eventType \in Closing
    BY <1>1, <1>2, <2>2 DEF IsOfFetch
  <2> QED  BY <2>1, <2>2 DEF Touches
<1>4. PICK i \in DOMAIN trail : trail[i].call = d /\ trail[i].eventType = "tool.started"
  BY <1>3 DEF Started, Has
<1>5. trail[i].sessionId = s
  BY <1>1, <1>4 DEF IInv, IsOfFetch
<1>6. PICK l \in DOMAIN rows : rows[l] = trail[i]
  BY <1>5 DEF ReadsCalls
<1>7. CASE l \leq k
  BY <1>1, <1>3, <1>4, <1>6, <1>7
<1>8. CASE k < l
  <2>1. rows[l].eventType \in WorkerEvent
    BY <1>4, <1>6, <1>8 DEF ReadsCalls
  <2> QED  BY <1>2, <1>4, <1>6, <2>1
<1> QED  BY <1>7, <1>8

(* What the integrity check says of a session is right.                    *)
LEMMA IntegrityIsRight == IInv => IntegrityKnowsOpenCalls
<1> SUFFICES ASSUME IInv PROVE IntegrityKnowsOpenCalls
  OBVIOUS
<1> DEFINE Others(d) == {e \in Executions \ {d} : Started(e) /\ SameKey(d, e)}
           Right(violations, s) ==
             /\ \A d \in {e \in Executions : Started(e) /\ request[e].session = s} :
                  /\ (\A e \in Others(d) : request[e].startedAt < request[d].startedAt) =>
                       /\ Closed(d) => ~Reports(violations, "unmatched_started", d)
                       /\ ~Ended(d) => Reports(violations, "unmatched_started", d)
                  /\ Reports(violations, "orphaned_finished", d) =>
                       \E e \in Others(d) : request[e].startedAt = request[d].startedAt
             /\ \A d \in Executions :
                  Reports(violations, "denial_without_policy", d) <=>
                    Has(d, {"tool.denied"}) /\ request[d].session = s
<1>1. ASSUME NEW s \in Sessions, NEW rows, rows = QueryBySession(trail, s),
             NEW violations, violations = CheckAuditIntegrity(rows)
      PROVE  Right(violations, s)
  <2>1. PICK n \in Nat : DOMAIN rows = 1..n
    BY <1>1, SessionIsRead
  <2>2. ReadsCalls(rows, s)
    BY <1>1, SessionReadsCalls
  <2>3. \A d : /\ Reports(violations, "unmatched_started", d) <=>
                    \E i \in DOMAIN rows : OpenAt(rows, i, n) /\ rows[i].call = d
               /\ Reports(violations, "orphaned_finished", d) <=>
                    \E i \in DOMAIN rows : Orphan(rows, i) /\ rows[i].call = d
               /\ Reports(violations, "denial_without_policy", d) <=>
                    \E i \in DOMAIN rows : Ungrounded(rows[i]) /\ rows[i].call = d
    BY <1>1, <2>1, ReportsAreByPlaces
  <2>4. "tool.started" \notin WorkerEvent /\ "tool.started" \notin Closing
        /\ Closing = {"tool.finished", "tool.error"}
    BY DEF WorkerEvent, Closing
  <2>5. \A k \in DOMAIN rows : /\ rows[k].startedAt = request[rows[k].call].startedAt
                               /\ InvKey(rows[k]) = <<request[rows[k].call].task, tool, PrincipalOf[s]>>
                               /\ rows[k].call \in Executions /\ request[rows[k].call].session = s
    BY <2>2 DEF ReadsCalls, IsOfFetch, InvKey
  <2>6. \A d \in Executions : Started(d) /\ request[d].session = s =>
          \E k \in DOMAIN rows : rows[k].call = d /\ rows[k].eventType = "tool.started"
    <3> SUFFICES ASSUME NEW d \in Executions, Started(d), request[d].session = s
                 PROVE  \E k \in DOMAIN rows : rows[k].call = d /\ rows[k].eventType = "tool.started"
      OBVIOUS
    <3>1. PICK i \in DOMAIN trail : trail[i].call = d /\ trail[i].eventType = "tool.started"
      BY DEF Started, Has
    <3>2. trail[i].sessionId = s
      BY <3>1 DEF IInv, IsOfFetch
    <3> QED  BY <2>2, <3>1, <3>2 DEF ReadsCalls
  <2>7. ASSUME NEW d \in Executions, Started(d), request[d].session = s,
               \A e \in Others(d) : request[e].startedAt < request[d].startedAt
        PROVE  Reports(violations, "unmatched_started", d) <=> ~Closed(d)
    <3>1. PICK k \in DOMAIN rows : rows[k].call = d /\ rows[k].eventType = "tool.started"
      BY <2>6, <2>7
    <3>2. ASSUME NEW i \in DOMAIN rows, rows[i].call = d, rows[i].eventType = "tool.started"
          PROVE  i = k
      <4>1. i \in Int /\ k \in Int
        BY <2>1
      <4>2. ~(i < k) /\ ~(k < i)
        BY <2>2, <2>4, <3>1, <3>2 DEF ReadsCalls
      <4> QED  BY <4>1, <4>2
    <3>3. Reports(violations, "unmatched_started", d) <=> OpenAt(rows, k, n)
      BY <2>3, <3>1, <3>2 DEF OpenAt
    <3>4. ASSUME Closed(d) PROVE ~OpenAt(rows, k, n)
      <4>1. PICK i \in DOMAIN trail : trail[i].call = d /\ trail[i].eventType \in Closing
        BY <2>4, <3>4 DEF Closed, Has
      <4>2. trail[i].sessionId = s
        BY <2>7, <4>1 DEF IInv, IsOfFetch
      <4>3. PICK l \in DOMAIN rows : rows[l] = trail[i]
        BY <2>2, <4>2 DEF ReadsCalls
      <4>4. ~(l < k) /\ l # k
        BY <2>2, <2>4, <3>1, <4>1, <4>3 DEF ReadsCalls
      <4>5. k < l /\ l \leq n
        BY <2>1, <4>4
      <4>6. Touches(rows[l]) /\ InvKey(rows[l]) = InvKey(rows[k])
        BY <2>5, <3>1, <4>1, <4>3 DEF Touches
      <4> QED  BY <4>5, <4>6 DEF OpenAt
    <3>5. ASSUME ~Closed(d) PROVE OpenAt(rows, k, n)
      <4>1. ASSUME NEW j \in DOMAIN rows, k < j, Touches(rows[j]), InvKey(rows[j]) = InvKey(rows[k])
            PROVE  FALSE
        <5>1. PICK e \in Executions : e = rows[j].call
          BY <2>5
        <5>2. CASE e = d
          <6>1. rows[j].eventType \in Closing
            BY <2>2, <2>4, <3>1, <4>1, <5>1, <5>2 DEF ReadsCalls, Touches
          <6>2. PICK i \in DOMAIN trail : rows[j] = trail[i]
            BY <2>2 DEF ReadsCalls
          <6> QED  BY <2>4, <3>5, <5>1, <5>2, <6>1, <6>2 DEF Closed, Has
        <5>3. CASE e # d
          <6>1. Started(e) /\ request[e].session = s
            BY <2>1, <2>2, <4>1, <5>1, TouchingCalls
          <6>2. request[e].task = request[d].task
            BY <2>5, <3>1, <4>1, <5>1
          <6>3. e \in Others(d)
            BY <2>7, <5>3, <6>1, <6>2 DEF SameKey
          <6>4. request[e].startedAt < request[d].startedAt
            BY <2>7, <6>3
          <6>5. /\ rows[k].startedAt \in Nat /\ rows[j].startedAt \in Nat
                /\ rows[k].startedAt \leq rows[j].startedAt
            BY <2>2, <4>1 DEF ReadsCalls
          <6>6. rows[k].startedAt = request[d].startedAt /\ rows[j].startedAt = request[e].startedAt
            BY <2>5, <3>1, <5>1
          <6> QED  BY <6>4, <6>5, <6>6
        <5> QED  BY <5>2, <5>3
      <4>2. k \leq n
        BY <2>1
      <4> QED  BY <3>1, <4>1, <4>2 DEF OpenAt
    <3> QED  BY <3>3, <3>4, <3>5
  <2>8. ASSUME NEW d \in Executions, Reports(violations, "orphaned_finished", d)
        PROVE  \E e \in Others(d) : request[e].startedAt = request[d].startedAt
    <3>1. PICK k \in DOMAIN rows : Orphan(rows, k) /\ rows[k].call = d
      BY <2>3, <2>8
    <3>2. rows[k].eventType \in Closing /\ Touches(rows[k])
      BY <3>1 DEF Orphan, Touches
    <3>3. PICK l \in DOMAIN rows :
            l \leq k /\ rows[l].call = d /\ rows[l].eventType = "tool.started"
      BY <2>1, <2>2, <3>1, <3>2, TouchingCalls
    <3>4. l < k /\ l \leq k - 1
      <4>1. l # k
        BY <2>4, <3>2, <3>3
      <4> QED  BY <2>1, <3>3, <4>1
    <3>5. ~OpenAt(rows, l, k - 1)
      <4>1. InvKey(rows[l]) = InvKey(rows[k])
        BY <2>5, <3>1, <3>3
      <4> QED  BY <3>1, <4>1 DEF Orphan
    <3>6. PICK j \in DOMAIN rows : /\ l < j /\ j \leq k - 1 /\ Touches(rows[j])
                                   /\ InvKey(rows[j]) = InvKey(rows[l])
      BY <3>3, <3>4, <3>5 DEF OpenAt
    <3>7. j < k
      BY <2>1, <3>6
    <3>8. PICK e \in Executions : e = rows[j].call
      BY <2>5
    <3>9. e # d
      <4>1. e = d => rows[j].eventType \in WorkerEvent /\ rows[j].eventType = "tool.started"
        BY <2>2, <3>1, <3>3, <3>6, <3>7, <3>8 DEF ReadsCalls
      <4> QED  BY <2>4, <4>1
    <3>10. Started(e) /\ request[e].session = s
      BY <2>1, <2>2, <3>6, <3>8, TouchingCalls
    <3>11. request[e].task = request[d].task /\ request[d].session = s
      BY <2>5, <3>3, <3>6, <3>8
    <3>12. e \in Others(d)
      BY <3>9, <3>10, <3>11 DEF SameKey
    <3>13. request[e].startedAt = request[d].startedAt
      <4>1. /\ rows[l].startedAt \in Nat /\ rows[j].startedAt \in Nat /\ rows[k].startedAt \in Nat
            /\ rows[l].startedAt \leq rows[j].startedAt /\ rows[j].startedAt \leq rows[k].startedAt
        BY <2>2, <3>6, <3>7 DEF ReadsCalls
      <4>2. /\ rows[l].startedAt = request[d].startedAt /\ rows[k].startedAt = request[d].startedAt
            /\ rows[j].startedAt = request[e].startedAt
        BY <2>5, <3>1, <3>3, <3>8
      <4> QED  BY <4>1, <4>2
    <3> QED  BY <3>12, <3>13
  <2>9. ASSUME NEW d \in Executions
        PROVE  Reports(violations, "denial_without_policy", d) <=>
                 Has(d, {"tool.denied"}) /\ request[d].session = s
    <3>1. \A k \in DOMAIN rows : Ungrounded(rows[k]) <=> rows[k].eventType = "tool.denied"
      BY <2>2 DEF ReadsCalls, IsOfFetch, Ungrounded, Denying
    <3>2. ASSUME NEW k \in DOMAIN rows, rows[k].eventType = "tool.denied", rows[k].call = d
          PROVE  Has(d, {"tool.denied"}) /\ request[d].session = s
      BY <2>2, <2>5, <3>2 DEF ReadsCalls, Has
    <3>3. ASSUME Has(d, {"tool.denied"}), request[d].session = s
          PROVE  \E k \in DOMAIN rows : rows[k].eventType = "tool.denied" /\ rows[k].call = d
      <4>1. PICK i \in DOMAIN trail : trail[i].call = d /\ trail[i].eventType = "tool.denied"
        BY <3>3 DEF Has
      <4>2. trail[i].sessionId = s
        BY <3>3, <4>1 DEF IInv, IsOfFetch
      <4> QED  BY <2>2, <4>1, <4>2 DEF ReadsCalls
    <3> QED  BY <2>3, <3>1, <3>2, <3>3
  <2>10. \A d : ~Ended(d) => ~Closed(d)
    BY DEF Ended, Closed, Has, WorkerEvent
  <2> QED  BY <2>7, <2>8, <2>9, <2>10
<1> HIDE DEF Right
<1>2. \A s \in Sessions : Right(CheckAuditIntegrity(QueryBySession(trail, s)), s)
  BY <1>1, Zenon
<1> QED  BY <1>2, Zenon DEF IntegrityKnowsOpenCalls, Right, Reports

-----------------------------------------------------------------------------
(* Type correctness.                                                       *)
THEOREM TypeCorrect == Spec => []TypeOK
<1>1. IInv => TypeOK
  BY DEF IInv
<1> QED  BY <1>1, InvariantHolds, PTL

(* Whatever is asked for and whatever servers answer, a request only ever  *)
(* goes to a host that is a name on the allowlist.                         *)
THEOREM HostsAreAllowed == Spec => []OnlyAllowedHostsContacted
<1>1. IInv => OnlyAllowedHostsContacted
  BY DEF IInv
<1> QED  BY <1>1, InvariantHolds, PTL

(* Wherever the process stops, what the trail tells of a fetch was kept    *)
(* and charged, what it does not tell was not, and the budget is what the  *)
(* charges have left.                                                      *)
THEOREM TrailTellsWhatWasDone == Spec => []RecordedMeansDone
  BY InvariantHolds, RecordsAreRight, PTL

(* Operators read the records of each call together, and the calls in the  *)
(* order in which they started, however many overlapped.                   *)
THEOREM ReplayIsInOrder == Spec => []ReplayFollowsStartOrder
  BY InvariantHolds, OrderIsRight, PTL

(* The integrity check reports the last call of a key if nothing tells its *)
(* end, and does not if it is closed, within what the millisecond of a     *)
(* record can tell.                                                        *)
THEOREM IntegrityCheckIsRight == Spec => []IntegrityKnowsOpenCalls
  BY InvariantHolds, IntegrityIsRight, PTL

(* The comparison of two sessions lists something of exactly the keys they *)
(* differ in, and the same from either side.                               *)
THEOREM ComparisonTellsKeys == Spec => []DiffTellsOutcomes
  BY InvariantHolds, DiffIsRight, PTL
=============================================================================
