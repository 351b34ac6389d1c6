--------------------------- MODULE OperatorProofs ---------------------------
(***************************************************************************)
(* The two tables operators decide with, for any rules and any requests.   *)
(*                                                                         *)
(* The policy editor: a route that writes the rule table leaves the engine *)
(* with all of the new listing, a posted rule is tried where its order     *)
(* says, and an exported set can be restored.                              *)
(*                                                                         *)
(* The approvals inbox: a request is answered once unless two processes    *)
(* race, and the inbox and what callers were told agree, for any           *)
(* approvers and calls, at the gateway and from the CLI.                   *)
(***************************************************************************)
EXTENDS PolicyEditor, Approvals, TLAPS, FiniteSetTheorems, SequenceTheorems

Rows == [id : Ids, body : Bodies, order : Int]

(* A table: rows of which no two have one id.                              *)
Tabled(rows) ==
  /\ rows \in Seq(Rows)
  /\ \A i, j \in DOMAIN rows : rows[i].id = rows[j].id => i = j

(* Rows in the order in which they are listed.                             *)
Ascending(rows) == \A i, j \in DOMAIN rows : i < j => rows[i].order \leq rows[j].order

-----------------------------------------------------------------------------
(* Rows come in a total order.                                             *)
LEMMA RowsAreOrdered ==
  ASSUME NEW rows \in Seq(Rows)
  PROVE  /\ IsFiniteSet(DOMAIN rows) /\ DOMAIN rows = 1..Len(rows) /\ Len(rows) \in Nat
         /\ \A i \in DOMAIN rows : rows[i].order \in Int /\ i \in Nat
         /\ \A i \in DOMAIN rows : ~Before(rows, i, i)
         /\ \A i, j \in DOMAIN rows : i # j => Before(rows, i, j) \/ Before(rows, j, i)
         /\ \A i, j, k \in DOMAIN rows :
              Before(rows, i, j) /\ Before(rows, j, k) => Before(rows, i, k)
<1>1. DOMAIN rows = 1..Len(rows) /\ Len(rows) \in Nat
  OBVIOUS
<1>2. ASSUME NEW i \in DOMAIN rows
      PROVE  rows[i].order \in Int /\ i \in Nat
  <2>1. rows[i] \in Rows /\ i \in Nat
    BY <1>1
  <2> QED  BY <2>1 DEF Rows
<1>3. IsFiniteSet(DOMAIN rows)
  <2>1. PICK n \in Nat : DOMAIN rows = 1..n
    BY <1>1
  <2> QED  BY <2>1, FS_Interval
<1> QED  BY <1>1, <1>2, <1>3 DEF Before

(* Places are numbers of rows, and a row that comes before another has a   *)
(* lower one.                                                              *)
LEMMA PlacesAscend ==
  ASSUME NEW rows \in Seq(Rows)
  PROVE  /\ \A i \in DOMAIN rows : Place(rows, i) \in DOMAIN rows
         /\ \A i, j \in DOMAIN rows : Before(rows, i, j) => Place(rows, i) < Place(rows, j)
<1> DEFINE Ahead(i) == {j \in DOMAIN rows : Before(rows, j, i)}
<1>1. \A i : IsFiniteSet(Ahead(i)) /\ Cardinality(Ahead(i)) \in Nat
  BY RowsAreOrdered, FS_Subset, FS_CardinalityType
<1>2. \A i : Place(rows, i) = Cardinality(Ahead(i)) + 1
  BY DEF Place
<1>3. ASSUME NEW i \in DOMAIN rows
      PROVE  Place(rows, i) \in DOMAIN rows
  <2>1. Ahead(i) \subseteq DOMAIN rows /\ Ahead(i) # DOMAIN rows
    BY <1>3, RowsAreOrdered
  <2>2. Cardinality(Ahead(i)) < Cardinality(DOMAIN rows)
    <3> HIDE DEF Ahead
    <3> QED  BY <2>1, RowsAreOrdered, FS_Subset, FS_CardinalityType
  <2>3. Cardinality(DOMAIN rows) = Len(rows)
    <3>1. PICK n \in Nat : DOMAIN rows = 1..n /\ n = Len(rows)
      BY RowsAreOrdered
    <3>2. Cardinality(1..n) = n
      BY FS_Interval
    <3> QED  BY <3>1, <3>2
  <2> HIDE DEF Ahead
  <2> QED  BY <1>1, <1>2, <2>2, <2>3, RowsAreOrdered
<1>4. ASSUME NEW i \in DOMAIN rows, NEW j \in DOMAIN rows, Before(rows, i, j)
      PROVE  Place(rows, i) < Place(rows, j)
  <2>1. Ahead(i) \subseteq Ahead(j) /\ i \in Ahead(j) /\ i \notin Ahead(i)
    BY <1>4, RowsAreOrdered
  <2>2. Cardinality(Ahead(i)) < Cardinality(Ahead(j))
    <3> HIDE DEF Ahead
    <3> QED  BY <1>1, <2>1, FS_Subset
  <2> HIDE DEF Ahead
  <2> QED  BY <1>1, <1>2, <2>2
<1> QED  BY <1>3, <1>4

(* Every place is that of one row.                                         *)
LEMMA PlacesAreRows ==
  ASSUME NEW rows \in Seq(Rows)
  PROVE  /\ \A k \in DOMAIN rows : RowAt(rows, k) \in DOMAIN rows /\ Place(rows, RowAt(rows, k)) = k
         /\ \A i \in DOMAIN rows : RowAt(rows, Place(rows, i)) = i
<1>1. PICK n \in Nat : n = Len(rows) /\ DOMAIN rows = 1..n
  BY RowsAreOrdered
<1>2. PICK f : f = [i \in 1..n |-> Place(rows, i)]
  OBVIOUS
<1>3. \A i, j \in DOMAIN rows : Place(rows, i) = Place(rows, j) => i = j
  <2> SUFFICES ASSUME NEW i \in DOMAIN rows, NEW j \in DOMAIN rows, i # j
               PROVE  Place(rows, i) # Place(rows, j)
    OBVIOUS
  <2>1. Place(rows, i) \in Nat /\ Place(rows, j) \in Nat
    BY <1>1, PlacesAscend
  <2>2. Place(rows, i) < Place(rows, j) \/ Place(rows, j) < Place(rows, i)
    BY PlacesAscend, RowsAreOrdered
  <2> QED  BY <2>1, <2>2
<1>4. f \in Injection(1..n, 1..n)
  BY <1>1, <1>2, <1>3, PlacesAscend DEF Injection, IsInjective
<1>5. IsFiniteSet(1..n)
  BY FS_Interval
<1>6. f \in Surjection(1..n, 1..n)
  BY <1>4, <1>5, FS_Injection
<1>7. \A k \in DOMAIN rows : \E i \in DOMAIN rows : Place(rows, i) = k
  BY <1>1, <1>2, <1>6 DEF Surjection
<1>8. \A k \in DOMAIN rows : RowAt(rows, k) \in DOMAIN rows /\ Place(rows, RowAt(rows, k)) = k
  BY <1>7 DEF RowAt
<1>9. \A i \in DOMAIN rows : RowAt(rows, Place(rows, i)) = i
  BY <1>3, <1>8, PlacesAscend
<1> QED  BY <1>8, <1>9

(* What is listed is a table, in its order.                                *)
LEMMA ListingIsTable ==
  ASSUME NEW rows, Tabled(rows)
  PROVE  Tabled(Sorted(rows)) /\ Ascending(Sorted(rows))
<1>1. rows \in Seq(Rows)
  BY DEF Tabled
<1>2. /\ DOMAIN Sorted(rows) = DOMAIN rows /\ DOMAIN rows = 1..Len(rows) /\ Len(rows) \in Nat
      /\ \A k \in DOMAIN rows : Sorted(rows)[k] = rows[RowAt(rows, k)]
  BY <1>1, RowsAreOrdered DEF Sorted
<1>3. \A k \in DOMAIN rows : RowAt(rows, k) \in DOMAIN rows /\ Place(rows, RowAt(rows, k)) = k
  BY <1>1, PlacesAreRows
<1>4. Sorted(rows) \in Seq(Rows)
  <2>1. \A k \in 1..Len(rows) : rows[RowAt(rows, k)] \in Rows
    BY <1>1, <1>2, <1>3
  <2> QED  BY <1>2, <2>1 DEF Sorted
<1>5. ASSUME NEW i \in DOMAIN rows, NEW j \in DOMAIN rows, Sorted(rows)[i].id = Sorted(rows)[j].id
      PROVE  i = j
  <2>1. RowAt(rows, i) = RowAt(rows, j)
    BY <1>2, <1>3, <1>5 DEF Tabled
  <2> QED  BY <1>3, <2>1
<1>6. ASSUME NEW i \in DOMAIN rows, NEW j \in DOMAIN rows, i < j
      PROVE  Sorted(rows)[i].order \leq Sorted(rows)[j].order
  <2>1. PICK a \in DOMAIN rows : a = RowAt(rows, i) /\ Place(rows, a) = i
    BY <1>3
  <2>2. PICK b \in DOMAIN rows : b = RowAt(rows, j) /\ Place(rows, b) = j
    BY <1>3
  <2>3. i \in Nat /\ j \in Nat /\ rows[a].order \in Int /\ rows[b].order \in Int
    BY <1>1, RowsAreOrdered
  <2>4. ~Before(rows, b, a)
    BY <1>1, <1>6, <2>1, <2>2, <2>3, PlacesAscend
  <2>5. rows[a].order \leq rows[b].order
    BY <2>3, <2>4 DEF Before
  <2> QED  BY <1>2, <2>1, <2>2, <2>5
<1> QED  BY <1>2, <1>4, <1>5, <1>6 DEF Tabled, Ascending

(* A table in its order is listed as it is.                                *)
LEMMA ListingOfListing ==
  ASSUME NEW rows \in Seq(Rows), Ascending(rows)
  PROVE  Sorted(rows) = rows
<1>1. \A i \in DOMAIN rows : Place(rows, i) = i
  <2> SUFFICES ASSUME NEW i \in DOMAIN rows PROVE Place(rows, i) = i
    OBVIOUS
  <2>1. {j \in DOMAIN rows : Before(rows, j, i)} = 1..i - 1
    <3>1. ASSUME NEW j \in DOMAIN rows PROVE Before(rows, j, i) <=> j < i
      BY RowsAreOrdered DEF Before, Ascending
    <3> QED  BY <3>1, RowsAreOrdered
  <2>2. PICK m \in Nat : i = m + 1
    <3>1. i \in Nat /\ i \in 1..Len(rows)
      BY RowsAreOrdered
    <3>2. i - 1 \in Nat /\ i = (i - 1) + 1
      BY <3>1
    <3> QED  BY <3>2
  <2>3. i - 1 = m /\ Cardinality(1..m) = m
    BY <2>2, FS_Interval
  <2> QED  BY <2>1, <2>2, <2>3 DEF Place
<1>2. \A k \in DOMAIN rows : RowAt(rows, k) = k
  BY <1>1, PlacesAreRows
<1>3. rows = [k \in DOMAIN rows |-> rows[k]]
  OBVIOUS
<1> QED  BY <1>2, <1>3 DEF Sorted

(* Where rows come depends on their orders alone.                          *)
LEMMA OrdersPlace ==
  ASSUME NEW rows, NEW others, DOMAIN rows = DOMAIN others,
         \A i \in DOMAIN rows : rows[i].order = others[i].order
  PROVE  \A k : RowAt(rows, k) = RowAt(others, k)
<1>1. \A i, j \in DOMAIN rows : Before(rows, j, i) <=> Before(others, j, i)
  BY DEF Before
<1>2. ASSUME NEW i \in DOMAIN rows
      PROVE  Place(rows, i) = Place(others, i)
  <2>1. {j \in DOMAIN rows : Before(rows, j, i)} = {j \in DOMAIN others : Before(others, j, i)}
    BY <1>1
  <2> QED  BY <2>1 DEF Place
<1> QED  BY <1>2 DEF RowAt

-----------------------------------------------------------------------------
(* A row that is put into a table is in it, and nothing else changes.      *)
LEMMA PutIntoTable ==
  ASSUME NEW rows, Tabled(rows), NEW row \in Rows
  PROVE  /\ Tabled(Put(rows, row))
         /\ \E p \in DOMAIN Put(rows, row) : Put(rows, row)[p] = row
<1>1. rows \in Seq(Rows) /\ DOMAIN rows = 1..Len(rows) /\ Len(rows) \in Nat
  BY RowsAreOrdered DEF Tabled
<1>2. CASE Has(rows, row.id)
  <2>1. PICK p \in DOMAIN rows : rows[p].id = row.id
    BY <1>2 DEF Has
  <2>2. \A i \in DOMAIN rows : IsFirstOf(rows, row.id, i) <=> i = p
    BY <1>1, <2>1 DEF Tabled, IsFirstOf
  <2>3. Put(rows, row) = [i \in 1..Len(rows) |-> IF i = p THEN row ELSE rows[i]]
    BY <1>1, <1>2, <2>2 DEF Put
  <2>4. Put(rows, row) \in Seq(Rows)
    BY <1>1, <2>3
  <2>5. \A i \in DOMAIN rows : Put(rows, row)[i].id = rows[i].id
    BY <1>1, <2>1, <2>3
  <2>6. DOMAIN Put(rows, row) = DOMAIN rows /\ Put(rows, row)[p] = row
    BY <1>1, <2>1, <2>3
  <2> QED  BY <2>1, <2>4, <2>5, <2>6 DEF Tabled
<1>3. CASE ~Has(rows, row.id)
  <2>1. Put(rows, row) = Append(rows, row)
    BY <1>3 DEF Put
  <2>2. /\ Append(rows, row) \in Seq(Rows) /\ DOMAIN Append(rows, row) = 1..Len(rows) + 1
        /\ Append(rows, row)[Len(rows) + 1] = row
        /\ \A i \in 1..Len(rows) : Append(rows, row)[i] = rows[i]
    BY <1>1
  <2>3. \A i \in 1..Len(rows) : rows[i].id # row.id
    BY <1>1, <1>3 DEF Has
  <2>4. \A i, j \in 1..Len(rows) + 1 :
          Append(rows, row)[i].id = Append(rows, row)[j].id => i = j
    <3> SUFFICES ASSUME NEW i \in 1..Len(rows) + 1, NEW j \in 1..Len(rows) + 1,
                        Append(rows, row)[i].id = Append(rows, row)[j].id
                 PROVE  i = j
      OBVIOUS
    <3>1. i = Len(rows) + 1 \/ i \in 1..Len(rows)
      BY <1>1
    <3>2. j = Len(rows) + 1 \/ j \in 1..Len(rows)
      BY <1>1
    <3> QED  BY <1>1, <2>2, <2>3, <3>1, <3>2 DEF Tabled
  <2>5. Len(rows) + 1 \in 1..Len(rows) + 1
    BY <1>1
  <2> QED  BY <2>1, <2>2, <2>4, <2>5 DEF Tabled
<1> QED  BY <1>2, <1>3

(* A sequence of n rows less the p-th of them.                             *)
LessOne(rows, n, p, left) ==
  /\ left \in Seq(Rows) /\ Len(left) = n - 1
  /\ \A i \in 1..n - 1, j \in 1..n :
       j = (IF i < p THEN i ELSE i + 1) => left[i] = rows[j]

(* RemoveAt takes one row away.                                            *)
LEMMA RemoveTakesOne ==
  ASSUME NEW s \in Seq(Rows), NEW n \in Nat, Len(s) = n, NEW p \in 1..n
  PROVE  LessOne(s, n, p, RemoveAt(s, p))
<1>1. PICK a \in 0..n, b \in 0..n : a = p - 1 /\ b = n - p
  OBVIOUS
<1>2. p \in 0..n /\ n - p = b /\ p = a + 1 /\ a + b = n - 1
  BY <1>1
<1>3. /\ SubSeq(s, 1, a) \in Seq(Rows) /\ Len(SubSeq(s, 1, a)) = a
      /\ \A i \in 1..a : SubSeq(s, 1, a)[i] = s[i]
  OBVIOUS
<1>4. SubSeq(s, p + 1, n) \in Seq(Rows) /\ Len(SubSeq(s, p + 1, n)) = n - p
  BY <1>2
<1>5. \A i \in 1..n - p : SubSeq(s, p + 1, n)[i] = s[p + i]
  BY <1>2
<1>6. PICK head \in Seq(Rows) : head = SubSeq(s, 1, a)
  BY <1>3
<1>7. PICK rest \in Seq(Rows) : rest = SubSeq(s, p + 1, n)
  BY <1>4
<1>8. Len(head) = a /\ Len(rest) = b
  BY <1>2, <1>3, <1>4, <1>6, <1>7
<1>9. PICK left \in Seq(Rows) : left = head \o rest
  BY ConcatProperties
<1>10. /\ Len(left) = Len(head) + Len(rest)
       /\ \A i \in 1..Len(head) + Len(rest) :
            left[i] = IF i <= Len(head) THEN head[i] ELSE rest[i - Len(head)]
  BY <1>9, ConcatProperties
<1>11. left = RemoveAt(s, p)
  BY <1>1, <1>6, <1>7, <1>9 DEF RemoveAt
<1>12. ASSUME NEW i \in 1..n - 1, NEW j \in 1..n, j = IF i < p THEN i ELSE i + 1
       PROVE  left[i] = s[j]
  <2>0. i \in 1..a + b /\ j = IF i <= a THEN i ELSE i + 1
    BY <1>2, <1>12
  <2>1. left[i] = IF i <= a THEN head[i] ELSE rest[i - a]
    BY <1>8, <1>10, <2>0
  <2>2. CASE i <= a
    <3>1. i \in 1..a /\ j = i
      BY <2>0, <2>2
    <3>2. head[i] = s[i]
      BY <1>3, <1>6, <3>1
    <3> QED  BY <2>1, <2>2, <3>1, <3>2
  <2>3. CASE ~(i <= a)
    <3>1. PICK k \in 1..n - p : k = i - a
      BY <1>2, <2>0, <2>3
    <3>2. j = p + k
      BY <1>2, <2>0, <2>3, <3>1
    <3>3. rest[k] = s[p + k]
      BY <1>5, <1>7
    <3> QED  BY <2>1, <2>3, <3>1, <3>2, <3>3
  <2> QED  BY <2>2, <2>3
<1> QED  BY <1>2, <1>8, <1>10, <1>11, <1>12 DEF LessOne

(* A table less one of its rows is a table.                                *)
LEMMA TableWithoutRow ==
  ASSUME NEW rows, Tabled(rows), NEW p \in DOMAIN rows
  PROVE  Tabled(RemoveAt(rows, p))
<1>1. rows \in Seq(Rows) /\ DOMAIN rows = 1..Len(rows) /\ Len(rows) \in Nat
  BY RowsAreOrdered DEF Tabled
<1>2. PICK n \in Nat : n = Len(rows)
  BY <1>1
<1>3. PICK k \in 1..n : k = p
  BY <1>1, <1>2
<1>4. PICK left : left = RemoveAt(rows, k) /\ LessOne(rows, n, k, left)
  BY <1>1, <1>2, RemoveTakesOne
<1>5. left \in Seq(Rows) /\ DOMAIN left = 1..n - 1
  BY <1>4 DEF LessOne
<1>6. ASSUME NEW i \in 1..n - 1, NEW j \in 1..n - 1, left[i].id = left[j].id
      PROVE  i = j
  <2>1. PICK x \in 1..n : x = IF i < k THEN i ELSE i + 1
    OBVIOUS
  <2>2. PICK y \in 1..n : y = IF j < k THEN j ELSE j + 1
    OBVIOUS
  <2>3. left[i] = rows[x] /\ left[j] = rows[y]
    BY <1>4, <2>1, <2>2 DEF LessOne
  <2>4. x = y
    BY <1>1, <1>2, <1>6, <2>3 DEF Tabled
  <2> QED  BY <2>1, <2>2, <2>4
<1> QED  BY <1>3, <1>4, <1>5, <1>6 DEF Tabled

-----------------------------------------------------------------------------
(* Every non-empty set of natural numbers has a least member.              *)
LEMMA LeastExists ==
  ASSUME NEW T \in SUBSET Nat, T # {}
  PROVE  \E n \in T : \A m \in T : n \leq m
<1> DEFINE Segments == {0..n : n \in T}
<1>1. IsWellFoundedOn(StrictSubsetOrdering(Nat), FiniteSubsetsOf(Nat))
  BY FS_StrictSubsetOrderingWellFounded
<1>2. Segments \subseteq FiniteSubsetsOf(Nat)
  <2>1. \A n \in T : IsFiniteSet(0..n) /\ 0..n \subseteq Nat
    BY FS_Interval
  <2> QED  BY <2>1 DEF FiniteSubsetsOf
<1>3. Segments # {}
  OBVIOUS
<1> HIDE DEF Segments
<1>4. PICK s \in Segments : \A r \in Segments : <<r, s>> \notin StrictSubsetOrdering(Nat)
  BY <1>1, <1>2, <1>3, WFMin
<1>5. PICK n \in T : s = 0..n
  BY <1>4 DEF Segments
<1>6. ASSUME NEW m \in T, m < n
      PROVE  FALSE
  <2>1. 0..m \in Segments /\ 0..m \subseteq 0..n /\ 0..m \subseteq Nat /\ 0..n \subseteq Nat
    BY <1>6 DEF Segments
  <2>2. n \in 0..n /\ n \notin 0..m
    BY <1>6
  <2>3. <<0..m, 0..n>> \in StrictSubsetOrdering(Nat)
    BY <2>1, <2>2 DEF StrictSubsetOrdering
  <2> QED  BY <1>4, <1>5, <2>1, <2>3
<1> QED  BY <1>6

(* A set of positions has a last one.                                      *)
LEMMA LastExists ==
  ASSUME NEW n \in Nat, NEW s \in SUBSET (1..n), s # {}
  PROVE  Max(s) \in s /\ \A y \in s : Max(s) >= y
<1> DEFINE Back == {n - x : x \in s}
<1>0. \A x \in s : x \in Nat /\ n - x \in Nat
  OBVIOUS
<1>1. Back \in SUBSET Nat /\ Back # {}
  BY <1>0
<1>2. PICK m \in Back : \A l \in Back : m \leq l
  <2> HIDE DEF Back
  <2> QED  BY <1>1, LeastExists
<1>3. PICK x \in s : m = n - x
  BY <1>2
<1>4. ASSUME NEW y \in s PROVE x >= y
  <2>1. n - y \in Back
    OBVIOUS
  <2>2. n - x \leq n - y
    BY <1>2, <1>3, <2>1
  <2> QED  BY <1>0, <2>2
<1> QED  BY <1>3, <1>4 DEF Max

(* What the fold behind FoldLeft(UpsertRule, ...) computes for the sets of *)
(* positions in D.                                                         *)
FoldsOn(g, base, bundle, D) ==
  g = [s \in D |-> IF s = {} THEN base ELSE Put(g[s \ {Max(s)}], bundle[Max(s)])]

(* There is such a function: the sets of m + 1 positions follow those of m. *)
LEMMA FoldsExist ==
  ASSUME NEW base, NEW bundle, NEW n \in Nat
  PROVE  \E g : FoldsOn(g, base, bundle, SUBSET (1..n))
<1> DEFINE S == 1..n
           D(m) == {s \in SUBSET S : Cardinality(s) <= m}
           Missing == {m \in Nat : ~ \E g : FoldsOn(g, base, bundle, D(m))}
<1>0. IsFiniteSet(S)
  BY FS_Interval
<1>1. \A s \in SUBSET S : IsFiniteSet(s) /\ Cardinality(s) \in Nat
  BY <1>0, FS_Subset, FS_CardinalityType
<1>2. ASSUME NEW m \in Nat, m > 0, NEW s \in D(m), s # {}
      PROVE  s \ {Max(s)} \in D(m - 1)
  <2>1. Max(s) \in s
    BY <1>2, LastExists
  <2>2. Cardinality(s \ {Max(s)}) = Cardinality(s) - 1
    BY <1>1, <1>2, <2>1, FS_RemoveElement
  <2>3. s \ {Max(s)} \in SUBSET S /\ Cardinality(s) <= m
    BY <1>2
  <2>4. Cardinality(s \ {Max(s)}) <= m - 1
    BY <1>1, <1>2, <2>2, <2>3
  <2> QED  BY <2>3, <2>4
<1>3. ASSUME Missing # {} PROVE FALSE
  <2>1. PICK m \in Missing : \A l \in Missing : m <= l
    <3>1. Missing \in SUBSET Nat
      OBVIOUS
    <3> HIDE DEF Missing
    <3> QED  BY <1>3, <3>1, LeastExists
  <2>2. CASE m = 0
    <3>1. D(0) = {{}}
      <4>1. \A s \in D(0) : Cardinality(s) = 0
        BY <1>1
      <4>2. \A s \in D(0) : s = {}
        BY <1>1, <4>1, FS_EmptySet
      <4>3. {} \in D(0)
        BY FS_EmptySet
      <4> QED  BY <4>2, <4>3
    <3>2. FoldsOn([s \in D(0) |-> base], base, bundle, D(0))
      BY <3>1 DEF FoldsOn
    <3> QED  BY <2>1, <2>2, <3>2
  <2>3. CASE m > 0
    <3>1. m - 1 \in Nat /\ m - 1 \notin Missing
      <4>1. m \in Nat
        BY <2>1
      <4> HIDE DEF Missing
      <4> QED  BY <2>1, <2>3, <4>1
    <3>2. PICK g : FoldsOn(g, base, bundle, D(m - 1))
      BY <3>1
    <3> DEFINE h == [s \in D(m) |->
                      IF s = {} THEN base ELSE Put(g[s \ {Max(s)}], bundle[Max(s)])]
    <3>3. ASSUME NEW s \in D(m), s # {}
          PROVE  h[s \ {Max(s)}] = g[s \ {Max(s)}]
      <4> DEFINE r == s \ {Max(s)}
      <4>1. r \in D(m - 1)
        BY <1>2, <2>3, <3>3
      <4>2. r \in D(m)
        BY <1>1, <2>3, <4>1
      <4> HIDE DEF r, D
      <4>3. g[r] = IF r = {} THEN base ELSE Put(g[r \ {Max(r)}], bundle[Max(r)])
        BY <3>2, <4>1 DEF FoldsOn
      <4> QED  BY <4>2, <4>3 DEF r
    <3>4. FoldsOn(h, base, bundle, D(m))
      <4> HIDE DEF D
      <4> QED  BY <3>3 DEF FoldsOn
    <3> QED  BY <2>1, <3>4
  <2> QED  BY <2>1, <2>2, <2>3
<1>4. D(Cardinality(S)) = SUBSET S
  BY <1>0, FS_Subset, FS_CardinalityType
<1>5. Cardinality(S) \in Nat
  BY <1>0, FS_CardinalityType
<1> QED  BY <1>3, <1>4, <1>5

(* A function from 0..n that goes from the table an import starts with to  *)
(* the one it leaves, a row of the rule set at a time.                     *)
ImportsAlong(g, rows, bundle, merge, n) ==
  /\ g[0] = IF merge THEN rows ELSE <<>>
  /\ \A k \in 1..n : g[k] = Put(g[k - 1], bundle[k])
  /\ ImportRules(rows, bundle, merge) = g[n]

(* An import puts one rule after another.                                  *)
LEMMA ImportSteps ==
  ASSUME NEW rows, NEW bundle, NEW merge \in BOOLEAN, NEW n \in Nat, DOMAIN bundle = 1..n
  PROVE  \E g : ImportsAlong(g, rows, bundle, merge, n)
<1> DEFINE base == IF merge THEN rows ELSE <<>>
           Unfold(f) == [s \in SUBSET (DOMAIN bundle) |->
                           IF s = {} THEN base ELSE Put(f[s \ {Max(s)}], bundle[Max(s)])]
           iter == CHOOSE f : f = Unfold(f)
<1>1. ImportRules(rows, bundle, merge) = iter[DOMAIN bundle]
  BY Zenon DEF ImportRules, FoldLeft, MapThenFoldSet, UpsertRule
<1> HIDE DEF base
<1>0. ASSUME NEW f
      PROVE  FoldsOn(f, base, bundle, SUBSET (1..n)) <=> f = Unfold(f)
  BY DEF FoldsOn
<1>6. PICK h : FoldsOn(h, base, bundle, SUBSET (1..n))
  BY FoldsExist
<1> HIDE DEF Unfold
<1>7. h = Unfold(h)
  BY <1>0, <1>6
<1>8. iter = Unfold(iter)
  BY <1>7, Zenon
<1> HIDE DEF iter
<1>2. FoldsOn(iter, base, bundle, SUBSET (1..n))
  BY <1>0, <1>8
<1>3. PICK g : g = [k \in 0..n |-> iter[1..k]]
  OBVIOUS
<1>4. g[0] = base
  BY <1>2, <1>3 DEF FoldsOn
<1>5. ASSUME NEW k \in 1..n
      PROVE  g[k] = Put(g[k - 1], bundle[k])
  <2>1. Max(1..k) = k
    <3>1. 1..k \in SUBSET (1..n) /\ k \in 1..k
      OBVIOUS
    <3>2. Max(1..k) \in 1..k /\ Max(1..k) >= k
      BY <3>1, LastExists
    <3> QED  BY <3>2
  <2>2. 1..k \in SUBSET (1..n) /\ 1..k # {} /\ (1..k) \ {k} = 1..k - 1
    OBVIOUS
  <2>3. iter[1..k] = Put(iter[1..k - 1], bundle[k])
    BY <1>2, <2>1, <2>2 DEF FoldsOn
  <2> QED  BY <1>3, <2>3
<1>9. n \in 0..n /\ ImportRules(rows, bundle, merge) = iter[1..n]
  BY <1>1
<1>10. ImportRules(rows, bundle, merge) = g[n]
  BY <1>3, <1>9
<1>11. g[0] = IF merge THEN rows ELSE <<>>
  BY <1>4 DEF base
<1> QED  BY <1>5, <1>10, <1>11 DEF ImportsAlong

(* An import into a table gives a table.                                   *)
LEMMA ImportKeepsTable ==
  ASSUME NEW rows, Tabled(rows), NEW bundle \in Seq(Rows), NEW merge \in BOOLEAN
  PROVE  Tabled(ImportRules(rows, bundle, merge))
<1>1. PICK n \in Nat : DOMAIN bundle = 1..n
  OBVIOUS
<1>2. PICK g : /\ g[0] = IF merge THEN rows ELSE <<>>
               /\ \A k \in 1..n : g[k] = Put(g[k - 1], bundle[k])
               /\ ImportRules(rows, bundle, merge) = g[n]
  BY <1>1, ImportSteps DEF ImportsAlong
<1>4. Tabled(g[0])
  BY <1>2 DEF Tabled
<1> DEFINE Odd == {k \in 0..n : ~Tabled(g[k])}
<1>3. ASSUME Odd # {} PROVE FALSE
  <2>1. PICK k \in Odd : \A j \in Odd : k \leq j
    <3>1. Odd \in SUBSET Nat
      OBVIOUS
    <3> HIDE DEF Odd
    <3> QED  BY <1>3, <3>1, LeastExists
  <2>2. k \in 0..n /\ ~Tabled(g[k]) /\ k # 0
    BY <1>4, <2>1
  <2>3. k - 1 \in 0..n /\ k - 1 \notin Odd /\ k \in 1..n
    <3> HIDE DEF Odd
    <3> QED  BY <2>1, <2>2
  <2>4. Tabled(g[k - 1]) /\ bundle[k] \in Rows
    BY <1>1, <2>3
  <2> HIDE DEF Odd
  <2>5. g[k] = Put(g[k - 1], bundle[k])
    BY <1>2, <2>3
  <2> QED  BY <2>2, <2>4, <2>5, PutIntoTable
<1> QED  BY <1>2, <1>3

(* A table that is imported in place of another is what there is then.     *)
LEMMA ImportOfTable ==
  ASSUME NEW bundle, Tabled(bundle)
  PROVE  \A rows : ImportRules(rows, bundle, FALSE) = bundle
<1> SUFFICES ASSUME NEW rows PROVE ImportRules(rows, bundle, FALSE) = bundle
  OBVIOUS
<1>1. PICK n \in Nat : DOMAIN bundle = 1..n /\ n = Len(bundle) /\ bundle \in Seq(Rows)
  BY DEF Tabled
<1>2. PICK g : /\ g[0] = <<>> /\ \A k \in 1..n : g[k] = Put(g[k - 1], bundle[k])
               /\ ImportRules(rows, bundle, FALSE) = g[n]
  <2>1. \E g : ImportsAlong(g, rows, bundle, FALSE, n)
    BY <1>1, ImportSteps, Zenon
  <2> QED  BY <2>1 DEF ImportsAlong
<1> DEFINE Part(k) == [i \in 1..k |-> bundle[i]]
           Odd == {k \in 0..n : g[k] # Part(k)}
<1>3. ASSUME Odd # {} PROVE FALSE
  <2>1. PICK k \in Odd : \A j \in Odd : k \leq j
    <3>1. Odd \in SUBSET Nat
      OBVIOUS
    <3> HIDE DEF Odd
    <3> QED  BY <1>3, <3>1, LeastExists
  <2>2. k \in 0..n /\ g[k] # Part(k)
    BY <2>1
  <2>3. k # 0
    <3>1. Part(0) = <<>>
      OBVIOUS
    <3> QED  BY <1>2, <2>2, <3>1
  <2>4. k - 1 \in 0..n /\ k - 1 \notin Odd /\ k \in 1..n
    <3> HIDE DEF Odd
    <3> QED  BY <2>1, <2>2, <2>3
  <2>5. g[k - 1] = Part(k - 1) /\ g[k] = Put(g[k - 1], bundle[k])
    BY <1>2, <2>4
  <2>6. ~Has(Part(k - 1), bundle[k].id)
    <3>1. \A i \in 1..k - 1 : i \in 1..n /\ i # k
      BY <2>4
    <3> QED  BY <1>1, <2>4, <3>1 DEF Has, Tabled
  <2>7. Append(Part(k - 1), bundle[k]) = Part(k)
    <3>1. \A i \in 1..k : bundle[i] \in Rows
      BY <1>1, <2>4
    <3>2. PICK q \in Seq(Rows) : q = Part(k - 1)
      BY <2>4, <3>1
    <3>3. Len(q) = k - 1 /\ \A i \in 1..k - 1 : q[i] = bundle[i]
      BY <2>4, <3>2
    <3>4. PICK r \in Seq(Rows) : r = Append(q, bundle[k])
      <4>1. k \in 1..k
        BY <2>4
      <4>2. bundle[k] \in Rows
        BY <3>1, <4>1
      <4>3. Append(q, bundle[k]) \in Seq(Rows)
        BY <3>2, <4>2, AppendProperties
      <4> QED  BY <4>3
    <3>5. DOMAIN r = 1..k /\ \A i \in 1..k : r[i] = bundle[i]
      <4>1. Len(r) = k /\ r[k] = bundle[k] /\ \A i \in 1..k - 1 : r[i] = q[i]
        BY <2>4, <3>3, <3>4
      <4>2. \A i \in 1..k : i = k \/ i \in 1..k - 1
        BY <2>4
      <4> QED  BY <3>3, <3>4, <4>1, <4>2
    <3>6. r = [i \in DOMAIN r |-> r[i]]
      BY <3>4
    <3> QED  BY <3>2, <3>4, <3>5, <3>6
  <2> HIDE DEF Part, Odd
  <2> QED  BY <2>2, <2>5, <2>6, <2>7 DEF Put
<1>4. bundle = [i \in 1..n |-> bundle[i]]
  BY <1>1
<1>5. n \in 0..n
  OBVIOUS
<1> QED  BY <1>2, <1>3, <1>4, <1>5


-----------------------------------------------------------------------------
(* In a gateway with a table no two rows have one id, after any sequence of *)
(* edits, and an exported set is a table in its order.                     *)
Stored ==
  hasStore =>
    /\ Tabled(table)
    /\ Tabled(exported)
    /\ Ascending(exported)

(* The rows that a route is asked to put.                                  *)
LEMMA PostedIsRow ==
  ASSUME NEW id \in Ids, NEW body \in Bodies, NEW order \in Orders \cup {NoOrder}
  PROVE  Row(id, body, OrderOr(order, 100)) \in Rows
<1>1. OrderOr(order, 100) \in Int
  BY EditorAssumption DEF EditorAssumption, OrderOr
<1> QED  BY <1>1 DEF Row, Rows

(* An imported set without orders is given them: it becomes rows.          *)
LEMMA NumberedIsRows ==
  ASSUME NEW bundle \in Seq(Draft)
  PROVE  Numbered(bundle) \in Seq(Rows)
<1>1. PICK n \in Nat : DOMAIN bundle = 1..n
  OBVIOUS
<1>2. ASSUME NEW i \in 1..n
      PROVE  Row(bundle[i].id, bundle[i].body, OrderOr(bundle[i].order, (i - 1) * 10)) \in Rows
  <2>0. bundle[i] \in Draft
    BY <1>1
  <2>1. /\ bundle[i].id \in Ids /\ bundle[i].body \in Bodies
        /\ bundle[i].order \in Int \cup {NoOrder}
    BY <2>0 DEF Draft
  <2>2. (i - 1) * 10 \in Int
    OBVIOUS
  <2>3. OrderOr(bundle[i].order, (i - 1) * 10) \in Int
    BY <2>1, <2>2 DEF OrderOr
  <2> QED  BY <2>1, <2>3 DEF Row, Rows
<1> QED  BY <1>1, <1>2 DEF Numbered

(* Rows are such a set, and keep the orders they have.                     *)
LEMMA RowsAreNumbered ==
  ASSUME NEW rows \in Seq(Rows)
  PROVE  /\ rows \in Seq(Draft)
         /\ Numbered(rows) = rows
<1>1. Rows \subseteq Draft
  BY DEF Rows, Draft
<1>2. \A i \in DOMAIN rows : rows[i] \in Rows
  OBVIOUS
<1>3. rows \in Seq(Draft)
  <2>1. PICK n \in Nat : DOMAIN rows = 1..n
    OBVIOUS
  <2>2. rows = [i \in 1..n |-> rows[i]]
    BY <2>1
  <2>3. \A i \in 1..n : rows[i] \in Draft
    BY <1>1, <1>2, <2>1
  <2> QED  BY <2>1, <2>2, <2>3
<1>4. \A row \in Rows : \A default : Row(row.id, row.body, OrderOr(row.order, default)) = row
  BY EditorAssumption DEF EditorAssumption, Row, Rows, OrderOr
<1>5. rows = [i \in DOMAIN rows |-> rows[i]]
  OBVIOUS
<1> QED  BY <1>2, <1>3, <1>4, <1>5 DEF Numbered

(* Nothing is a table, too.                                                *)
LEMMA EmptyTable == Tabled(<<>>) /\ Ascending(<<>>)
BY DEF Tabled, Ascending

(* And there is nothing in the table at first, and no export.              *)
LEMMA StoredInit == Init => Stored
BY EmptyTable DEF Init, Stored

(* Stored is inductive: a route that writes the table puts rows into it or *)
(* takes one away.                                                         *)
LEMMA StepKeepsStored == Stored /\ [Next]_vars => Stored'
<1> SUFFICES ASSUME Stored, [Next]_vars
             PROVE  Stored'
  OBVIOUS
<1> SUFFICES ASSUME hasStore, hasStore' = hasStore
             PROVE  (Tabled(table) /\ Tabled(exported) /\ Ascending(exported))'
  BY DEF Stored, Next, Post, Delete, Reset, Export, Import, Restart, vars
<1>0. Tabled(table) /\ Tabled(exported) /\ Ascending(exported)
  BY DEF Stored
<1>1. ASSUME NEW id \in Ids, NEW body \in Bodies, NEW order \in Orders \cup {NoOrder},
             Post(id, body, order)
      PROVE  (Tabled(table) /\ Tabled(exported) /\ Ascending(exported))'
  <2>1. table' = Put(table, Row(id, body, OrderOr(order, 100))) /\ exported' = exported
    BY <1>1 DEF Post, UpsertRule
  <2>2. Tabled(Put(table, Row(id, body, OrderOr(order, 100))))
    BY <1>0, PostedIsRow, PutIntoTable
  <2> QED  BY <1>0, <2>1, <2>2
<1>2. ASSUME NEW id \in Ids, Delete(id)
      PROVE  (Tabled(table) /\ Tabled(exported) /\ Ascending(exported))'
  <2>1. PICK i \in DOMAIN table : table' = RemoveAt(table, i) /\ exported' = exported
    BY <1>2 DEF Delete, DeleteRule
  <2>2. Tabled(RemoveAt(table, i))
    BY <1>0, TableWithoutRow
  <2> QED  BY <1>0, <2>1, <2>2
<1>3. CASE Reset \/ Restart
  BY <1>0, <1>3 DEF Reset, Restart
<1>4. CASE Export
  <2>1. exported' = Sorted(table) /\ table' = table
    BY <1>4 DEF Export, Exported, ExportRules
  <2>2. Tabled(Sorted(table)) /\ Ascending(Sorted(table))
    BY <1>0, ListingIsTable
  <2> QED  BY <1>0, <2>1, <2>2
<1>5. ASSUME NEW bundle \in Bundles \cup {exported}, NEW merge \in BOOLEAN,
             Import(bundle, merge)
      PROVE  (Tabled(table) /\ Tabled(exported) /\ Ascending(exported))'
  <2>1. table' = ImportRules(table, Numbered(bundle), merge) /\ exported' = exported
    BY <1>5 DEF Import
  <2>2. exported \in Seq(Rows)
    BY <1>0 DEF Tabled
  <2>3. bundle \in Seq(Draft)
    BY <2>2, RowsAreNumbered, EditorAssumption DEF EditorAssumption
  <2>4. Tabled(ImportRules(table, Numbered(bundle), merge))
    BY <1>0, <2>3, NumberedIsRows, ImportKeepsTable
  <2> QED  BY <1>0, <2>1, <2>4
<1>6. CASE UNCHANGED vars
  BY <1>0, <1>6 DEF vars
<1> QED  BY <1>1, <1>2, <1>3, <1>4, <1>5, <1>6 DEF Next

(* The table has one row per id, and an export is such a table.            *)
THEOREM TableHoldsOneRowPerId == Spec => []Stored
<1> QED  BY StoredInit, StepKeepsStored, PTL DEF Spec

-----------------------------------------------------------------------------
(* A route that writes the table sets the engine to the new listing, and   *)
(* the others leave the table alone.                                       *)
LEMMA StepLoadsEngine ==
  ASSUME [Next]_vars, hasStore
  PROVE  /\ table' # table => engine' = ListRules(table')
         /\ engine' # engine => engine' = ListRules(table') \/ Reset \/ Restart
<1>1. ASSUME NEW id \in Ids, NEW body \in Bodies, NEW order \in Orders \cup {NoOrder},
             Post(id, body, order)
      PROVE  engine' = ListRules(table')
  BY <1>1 DEF Post
<1>2. ASSUME NEW id \in Ids, Delete(id) PROVE engine' = ListRules(table')
  BY <1>2 DEF Delete
<1>3. CASE Reset \/ Restart
  BY <1>3 DEF Reset, Restart
<1>4. CASE Export
  BY <1>4 DEF Export
<1>5. ASSUME NEW bundle \in Bundles \cup {exported}, NEW merge \in BOOLEAN,
             Import(bundle, merge)
      PROVE  engine' = ListRules(table')
  BY <1>5 DEF Import
<1>6. CASE UNCHANGED vars
  BY <1>6 DEF vars
<1> QED  BY <1>1, <1>2, <1>3, <1>4, <1>5, <1>6 DEF Next

(* Whatever edits, resets and restarts came before, a write of the table   *)
(* puts exactly its listing in force, and only resets and restarts do      *)
(* otherwise.                                                              *)
THEOREM EngineFollowsStore == Spec => WritesAreInForce
<1>1. [Next]_vars =>
        [hasStore =>
           /\ table' # table => engine' = ListRules(table')
           /\ engine' # engine => engine' = ListRules(table') \/ Reset \/ Restart]_vars
  BY StepLoadsEngine
<1> QED  BY <1>1, PTL DEF Spec, WritesAreInForce

-----------------------------------------------------------------------------
(* A set that was exported from a table is imported as the list it was.    *)
LEMMA ExportedComesBack == Stored => ExportRestores
<1> SUFFICES ASSUME Stored PROVE ExportRestores
  OBVIOUS
<1>1. CASE hasStore
  <2>1. Tabled(exported) /\ Ascending(exported) /\ exported \in Seq(Rows)
    BY <1>1 DEF Stored, Tabled
  <2>2. Numbered(exported) = exported
    BY <2>1, RowsAreNumbered
  <2>3. ImportRules(table, exported, FALSE) = exported
    BY <2>1, ImportOfTable
  <2>4. Sorted(exported) = exported
    BY <2>1, ListingOfListing
  <2> QED  BY <1>1, <2>2, <2>3, <2>4 DEF ExportRestores, ListRules
<1>2. CASE ~hasStore
  <2>1. RulesOf(Numbered(exported)) = RulesOf(exported)
    BY DEF Numbered, RulesOf, RuleOf, Row
  <2> QED  BY <1>2, <2>1 DEF ExportRestores, ImportInMemory
<1> QED  BY <1>1, <1>2

(* Whatever edits have followed, an exported rule set restores the list it *)
(* was taken from, also where orders are equal: the export is in the order *)
(* of the list, and the import inserts it in that order.                   *)
THEOREM ExportHolds == Spec => []ExportRestores
<1> QED  BY TableHoldsOneRowPerId, ExportedComesBack, PTL

-----------------------------------------------------------------------------
(* Rules are listed by the orders of their rows.                           *)
LEMMA ListedByOrder ==
  ASSUME NEW rows, Tabled(rows), NEW p \in DOMAIN rows
  PROVE  /\ Place(rows, p) \in DOMAIN ListRules(rows)
         /\ ListRules(rows)[Place(rows, p)] = RuleOf(rows[p])
         /\ \A i \in DOMAIN rows, j \in DOMAIN ListRules(rows) :
              rows[i].id = ListRules(rows)[j].id =>
                /\ rows[i].order < rows[p].order => j < Place(rows, p)
                /\ rows[i].order > rows[p].order => j > Place(rows, p)
<1>1. rows \in Seq(Rows)
  BY DEF Tabled
<1>2. /\ DOMAIN ListRules(rows) = DOMAIN rows
      /\ \A k \in DOMAIN rows : ListRules(rows)[k] = RuleOf(rows[RowAt(rows, k)])
  BY DEF ListRules, Sorted, RulesOf
<1>3. Place(rows, p) \in DOMAIN rows /\ RowAt(rows, Place(rows, p)) = p
  BY <1>1, PlacesAscend, PlacesAreRows
<1>4. ASSUME NEW i \in DOMAIN rows, NEW j \in DOMAIN rows, rows[i].id = ListRules(rows)[j].id
      PROVE  /\ rows[i].order < rows[p].order => j < Place(rows, p)
             /\ rows[i].order > rows[p].order => j > Place(rows, p)
  <2>1. PICK a \in DOMAIN rows : a = RowAt(rows, j) /\ Place(rows, a) = j
    BY <1>1, PlacesAreRows
  <2>2. rows[i].id = rows[a].id
    BY <1>2, <1>4, <2>1 DEF RuleOf
  <2>3. i = a
    BY <2>2 DEF Tabled
  <2>4. rows[i].order < rows[p].order => Before(rows, i, p)
    BY DEF Before
  <2>5. rows[i].order > rows[p].order => Before(rows, p, i)
    BY <1>1, RowsAreOrdered DEF Before
  <2>6. Place(rows, p) \in Nat /\ j \in Nat
    BY <1>1, <1>3, RowsAreOrdered
  <2>7. Before(rows, i, p) => j < Place(rows, p)
    BY <1>1, <2>1, <2>3, PlacesAscend
  <2>8. Before(rows, p, i) => Place(rows, p) < j
    BY <1>1, <2>1, <2>3, PlacesAscend
  <2> QED  BY <2>4, <2>5, <2>6, <2>7, <2>8
<1> QED  BY <1>2, <1>3, <1>4

(* A posted row is listed where its order says.                            *)
LEMMA PostTakesPlace ==
  ASSUME Stored, hasStore, NEW id \in Ids, NEW body \in Bodies,
         NEW order \in Orders \cup {NoOrder}, Post(id, body, order)
  PROVE  TakesPlace(id, body, order)
<1> DEFINE row == Row(id, body, OrderOr(order, 100))
<1>1. row \in Rows /\ Tabled(table)
  BY PostedIsRow DEF Stored
<1>2. table' = Put(table, row) /\ engine' = ListRules(table')
  BY DEF Post, UpsertRule
<1>3. row.id = id /\ row.body = body /\ row.order = OrderOr(order, 100)
  BY DEF Row
<1> HIDE DEF row
<1>4. PICK rows : rows = table'
  OBVIOUS
<1>5. Tabled(rows) /\ \E p \in DOMAIN rows : rows[p] = row
  BY <1>1, <1>2, <1>4, PutIntoTable
<1>6. PICK p \in DOMAIN rows : rows[p] = row
  BY <1>5
<1>7. RuleOf(rows[p]) = [id |-> id, body |-> body] /\ rows[p].order = OrderOr(order, 100)
  BY <1>3, <1>6 DEF RuleOf
<1>8. /\ Place(rows, p) \in DOMAIN ListRules(rows)
      /\ ListRules(rows)[Place(rows, p)] = RuleOf(rows[p])
      /\ \A i \in DOMAIN rows, j \in DOMAIN ListRules(rows) :
           rows[i].id = ListRules(rows)[j].id =>
             /\ rows[i].order < rows[p].order => j < Place(rows, p)
             /\ rows[i].order > rows[p].order => j > Place(rows, p)
  BY <1>5, ListedByOrder
<1> QED  BY <1>2, <1>4, <1>7, <1>8 DEF TakesPlace

(* Rows of the same orders and ids are listed under the same ids.          *)
LEMMA ListedAlike ==
  ASSUME NEW rows \in Seq(Rows), NEW others, DOMAIN rows = DOMAIN others,
         \A i \in DOMAIN rows : /\ rows[i].order = others[i].order
                                /\ rows[i].id = others[i].id
  PROVE  IdsOf(ListRules(rows)) = IdsOf(ListRules(others))
<1>1. \A k : RowAt(rows, k) = RowAt(others, k)
  BY OrdersPlace
<1>2. \A k \in DOMAIN rows : RowAt(rows, k) \in DOMAIN rows
  BY PlacesAreRows
<1>3. IdsOf(ListRules(rows)) = [k \in DOMAIN rows |-> rows[RowAt(rows, k)].id]
  BY DEF IdsOf, ListRules, RulesOf, RuleOf, Sorted
<1>4. IdsOf(ListRules(others)) = [k \in DOMAIN rows |-> others[RowAt(others, k)].id]
  BY DEF IdsOf, ListRules, RulesOf, RuleOf, Sorted
<1>5. \A k \in DOMAIN rows : rows[RowAt(rows, k)].id = others[RowAt(others, k)].id
  BY <1>1, <1>2
<1> QED  BY <1>3, <1>4, <1>5

(* A rule that is posted again with the order it has stays where it is.    *)
LEMMA PostKeepsPlace ==
  ASSUME Stored, NEW id \in Ids, NEW body \in Bodies,
         NEW order \in Orders \cup {NoOrder}, Post(id, body, order)
  PROVE  KeepsPlace(id, order)
<1> DEFINE row == Row(id, body, OrderOr(order, 100))
<1>0. hasStore' = hasStore
  BY DEF Post
<1>1. ASSUME hasStore,
             \E i \in DOMAIN table : table[i].id = id /\ table[i].order = OrderOr(order, 100)
      PROVE  IdsOf(Listed') = IdsOf(Listed)
  <2>1. PICK p \in DOMAIN table : table[p].id = id /\ table[p].order = OrderOr(order, 100)
    BY <1>1
  <2>2. table' = Put(table, row) /\ Tabled(table) /\ table \in Seq(Rows)
    BY <1>1 DEF Post, UpsertRule, Stored, Tabled
  <2>3. row.id = id /\ row.order = OrderOr(order, 100)
    BY DEF Row
  <2> HIDE DEF row
  <2>4. PICK rows : rows = table'
    OBVIOUS
  <2>5. rows = [i \in DOMAIN table |-> IF IsFirstOf(table, id, i) THEN row ELSE table[i]]
    BY <2>1, <2>2, <2>3, <2>4 DEF Put, Has
  <2>6. \A i \in DOMAIN table : IsFirstOf(table, id, i) => i = p
    BY <2>1, <2>2 DEF IsFirstOf, Tabled
  <2>7. \A i \in DOMAIN table : table[i].order = rows[i].order /\ table[i].id = rows[i].id
    BY <2>1, <2>3, <2>5, <2>6
  <2>8. IdsOf(ListRules(table)) = IdsOf(ListRules(rows))
    BY <2>2, <2>5, <2>7, ListedAlike
  <2> QED  BY <1>0, <1>1, <2>4, <2>8 DEF Listed
<1>2. ASSUME ~hasStore, Has(engine, id)
      PROVE  IdsOf(Listed') = IdsOf(Listed)
  <2>1. engine' = Put(engine, [id |-> id, body |-> body])
    BY <1>2 DEF Post
  <2>2. engine' = [i \in DOMAIN engine |->
                     IF IsFirstOf(engine, id, i) THEN [id |-> id, body |-> body] ELSE engine[i]]
    BY <1>2, <2>1 DEF Put
  <2>3. DOMAIN engine' = DOMAIN engine /\ \A i \in DOMAIN engine : engine'[i].id = engine[i].id
    BY <2>2 DEF IsFirstOf
  <2>4. IdsOf(engine') = IdsOf(engine)
    BY <2>3 DEF IdsOf
  <2> QED  BY <1>0, <1>2, <2>4 DEF Listed
<1> QED  BY <1>1, <1>2 DEF KeepsPlace

(* Lower orders are tried first: a posted rule comes where its order says, *)
(* after any sequence of edits, and editing its text moves nothing.        *)
THEOREM OrderHolds == Spec => OrderDecides
<1>1. Stored /\ [Next]_vars =>
        [\A id \in Ids, body \in Bodies, order \in Orders \cup {NoOrder} :
           Post(id, body, order) =>
             /\ KeepsPlace(id, order)
             /\ hasStore => TakesPlace(id, body, order)]_vars
  BY PostKeepsPlace, PostTakesPlace
<1> QED  BY <1>1, TableHoldsOneRowPerId, PTL DEF Spec, OrderDecides

-----------------------------------------------------------------------------
(* The approvals inbox.                                                    *)

(* What a call that is not over, or that has ended, knows of the inbox:    *)
(* rows are never deleted, so its request is still there.                  *)
RequestsStay ==
  \A c \in Callers :
    (pc[c] \in {"found_pending", "resolved"} \/ c \in existed) =>
      call[c].request \in DOMAIN inbox

(* The history is one: it begins with the call, and what it says has       *)
(* succeeded has.                                                          *)
HistoryIsPast ==
  \A c \in Callers :
    /\ \A d \in resolvedBefore[c] : Resolved(d)
    /\ pc[c] = "idle" => c \notin existed

(* A call that is about to update found its request unanswered: no call    *)
(* that had succeeded by then was for it.                                  *)
FoundUnanswered ==
  \A c \in Callers : pc[c] = "found_pending" =>
    \A d \in resolvedBefore[c] : call[d].request # call[c].request

(* The gateway is in one handler, and what it answered before is history   *)
(* to it.                                                                  *)
GatewayIsSerial ==
  \A c, d \in Gateway : (pc[c] = "found_pending" /\ c # d) =>
    /\ pc[d] # "found_pending"
    /\ Resolved(d) => d \in resolvedBefore[c]

InboxIInv ==
  /\ InboxTypeOK
  /\ RequestsStay
  /\ HistoryIsPast
  /\ FoundUnanswered
  /\ GatewayIsSerial
  /\ OneAnswerUnlessProcessesRace
  /\ AnswersAgreeWithInbox

(* An empty inbox agrees with everything.                                  *)
LEMMA InboxInitAgrees == InboxInit => InboxIInv
  BY ApprovalsAssumption
     DEF ApprovalsAssumption, InboxInit, InboxIInv, InboxTypeOK, RequestsStay, HistoryIsPast, FoundUnanswered,
         GatewayIsSerial, OneAnswerUnlessProcessesRace, AnswersAgreeWithInbox,
         Resolved, Pending, Where, NoCall, InboxRow, Call, Answer

(* A new request has no history: no call that began was for it.            *)
LEMMA CreateRequestAgrees ==
  ASSUME InboxIInv, NEW r \in Requests, CreateRequest(r)
  PROVE  InboxIInv'
<1>1. /\ r \notin DOMAIN inbox
      /\ DOMAIN inbox' = DOMAIN inbox \cup {r}
      /\ inbox'[r] = [outcome |-> "pending", approver |-> NoOne]
      /\ \A q \in DOMAIN inbox : inbox'[q] = inbox[q]
      /\ UNCHANGED <<pc, call, resolvedBefore, existed>>
  BY DEF CreateRequest
<1>2. InboxTypeOK'
  <2>1. inbox' \in [DOMAIN inbox' -> InboxRow]
    BY <1>1 DEF InboxIInv, InboxTypeOK, InboxRow, CreateRequest
  <2> QED  BY <1>1, <2>1 DEF InboxIInv, InboxTypeOK
<1>3. RequestsStay' /\ HistoryIsPast' /\ FoundUnanswered' /\ GatewayIsSerial'
        /\ OneAnswerUnlessProcessesRace'
  BY <1>1 DEF InboxIInv, RequestsStay, HistoryIsPast, FoundUnanswered, GatewayIsSerial,
              OneAnswerUnlessProcessesRace, Resolved
<1>4. Pending' = Pending \cup {r}
  BY <1>1 DEF Pending
<1>5. AnswersAgreeWithInbox'
  <2>1. ASSUME NEW q \in DOMAIN inbox
        PROVE  /\ q \in Pending' <=> q \in Pending
               /\ inbox'[q] = inbox[q]
    BY <1>1, <1>4 DEF Pending
  <2>2. \A c \in Callers : Resolved(c) => call[c].request # r
    BY <1>1 DEF InboxIInv, RequestsStay, Resolved
  <2>3. \A c \in Callers : c \in existed => call[c].request # r
    BY <1>1 DEF InboxIInv, RequestsStay
  <2> QED
    BY <1>1, <1>4, <2>1, <2>2, <2>3 DEF InboxIInv, AnswersAgreeWithInbox, Resolved
<1> QED  BY <1>2, <1>3, <1>5 DEF InboxIInv

(* A call that begins becomes nobody's history.                            *)
LEMMA ResolveReadsAgrees ==
  ASSUME InboxIInv, NEW c \in Callers, NEW k \in Call, ResolveReads(c, k)
  PROVE  InboxIInv'
<1>1. /\ pc[c] = "idle"
      /\ UNCHANGED inbox
      /\ call'[c] = k /\ \A d \in Callers \ {c} : call'[d] = call[d]
      /\ pc'[c] = IF k.request \in Pending THEN "found_pending" ELSE "refused"
      /\ \A d \in Callers \ {c} : pc'[d] = pc[d]
      /\ resolvedBefore'[c] = {d \in Callers : pc[d] = "resolved"}
      /\ \A d \in Callers \ {c} : resolvedBefore'[d] = resolvedBefore[d]
      /\ existed' \subseteq existed \cup {c} /\ existed \subseteq existed'
      /\ c \in existed' => k.request \in DOMAIN inbox
      /\ c \notin existed
  BY DEF ResolveReads, InboxIInv, InboxTypeOK, HistoryIsPast
<1>2. InboxTypeOK'
  BY DEF InboxIInv, InboxTypeOK, ResolveReads, Where
<1>3. Pending' = Pending /\ Pending \subseteq DOMAIN inbox
  BY <1>1 DEF Pending
<1>4. RequestsStay'
  BY <1>1, <1>3 DEF InboxIInv, RequestsStay
<1>5. \A d \in Callers : Resolved(d)' <=> (d # c /\ Resolved(d))
  BY <1>1 DEF Resolved
<1>6. HistoryIsPast'
  <2> SUFFICES ASSUME NEW d \in Callers
               PROVE  /\ \A e \in resolvedBefore'[d] : Resolved(e)'
                      /\ pc'[d] = "idle" => d \notin existed'
    BY DEF HistoryIsPast
  <2>1. CASE d = c
    BY <1>1, <1>5, <2>1 DEF Resolved
  <2>2. CASE d # c
    <3>1. \A e \in resolvedBefore'[d] : e \in Callers /\ Resolved(e) /\ e # c
      BY <1>1, <2>2 DEF InboxIInv, InboxTypeOK, HistoryIsPast, Resolved
    <3> QED  BY <1>1, <1>5, <2>2, <3>1 DEF InboxIInv, HistoryIsPast
  <2> QED  BY <2>1, <2>2
<1>7. FoundUnanswered'
  <2> SUFFICES ASSUME NEW d \in Callers, pc'[d] = "found_pending",
                      NEW e \in resolvedBefore'[d]
               PROVE  call'[e].request # call'[d].request
    BY DEF FoundUnanswered
  <2>1. e \in Callers /\ Resolved(e) /\ e # c
    BY <1>1, <1>5, <1>6, <1>2 DEF HistoryIsPast, InboxTypeOK
  <2>2. CASE d = c
    <3>1. k.request \in Pending
      BY <1>1, <2>2
    <3> QED  BY <1>1, <1>3, <2>1, <2>2, <3>1 DEF InboxIInv, AnswersAgreeWithInbox
  <2>3. CASE d # c
    BY <1>1, <2>1, <2>3 DEF InboxIInv, FoundUnanswered
  <2> QED  BY <2>2, <2>3
<1>8. GatewayIsSerial'
  <2> SUFFICES ASSUME NEW a \in Gateway, NEW d \in Gateway,
                      pc'[a] = "found_pending", a # d
               PROVE  /\ pc'[d] # "found_pending"
                      /\ Resolved(d)' => d \in resolvedBefore'[a]
    BY DEF GatewayIsSerial
  <2>1. a \in Callers /\ d \in Callers
    BY ApprovalsAssumption DEF ApprovalsAssumption
  <2>2. c \in Gateway => \A e \in Gateway : pc[e] # "found_pending"
    BY DEF ResolveReads, ProcessFree
  <2>3. CASE a = c
    BY <1>1, <1>5, <2>1, <2>2, <2>3 DEF Resolved
  <2>4. CASE a # c
    <3>1. pc[a] = "found_pending" /\ d # c
      BY <1>1, <2>1, <2>2, <2>4
    <3> QED  BY <1>1, <1>5, <2>1, <2>4, <3>1 DEF InboxIInv, GatewayIsSerial
  <2> QED  BY <2>3, <2>4
<1>9. OneAnswerUnlessProcessesRace'
  BY <1>1, <1>5 DEF InboxIInv, OneAnswerUnlessProcessesRace
<1>10. AnswersAgreeWithInbox'
  <2>1. ASSUME NEW r \in DOMAIN inbox
        PROVE  IF r \in Pending
               THEN /\ inbox[r].approver = NoOne
                    /\ \A d \in Callers : Resolved(d)' => call'[d].request # r
               ELSE \E d \in Callers :
                      /\ Resolved(d)'
                      /\ call'[d] = [request |-> r, approver |-> inbox[r].approver,
                                     outcome |-> inbox[r].outcome]
    <3>1. CASE r \in Pending
      BY <1>1, <1>5, <3>1 DEF InboxIInv, AnswersAgreeWithInbox
    <3>2. CASE r \notin Pending
      <4>1. PICK d \in Callers :
              /\ Resolved(d)
              /\ call[d] = [request |-> r, approver |-> inbox[r].approver,
                            outcome |-> inbox[r].outcome]
        BY <3>2 DEF InboxIInv, AnswersAgreeWithInbox
      <4>2. d # c
        BY <1>1, <4>1 DEF Resolved
      <4> QED  BY <1>1, <1>5, <3>2, <4>1, <4>2
    <3> QED  BY <3>1, <3>2
  <2>2. ASSUME NEW d \in Callers, pc'[d] = "refused", d \in existed'
        PROVE  call'[d].request \notin Pending
    <3>1. CASE d = c
      BY <1>1, <2>2, <3>1
    <3>2. CASE d # c
      BY <1>1, <2>2, <3>2 DEF InboxIInv, AnswersAgreeWithInbox
    <3> QED  BY <3>1, <3>2
  <2> QED  BY <1>1, <1>3, <2>1, <2>2 DEF AnswersAgreeWithInbox
<1> QED  BY <1>2, <1>4, <1>6, <1>7, <1>8, <1>9, <1>10 DEF InboxIInv

(* The update decides its request in the name of the caller it answers; who *)
(* succeeded before, and knew, had asked for another.                      *)
LEMMA ResolveUpdatesAgrees ==
  ASSUME InboxIInv, NEW c \in Callers, ResolveUpdates(c)
  PROVE  InboxIInv'
<1> DEFINE r == call[c].request
<1>1. /\ pc[c] = "found_pending"
      /\ r \in DOMAIN inbox /\ call[c] \in Call
  BY DEF ResolveUpdates, InboxIInv, InboxTypeOK, RequestsStay
<1>2. /\ DOMAIN inbox' = DOMAIN inbox
      /\ inbox'[r] = [outcome |-> call[c].outcome, approver |-> call[c].approver]
      /\ \A q \in DOMAIN inbox \ {r} : inbox'[q] = inbox[q]
      /\ pc'[c] = "resolved" /\ \A d \in Callers \ {c} : pc'[d] = pc[d]
      /\ UNCHANGED <<call, resolvedBefore, existed>>
  BY <1>1 DEF ResolveUpdates, InboxIInv, InboxTypeOK
<1>3. InboxTypeOK'
  <2>1. [outcome |-> call[c].outcome, approver |-> call[c].approver] \in InboxRow
    BY <1>1 DEF Call, InboxRow
  <2>2. inbox' \in [DOMAIN inbox' -> InboxRow]
    BY <1>1, <2>1 DEF ResolveUpdates, InboxIInv, InboxTypeOK
  <2>3. pc' \in [Callers -> Where]
    BY DEF ResolveUpdates, InboxIInv, InboxTypeOK, Where
  <2> QED  BY <1>1, <1>2, <2>2, <2>3 DEF InboxIInv, InboxTypeOK
<1>4. Pending' = Pending \ {r}
  <2>1. call[c].outcome # "pending"
    BY <1>1 DEF Call, Answer
  <2> QED  BY <1>2, <2>1 DEF Pending
<1>5. \A d \in Callers : Resolved(d)' <=> (d = c \/ Resolved(d))
  BY <1>1, <1>2 DEF Resolved
<1>6. RequestsStay'
  BY <1>1, <1>2 DEF InboxIInv, RequestsStay
<1>7. HistoryIsPast'
  BY <1>1, <1>2, <1>5 DEF InboxIInv, HistoryIsPast, InboxTypeOK
<1>8. FoundUnanswered'
  BY <1>1, <1>2 DEF InboxIInv, FoundUnanswered
<1>9. GatewayIsSerial'
  BY <1>1, <1>2, <1>5, ApprovalsAssumption DEF InboxIInv, GatewayIsSerial, ApprovalsAssumption
<1>10. OneAnswerUnlessProcessesRace'
  <2>1. ASSUME NEW d \in Callers, d # c, Resolved(d), call[d].request = r
        PROVE  /\ ~(c \in Gateway /\ d \in Gateway)
               /\ c \notin resolvedBefore[d] /\ d \notin resolvedBefore[c]
    <3>1. d \notin resolvedBefore[c]
      BY <1>1, <2>1 DEF InboxIInv, FoundUnanswered
    <3>2. c \notin resolvedBefore[d]
      BY <1>1 DEF InboxIInv, HistoryIsPast, Resolved
    <3>3. ~(c \in Gateway /\ d \in Gateway)
      BY <1>1, <2>1, <3>1 DEF InboxIInv, GatewayIsSerial
    <3> QED  BY <3>1, <3>2, <3>3
  <2> SUFFICES ASSUME NEW a \in Callers, NEW d \in Callers, a # d, Resolved(a)', Resolved(d)',
                      call[a].request = call[d].request
               PROVE  /\ ~(a \in Gateway /\ d \in Gateway)
                      /\ a \notin resolvedBefore[d] /\ d \notin resolvedBefore[a]
    BY <1>2 DEF OneAnswerUnlessProcessesRace
  <2>2. CASE a = c
    BY <1>5, <2>1, <2>2
  <2>3. CASE d = c
    BY <1>5, <2>1, <2>3
  <2>4. CASE a # c /\ d # c
    BY <1>5, <2>4 DEF InboxIInv, OneAnswerUnlessProcessesRace
  <2> QED  BY <2>2, <2>3, <2>4
<1>11. AnswersAgreeWithInbox'
  <2>1. ASSUME NEW q \in DOMAIN inbox
        PROVE  IF q \in Pending'
               THEN /\ inbox'[q].approver = NoOne
                    /\ \A d \in Callers : Resolved(d)' => call[d].request # q
               ELSE \E d \in Callers :
                      /\ Resolved(d)'
                      /\ call[d] = [request |-> q, approver |-> inbox'[q].approver,
                                    outcome |-> inbox'[q].outcome]
    <3>1. CASE q = r
      <4>1. call[c] = [request |-> q, approver |-> inbox'[q].approver,
                       outcome |-> inbox'[q].outcome]
        BY <1>1, <1>2, <3>1 DEF Call
      <4> QED  BY <1>4, <1>5, <3>1, <4>1
    <3>2. CASE q # r
      <4>1. /\ inbox'[q] = inbox[q]
            /\ q \in Pending' <=> q \in Pending
        BY <1>2, <1>4, <3>2
      <4> QED  BY <1>5, <3>2, <4>1 DEF InboxIInv, AnswersAgreeWithInbox
    <3> QED  BY <3>1, <3>2
  <2>2. \A d \in Callers : (pc'[d] = "refused" /\ d \in existed) => call[d].request \notin Pending'
    BY <1>2, <1>4 DEF InboxIInv, AnswersAgreeWithInbox
  <2> QED  BY <1>2, <2>1, <2>2 DEF AnswersAgreeWithInbox
<1> QED  BY <1>3, <1>6, <1>7, <1>8, <1>9, <1>10, <1>11 DEF InboxIInv

(* A process that stops has answered nobody.                               *)
LEMMA StopAgrees ==
  ASSUME InboxIInv, NEW c \in Callers, Stop(c)
  PROVE  InboxIInv'
<1>1. /\ pc[c] = "found_pending"
      /\ pc'[c] = "stopped" /\ \A d \in Callers \ {c} : pc'[d] = pc[d]
      /\ UNCHANGED <<inbox, call, resolvedBefore, existed>>
  BY DEF Stop, InboxIInv, InboxTypeOK
<1>2. InboxTypeOK'
  BY DEF InboxIInv, InboxTypeOK, Stop, Where
<1>3. Pending' = Pending /\ \A d \in Callers : Resolved(d)' <=> Resolved(d)
  BY <1>1 DEF Pending, Resolved
<1>4. RequestsStay' /\ FoundUnanswered'
  BY <1>1 DEF InboxIInv, RequestsStay, FoundUnanswered
<1>5. HistoryIsPast'
  BY <1>1, <1>3 DEF InboxIInv, HistoryIsPast, InboxTypeOK
<1>6. GatewayIsSerial'
  BY <1>1, <1>3, ApprovalsAssumption DEF InboxIInv, GatewayIsSerial, ApprovalsAssumption
<1>7. OneAnswerUnlessProcessesRace'
  BY <1>1, <1>3 DEF InboxIInv, OneAnswerUnlessProcessesRace
<1>8. AnswersAgreeWithInbox'
  BY <1>1, <1>3 DEF InboxIInv, AnswersAgreeWithInbox
<1> QED  BY <1>2, <1>4, <1>5, <1>6, <1>7, <1>8 DEF InboxIInv

(* InboxIInv is inductive.                                                      *)
LEMMA InboxStepAgrees == InboxIInv /\ [InboxNext]_inboxVars => InboxIInv'
<1> SUFFICES ASSUME InboxIInv, [InboxNext]_inboxVars PROVE InboxIInv'
  OBVIOUS
<1>1. CASE UNCHANGED inboxVars
  BY <1>1 DEF inboxVars, InboxIInv, InboxTypeOK, RequestsStay, HistoryIsPast, FoundUnanswered,
      GatewayIsSerial, OneAnswerUnlessProcessesRace, AnswersAgreeWithInbox, Resolved, Pending
<1> QED
  BY <1>1, CreateRequestAgrees, ResolveReadsAgrees, ResolveUpdatesAgrees, StopAgrees DEF InboxNext

(* Calls, rows and history have the form InboxTypeOK gives them.           *)
THEOREM InboxTypeCorrect == InboxSpec => []InboxTypeOK
<1>1. InboxIInv => InboxTypeOK
  BY DEF InboxIInv
<1> QED  BY <1>1, InboxInitAgrees, InboxStepAgrees, PTL DEF InboxSpec

(* Two callers are told that they decided one request only if they were in *)
(* two processes and neither began after the other had succeeded.          *)
THEOREM AnsweredOnce == InboxSpec => []OneAnswerUnlessProcessesRace
<1>1. InboxIInv => OneAnswerUnlessProcessesRace
  BY DEF InboxIInv
<1> QED  BY <1>1, InboxInitAgrees, InboxStepAgrees, PTL DEF InboxSpec

(* A decided request bears the answer and the name of one who was told     *)
(* that he decided it, and a pending one was decided by nobody.            *)
THEOREM InboxTellsAnswers == InboxSpec => []AnswersAgreeWithInbox
<1>1. InboxIInv => AnswersAgreeWithInbox
  BY DEF InboxIInv
<1> QED  BY <1>1, InboxInitAgrees, InboxStepAgrees, PTL DEF InboxSpec
=============================================================================
