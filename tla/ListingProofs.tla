---------------------------- MODULE ListingProofs ----------------------------
(***************************************************************************)
(* Theorems about Listing: whatever enters and leaves a list meanwhile,    *)
(* and however old its cached pages are, a walk skips nothing and repeats  *)
(* nothing.                                                                *)
(*                                                                         *)
(* WalkOK says what a walk that is not over has done: all it has seen lies *)
(* at or before its cursor, and of the rows at or before its cursor it has *)
(* seen every one that was there all along.                                *)
(***************************************************************************)
EXTENDS Listing, FiniteSetTheorems, FunctionTheorems, SequenceTheorems, TLAPS

ColumnOK(column) ==
    /\ column \in [Ids -> Nat]
    /\ \A r, s \in Ids : column[r] = column[s] => r = s

LEMMA SortColumnOK == ColumnOK(SortColumn)
<1>1. ColumnOK(TimeOf)
  BY TimeOfAssumption DEF ColumnOK
<1>2. ColumnOK(IdOf)
  BY IdsAssumption DEF ColumnOK, IdOf
<1>3. QED
  BY <1>1, <1>2 DEF SortColumn

-----------------------------------------------------------------------------
(* ORDER BY: a finite set has a sorted enumeration.  A row's place is the  *)
(* number of the rows up to it.                                            *)

UpTo(column, at, r) == {q \in at : q = r \/ Before(column, q, r)}

Place(column, at) == [r \in at |-> Cardinality(UpTo(column, at, r))]

LEMMA PlaceGrows ==
    ASSUME NEW column, ColumnOK(column), NEW at \in SUBSET Ids,
           NEW r \in at, NEW s \in at, Before(column, r, s)
    PROVE  Place(column, at)[r] < Place(column, at)[s]
<1>1. IsFiniteSet(at)
  BY IdsAssumption, FS_Subset
<1>2. UpTo(column, at, s) \in SUBSET at
  BY DEF UpTo
<1>3. IsFiniteSet(UpTo(column, at, s))
  BY <1>1, <1>2, FS_Subset
<1>4. column[r] \in Nat /\ column[s] \in Nat /\ \A q \in at : column[q] \in Nat
  BY DEF ColumnOK
<1>5. UpTo(column, at, r) \in SUBSET UpTo(column, at, s)
  BY <1>4 DEF UpTo, Before
<1>6. s \in UpTo(column, at, s) /\ s \notin UpTo(column, at, r)
  BY <1>4 DEF UpTo, Before
<1>7. IsFiniteSet(UpTo(column, at, r))
  BY <1>3, <1>5, FS_Subset
<1>8. Cardinality(UpTo(column, at, r)) \in Nat /\ Cardinality(UpTo(column, at, s)) \in Nat
  BY <1>3, <1>7, FS_CardinalityType
<1>9. Cardinality(UpTo(column, at, r)) # Cardinality(UpTo(column, at, s))
  BY <1>3, <1>5, <1>6, FS_Subset
<1>10. Cardinality(UpTo(column, at, r)) <= Cardinality(UpTo(column, at, s))
  BY <1>3, <1>5, FS_Subset
<1>11. QED
  BY <1>8, <1>9, <1>10 DEF Place

\* No two rows have one place, and every place is taken.
LEMMA PlacesAreTaken ==
    ASSUME NEW column, ColumnOK(column), NEW at \in SUBSET Ids
    PROVE  /\ Cardinality(at) \in Nat
           /\ Place(column, at) \in [at -> 1..Cardinality(at)]
           /\ \A i \in 1..Cardinality(at) : \E r \in at : Place(column, at)[r] = i
<1> DEFINE n == Cardinality(at)
           place == Place(column, at)
<1>1. IsFiniteSet(at) /\ n \in Nat
  BY IdsAssumption, FS_Subset, FS_CardinalityType
<1>2. ASSUME NEW r \in at PROVE place[r] \in 1..n
  <2>1. UpTo(column, at, r) \in SUBSET at /\ r \in UpTo(column, at, r)
    BY DEF UpTo
  <2>2. IsFiniteSet(UpTo(column, at, r)) /\ Cardinality(UpTo(column, at, r)) <= n
    BY <1>1, <2>1, FS_Subset
  <2>3. Cardinality(UpTo(column, at, r)) \in Nat
    BY <2>2, FS_CardinalityType
  <2>4. Cardinality(UpTo(column, at, r)) # 0
    BY <2>1, <2>2, FS_EmptySet
  <2>5. QED
    BY <1>1, <2>2, <2>3, <2>4 DEF Place
<1>3. place \in [at -> 1..n]
  BY <1>2 DEF Place
<1>4. ASSUME NEW r \in at, NEW s \in at, place[r] = place[s] PROVE r = s
  <2>1. place[r] \in Nat
    BY <1>1, <1>2
  <2>2. ~ Before(column, r, s) /\ ~ Before(column, s, r)
    BY <1>4, <2>1, PlaceGrows
  <2>3. column[r] = column[s]
    BY <2>2 DEF Before, ColumnOK
  <2>4. QED
    BY <2>3 DEF ColumnOK
<1>5. place \in Injection(at, 1..n)
  BY <1>3, <1>4, Fun_IsInj
<1>6. IsFiniteSet(1..n) /\ Cardinality(1..n) = n
  BY <1>1, FS_Interval
<1>7. place \in Surjection(at, 1..n)
  BY <1>5, <1>6, FS_Injection
<1>8. QED
  BY <1>1, <1>3, <1>7 DEF Surjection

LEMMA SortedExists ==
    ASSUME NEW column, ColumnOK(column), NEW at \in SUBSET Ids
    PROVE  \E s \in [1..Cardinality(at) -> at] :
               \A i, j \in 1..Cardinality(at) : i < j => Before(column, s[i], s[j])
<1> DEFINE n == Cardinality(at)
           place == Place(column, at)
           row == [i \in 1..n |-> CHOOSE r \in at : place[r] = i]
<1>1. n \in Nat /\ place \in [at -> 1..n] /\ \A i \in 1..n : \E r \in at : place[r] = i
  BY PlacesAreTaken
<1>2. ASSUME NEW i \in 1..n PROVE row[i] \in at /\ place[row[i]] = i
  BY <1>1
<1>3. row \in [1..n -> at]
  BY <1>2
<1>4. ASSUME NEW i \in 1..n, NEW j \in 1..n, i < j PROVE Before(column, row[i], row[j])
  <2>1. row[i] \in at /\ row[j] \in at /\ place[row[i]] = i /\ place[row[j]] = j
    BY <1>2
  <2>2. row[i] # row[j]
    BY <1>4, <2>1
  <2>3. ~ Before(column, row[j], row[i])
    <3>1. Before(column, row[j], row[i]) => place[row[j]] < place[row[i]]
      BY <2>1, PlaceGrows
    <3>2. ~ (j < i)
      BY <1>1, <1>4
    <3>3. QED
      BY <2>1, <3>1, <3>2
  <2>4. column[row[i]] # column[row[j]]
    BY <2>1, <2>2 DEF ColumnOK
  <2>5. column[row[i]] \in Nat /\ column[row[j]] \in Nat
    BY <2>1 DEF ColumnOK
  <2>6. QED
    BY <2>3, <2>4, <2>5 DEF Before
<1>5. QED
  BY <1>3, <1>4

\* Sorted(at) holds every row of the set once, in the order of the column.
LEMMA SortedProperties ==
    ASSUME NEW at \in SUBSET Ids
    PROVE  /\ Sorted(at) \in Seq(Ids)
           /\ \A i \in 1..Len(Sorted(at)) : Sorted(at)[i] \in at
           /\ \A i, j \in 1..Len(Sorted(at)) :
                  i < j => Before(SortColumn, Sorted(at)[i], Sorted(at)[j])
           /\ \A r \in at : \E i \in 1..Len(Sorted(at)) : Sorted(at)[i] = r
<1> DEFINE n == Cardinality(at)
           s == Sorted(at)
<1>1. ColumnOK(SortColumn)
  BY SortColumnOK
<1>2. /\ s \in [1..n -> at]
      /\ \A i, j \in 1..n : i < j => Before(SortColumn, s[i], s[j])
  BY <1>1, SortedExists DEF Sorted
<1>3. n \in Nat /\ IsFiniteSet(at)
  BY IdsAssumption, FS_Subset, FS_CardinalityType
<1>4. s \in Seq(at) /\ Len(s) = n
  BY <1>2, <1>3
<1>5. s \in Seq(Ids)
  BY <1>4, SeqMonotonic
<1>6. ASSUME NEW i \in 1..n, NEW j \in 1..n, s[i] = s[j] PROVE i = j
  <2>1. s[i] \in Ids
    BY <1>2
  <2>2. ~ Before(SortColumn, s[i], s[j]) /\ ~ Before(SortColumn, s[j], s[i])
    BY <1>1, <1>6, <2>1 DEF Before, ColumnOK
  <2>3. QED
    BY <1>2, <1>3, <2>2
<1>7. s \in Injection(1..n, at)
  BY <1>2, <1>6, Fun_IsInj
<1>8. IsFiniteSet(1..n) /\ Cardinality(1..n) = n
  BY <1>3, FS_Interval
<1>9. s \in Surjection(1..n, at)
  BY <1>3, <1>7, <1>8, FS_Injection
<1>10. \A r \in at : \E i \in 1..n : s[i] = r
  BY <1>9 DEF Surjection
<1>11. QED
  BY <1>2, <1>4, <1>5, <1>10

-----------------------------------------------------------------------------
(* A page is the rows found up to the limit, and the next one begins after *)
(* its last row.                                                           *)

More(found) == Len(found) > walk.limit

Fetched(found) ==
    SubSeq(found, 1, IF More(found) THEN walk.limit + 1 ELSE Len(found))

Page(found) ==
    SubSeq(Fetched(found), 1, IF More(found) THEN walk.limit ELSE Len(found))

LEMMA PageProperties ==
    ASSUME NEW found \in Seq(Ids), walk.limit \in Nat \ {0}
    PROVE  /\ Page(found) \in Seq(Ids)
           /\ Len(Page(found)) = IF More(found) THEN walk.limit ELSE Len(found)
           /\ \A i \in 1..Len(Page(found)) : Page(found)[i] = found[i]
           /\ More(found) => NextCursor(Fetched(found)) = found[walk.limit]
<1> DEFINE m == IF More(found) THEN walk.limit + 1 ELSE Len(found)
           k == IF More(found) THEN walk.limit ELSE Len(found)
<1>1. Len(found) \in Nat /\ m \in Nat /\ k \in Nat /\ k <= m /\ m <= Len(found)
  BY DEF More
<1>2. /\ Fetched(found) \in Seq(Ids)
      /\ Len(Fetched(found)) = m
      /\ \A i \in 1..m : Fetched(found)[i] = found[i]
  <2>1. \A i \in 1..m : found[i] \in Ids
    BY <1>1, ElementOfSeq
  <2>2. Fetched(found) = SubSeq(found, 1, m)
    BY DEF Fetched
  <2> HIDE DEF m
  <2>3. /\ SubSeq(found, 1, m) \in Seq(Ids)
        /\ Len(SubSeq(found, 1, m)) = IF 1 <= m THEN m - 1 + 1 ELSE 0
        /\ \A i \in 1..m - 1 + 1 : SubSeq(found, 1, m)[i] = found[1 + i - 1]
    BY <1>1, <2>1, SubSeqProperties
  <2>4. QED
    BY <1>1, <2>2, <2>3
<1>3. /\ Page(found) \in Seq(Ids)
      /\ Len(Page(found)) = k
      /\ \A i \in 1..k : Page(found)[i] = Fetched(found)[i]
  <2>1. \A i \in 1..k : Fetched(found)[i] \in Ids
    BY <1>1, <1>2, ElementOfSeq
  <2>2. Page(found) = SubSeq(Fetched(found), 1, k)
    BY DEF Page
  <2> HIDE DEF m, k
  <2>3. /\ SubSeq(Fetched(found), 1, k) \in Seq(Ids)
        /\ Len(SubSeq(Fetched(found), 1, k)) = IF 1 <= k THEN k - 1 + 1 ELSE 0
        /\ \A i \in 1..k - 1 + 1 : SubSeq(Fetched(found), 1, k)[i] = Fetched(found)[1 + i - 1]
    BY <1>1, <2>1, SubSeqProperties
  <2>4. QED
    BY <1>1, <2>2, <2>3
<1>4. \A i \in 1..k : Page(found)[i] = found[i]
  BY <1>1, <1>2, <1>3
<1>5. More(found) => NextCursor(Fetched(found)) = found[walk.limit]
  BY <1>1, <1>2 DEF NextCursor
<1>6. QED
  BY <1>3, <1>4, <1>5

\* What one step of a walk does, with the rows found named.
TurnsPage(found, at) ==
    walk' = [walk EXCEPT !.seen   = @ \o Page(found),
                         !.base   = @ \cap at,
                         !.open   = More(found),
                         !.cursor = IF More(found) THEN NextCursor(Fetched(found)) ELSE @]

LEMMA NextPageTurns ==
    ASSUME rows \in contents, NextPage
    PROVE  /\ walk.open
           /\ \E at \in contents : TurnsPage(Sorted(PastCursor(at)), at)
           /\ UNCHANGED <<list, rows, contents>>
BY DEF NextPage, TurnsPage, Page, Fetched, More

LEMMA ConcatPlaces ==
    ASSUME NEW s \in Seq(Ids), NEW t \in Seq(Ids)
    PROVE  /\ s \o t \in Seq(Ids)
           /\ Len(s \o t) = Len(s) + Len(t)
           /\ \A i \in 1..Len(s) : (s \o t)[i] = s[i]
           /\ \A i \in 1..Len(t) : (s \o t)[Len(s) + i] = t[i]
<1>1. Len(s) \in Nat /\ Len(t) \in Nat
  OBVIOUS
<1>2. /\ s \o t \in Seq(Ids)
      /\ Len(s \o t) = Len(s) + Len(t)
      /\ \A i \in 1..Len(s) + Len(t) :
            (s \o t)[i] = IF i <= Len(s) THEN s[i] ELSE t[i - Len(s)]
  BY ConcatProperties
<1>3. ASSUME NEW i \in 1..Len(s) PROVE (s \o t)[i] = s[i]
  BY <1>1, <1>2
<1>4. ASSUME NEW i \in 1..Len(t) PROVE (s \o t)[Len(s) + i] = t[i]
  <2>1. /\ Len(s) + i \in 1..Len(s) + Len(t)
        /\ ~ (Len(s) + i <= Len(s))
        /\ Len(s) + i - Len(s) = i
    BY <1>1
  <2>2. QED
    BY <1>2, <2>1
<1>5. QED
  BY <1>2, <1>3, <1>4

\* What the client has after the step.
LEMMA PageTurned ==
    ASSUME walk \in Walk, NEW found \in Seq(Ids), NEW at, TurnsPage(found, at)
    PROVE  /\ walk' \in Walk
           /\ walk'.limit = walk.limit /\ walk'.direction = walk.direction
           /\ walk'.base = walk.base \cap at
           /\ walk'.open = More(found)
           /\ walk'.cursor = IF More(found) THEN found[walk.limit] ELSE walk.cursor
           /\ Len(Page(found)) = IF More(found) THEN walk.limit ELSE Len(found)
           /\ Len(walk'.seen) = Len(walk.seen) + Len(Page(found))
           /\ \A i \in 1..Len(walk.seen) : walk'.seen[i] = walk.seen[i]
           /\ \A i \in 1..Len(Page(found)) : walk'.seen[Len(walk.seen) + i] = found[i]
<1>1. /\ walk.limit \in Limits /\ walk.direction \in BothWays
      /\ walk.cursor \in Ids \cup {0} /\ walk.seen \in Seq(Ids) /\ walk.base \in SUBSET Ids
  BY DEF Walk
<1>2. walk.limit \in Nat \ {0}
  BY <1>1, LimitsAssumption
<1>3. /\ Page(found) \in Seq(Ids)
      /\ Len(Page(found)) = IF More(found) THEN walk.limit ELSE Len(found)
      /\ \A i \in 1..Len(Page(found)) : Page(found)[i] = found[i]
      /\ More(found) => NextCursor(Fetched(found)) = found[walk.limit]
  BY <1>2, PageProperties
<1>4. /\ walk.seen \o Page(found) \in Seq(Ids)
      /\ Len(walk.seen \o Page(found)) = Len(walk.seen) + Len(Page(found))
      /\ \A i \in 1..Len(walk.seen) : (walk.seen \o Page(found))[i] = walk.seen[i]
      /\ \A i \in 1..Len(Page(found)) :
            (walk.seen \o Page(found))[Len(walk.seen) + i] = Page(found)[i]
  BY <1>1, <1>3, ConcatPlaces
<1> DEFINE after == [limit |-> walk.limit, direction |-> walk.direction,
                     cursor |-> IF More(found) THEN found[walk.limit] ELSE walk.cursor,
                     open |-> More(found), seen |-> walk.seen \o Page(found),
                     base |-> walk.base \cap at]
<1>5. walk' = after
  BY <1>3 DEF TurnsPage, Walk
<1>6. More(found) => found[walk.limit] \in Ids
  BY <1>2, ElementOfSeq DEF More
<1>7. More(found) \in BOOLEAN
  BY DEF More
<1>8. after \in Walk
  BY <1>1, <1>4, <1>6, <1>7 DEF Walk
<1>9. QED
  BY <1>3, <1>4, <1>5, <1>8

-----------------------------------------------------------------------------
(* Type correctness. *)

LEMMA ListingTypeInit == ListingInit => ListingTypeOK
BY DEF ListingInit, ListingTypeOK, NoWalk

\* The rows past the cursor are rows.
LEMMA PastCursorRows ==
    ASSUME ListingTypeOK, NEW at \in contents
    PROVE  PastCursor(at) \in SUBSET Ids
BY DEF ListingTypeOK, PastCursor

LEMMA ListingTypeStep == ListingTypeOK /\ [ListingNext]_listingVars => ListingTypeOK'
<1> SUFFICES ASSUME ListingTypeOK, [ListingNext]_listingVars PROVE ListingTypeOK'
  OBVIOUS
<1>1. ASSUME NEW r \in Ids, RowEnters(r) \/ RowLeaves(r) PROVE ListingTypeOK'
  BY <1>1 DEF ListingTypeOK, RowEnters, RowLeaves, Becomes
<1>2. ASSUME NEW limit \in Limits, NEW direction \in BothWays, StartWalk(limit, direction)
      PROVE  ListingTypeOK'
  <2>1. walk' \in Walk
    BY <1>2 DEF StartWalk, Walk
  <2>2. walk'.cursor = 0
    BY <1>2 DEF StartWalk
  <2>3. QED
    BY <1>2, <2>1, <2>2 DEF ListingTypeOK, StartWalk
<1>3. CASE NextPage
  <2>1. walk.open /\ UNCHANGED <<list, rows, contents>>
    BY <1>3, NextPageTurns DEF ListingTypeOK
  <2>2. PICK at \in contents : TurnsPage(Sorted(PastCursor(at)), at)
    BY <1>3, NextPageTurns DEF ListingTypeOK
  <2> DEFINE found == Sorted(PastCursor(at))
  <2>3. walk \in Walk
    BY <2>1 DEF ListingTypeOK, NoWalk
  <2>4. found \in Seq(Ids)
    BY PastCursorRows, SortedProperties
  <2> HIDE DEF found
  <2>5. TurnsPage(found, at)
    BY <2>2 DEF found
  <2> DEFINE n == Len(walk.seen)
             k == Len(Page(found))
  <2>6. /\ walk' \in Walk
        /\ walk'.cursor = IF More(found) THEN found[walk.limit] ELSE walk.cursor
        /\ k = IF More(found) THEN walk.limit ELSE Len(found)
        /\ Len(walk'.seen) = n + k
        /\ \A i \in 1..n : walk'.seen[i] = walk.seen[i]
        /\ \A i \in 1..k : walk'.seen[n + i] = found[i]
    BY <2>3, <2>4, <2>5, PageTurned
  <2>7. /\ n \in Nat /\ k \in Nat /\ walk.limit \in Nat \ {0}
        /\ DOMAIN walk.seen = 1..n /\ DOMAIN walk'.seen = 1..n + k
    <3>1. walk.seen \in Seq(Ids) /\ walk'.seen \in Seq(Ids) /\ walk.limit \in Limits
      BY <2>3, <2>6 DEF Walk
    <3>2. Page(found) \in Seq(Ids) /\ walk.limit \in Nat \ {0}
      BY <2>4, <3>1, PageProperties, LimitsAssumption
    <3>3. QED
      BY <2>6, <3>1, <3>2
  <2> HIDE DEF n, k
  <2>8. walk'.cursor \in {0} \cup Range(walk'.seen)
    <3>1. CASE More(found)
      <4>1. walk.limit \in 1..k /\ n + walk.limit \in 1..n + k
        BY <2>6, <2>7, <3>1
      <4>2. walk'.seen[n + walk.limit] = walk'.cursor
        BY <2>6, <3>1, <4>1
      <4>3. QED
        BY <2>7, <4>1, <4>2 DEF Range
    <3>2. CASE ~ More(found)
      <4>1. \A i \in 1..n : i \in 1..n + k
        BY <2>7
      <4>2. Range(walk.seen) \subseteq Range(walk'.seen)
        BY <2>6, <2>7, <4>1 DEF Range
      <4>3. QED
        BY <2>6, <3>2, <4>2 DEF ListingTypeOK
    <3>3. QED
      BY <3>1, <3>2
  <2>9. QED
    BY <2>1, <2>6, <2>8 DEF ListingTypeOK
<1>4. CASE UNCHANGED listingVars
  BY <1>4 DEF listingVars, ListingTypeOK
<1>5. QED
  BY <1>1, <1>2, <1>3, <1>4 DEF ListingNext

\* The model is type correct: a cursor always names a row the client has seen.
THEOREM ListingTypeCorrect == ListingSpec => []ListingTypeOK
<1>1. ListingInit => ListingTypeOK
  BY ListingTypeInit
<1>2. ListingTypeOK /\ [ListingNext]_listingVars => ListingTypeOK'
  BY ListingTypeStep
<1>3. QED
  BY <1>1, <1>2, PTL DEF ListingSpec

-----------------------------------------------------------------------------
(* What a walk has seen. *)

WalkOK ==
    Consistent /\ walk.open =>
        /\ walk.cursor = 0 => walk.seen = <<>>
        /\ walk.cursor # 0 =>
              \A i \in 1..Len(walk.seen) : ~ Before(IdOf, walk.cursor, walk.seen[i])
        /\ \A r \in walk.base :
              walk.cursor # 0 /\ ~ Before(IdOf, walk.cursor, r) => r \in Range(walk.seen)

ListingInv == ListingTypeOK /\ WalkOK /\ NothingSkipped /\ NothingRepeated

\* Ids are in the order of the walk, or not.
Ahead(r, s) == IF walk.direction = "asc" THEN r < s ELSE s < r

LEMMA BeforeIsAhead ==
    ASSUME NEW r \in Ids, NEW s \in Ids
    PROVE  Before(IdOf, r, s) <=> Ahead(r, s)
BY DEF Before, IdOf, Ahead

\* The rows found are past the cursor, none is left out, and they are in the order of
\* their ids, also where the list is sorted by time.
LEMMA FoundInOrder ==
    ASSUME ListingTypeOK, walk \in Walk, Consistent, NEW at \in contents
    PROVE  LET found == Sorted(PastCursor(at))
           IN  /\ \A i \in 1..Len(found) :
                     \/ walk.cursor = 0
                     \/ Ahead(walk.cursor, found[i])
                     \/ list.inclusive /\ found[i] = walk.cursor
               /\ \A i, j \in 1..Len(found) : i < j => Ahead(found[i], found[j])
               /\ \A r \in at : (walk.cursor = 0 \/ Ahead(walk.cursor, r)) =>
                     \E i \in 1..Len(found) : found[i] = r
<1> DEFINE past == PastCursor(at)
           found == Sorted(past)
<1>1. at \in SUBSET Ids /\ past \in SUBSET Ids /\ walk.cursor \in Ids \cup {0}
  BY PastCursorRows DEF ListingTypeOK, Walk
<1>2. /\ \A i \in 1..Len(found) : found[i] \in past
      /\ \A i, j \in 1..Len(found) : i < j => Before(SortColumn, found[i], found[j])
      /\ \A r \in past : \E i \in 1..Len(found) : found[i] = r
  BY <1>1, SortedProperties
<1>3. past \in SUBSET at
  BY DEF PastCursor
<1>4. ASSUME NEW r \in past
      PROVE  \/ walk.cursor = 0
             \/ Ahead(walk.cursor, r)
             \/ list.inclusive /\ r = walk.cursor
  BY <1>1, BeforeIsAhead DEF PastCursor
<1>5. ASSUME NEW r \in at, walk.cursor = 0 \/ Ahead(walk.cursor, r) PROVE r \in past
  BY <1>1, <1>5, BeforeIsAhead DEF PastCursor
<1>6. ASSUME NEW r \in past, NEW s \in past, Before(SortColumn, r, s) PROVE Ahead(r, s)
  <2>1. CASE ~ list.byTime
    BY <1>1, <1>6, <2>1, BeforeIsAhead DEF SortColumn
  <2>2. CASE list.byTime
    <3>1. \A p, q \in at : p < q => TimeOf[p] < TimeOf[q]
      BY <2>2 DEF Consistent, InOrder
    <3>2. r \in at /\ s \in at /\ r \in Nat /\ s \in Nat
      BY <1>1, <1>3, IdsAssumption
    <3>3. TimeOf[r] \in Nat /\ TimeOf[s] \in Nat
      BY <1>1, <3>2, TimeOfAssumption
    <3>4. IF walk.direction = "asc" THEN TimeOf[r] < TimeOf[s] ELSE TimeOf[s] < TimeOf[r]
      BY <1>6, <2>2 DEF Before, SortColumn
    <3>5. (r < s => TimeOf[r] < TimeOf[s]) /\ (s < r => TimeOf[s] < TimeOf[r])
      BY <3>1, <3>2
    <3>6. QED
      BY <3>2, <3>3, <3>4, <3>5 DEF Ahead
  <2>3. QED
    BY <2>1, <2>2
<1> HIDE DEF past, found
<1>7. /\ \A i \in 1..Len(found) :
            \/ walk.cursor = 0
            \/ Ahead(walk.cursor, found[i])
            \/ list.inclusive /\ found[i] = walk.cursor
      /\ \A i, j \in 1..Len(found) : i < j => Ahead(found[i], found[j])
      /\ \A r \in at : (walk.cursor = 0 \/ Ahead(walk.cursor, r)) =>
            \E i \in 1..Len(found) : found[i] = r
  BY <1>2, <1>4, <1>5, <1>6
<1>8. QED
  BY <1>7 DEF found, past

-----------------------------------------------------------------------------
(* The invariant holds. *)

LEMMA NextPageKeepsInv ==
    ASSUME ListingInv, ListingTypeOK', NextPage, Consistent'
    PROVE  WalkOK' /\ NothingSkipped' /\ NothingRepeated'
<1>1. walk.open /\ UNCHANGED <<list, rows, contents>>
  BY NextPageTurns DEF ListingInv, ListingTypeOK
<1>2. PICK at \in contents : TurnsPage(Sorted(PastCursor(at)), at)
  BY NextPageTurns DEF ListingInv, ListingTypeOK
<1>3. Consistent
  BY <1>1 DEF Consistent, InOrder
<1>4. walk \in Walk
  BY <1>1 DEF ListingInv, ListingTypeOK, NoWalk
<1> DEFINE found == Sorted(PastCursor(at))
           n == Len(walk.seen)
           k == Len(Page(found))
<1>5. found \in Seq(Ids) /\ at \in SUBSET Ids
  BY PastCursorRows, SortedProperties DEF ListingInv, ListingTypeOK
<1>6. /\ \A i \in 1..Len(found) :
            \/ walk.cursor = 0
            \/ Ahead(walk.cursor, found[i])
            \/ list.inclusive /\ found[i] = walk.cursor
      /\ \A i, j \in 1..Len(found) : i < j => Ahead(found[i], found[j])
      /\ \A r \in at : (walk.cursor = 0 \/ Ahead(walk.cursor, r)) =>
            \E i \in 1..Len(found) : found[i] = r
  BY <1>3, <1>4, FoundInOrder DEF ListingInv
<1> HIDE DEF found
<1>7. /\ walk' \in Walk
      /\ walk'.limit = walk.limit /\ walk'.direction = walk.direction
      /\ walk'.base = walk.base \cap at
      /\ walk'.open = More(found)
      /\ walk'.cursor = IF More(found) THEN found[walk.limit] ELSE walk.cursor
      /\ k = IF More(found) THEN walk.limit ELSE Len(found)
      /\ Len(walk'.seen) = n + k
      /\ \A i \in 1..n : walk'.seen[i] = walk.seen[i]
      /\ \A i \in 1..k : walk'.seen[n + i] = found[i]
  <2>1. TurnsPage(found, at)
    BY <1>2 DEF found
  <2>2. QED
    BY <1>4, <1>5, <2>1, PageTurned
<1>8. /\ walk.seen \in Seq(Ids) /\ walk'.seen \in Seq(Ids)
      /\ walk.limit \in Nat \ {0} /\ walk.base \in SUBSET Ids
      /\ walk.cursor \in Ids \cup {0}
  BY <1>4, <1>7, LimitsAssumption DEF Walk
<1>9. /\ n \in Nat /\ k \in Nat /\ Len(found) \in Nat /\ k <= Len(found)
      /\ DOMAIN walk.seen = 1..n /\ DOMAIN walk'.seen = 1..n + k
      /\ More(found) => k = walk.limit /\ k \in 1..Len(found) /\ k < Len(found)
      /\ ~ More(found) => k = Len(found)
  <2>1. n \in Nat /\ Len(found) \in Nat /\ DOMAIN walk.seen = 1..n
    BY <1>5, <1>8
  <2>2. k \in Nat
    BY <1>7, <1>8, <2>1
  <2>3. DOMAIN walk'.seen = 1..Len(walk'.seen)
    BY <1>8
  <2> HIDE DEF n, k
  <2>4. QED
    BY <1>7, <1>8, <2>1, <2>2, <2>3 DEF More
<1>10. /\ \A i \in 1..n : walk.seen[i] \in Ids
       /\ \A i \in 1..Len(found) : found[i] \in Ids
  BY <1>5, <1>8, ElementOfSeq
<1>11. /\ walk.cursor = 0 => n = 0
       /\ walk.cursor # 0 => \A i \in 1..n : ~ Ahead(walk.cursor, walk.seen[i])
       /\ \A r \in walk.base :
             walk.cursor # 0 /\ ~ Ahead(walk.cursor, r) => \E i \in 1..n : walk.seen[i] = r
  <2>1. WalkOK
    BY DEF ListingInv
  <2>2. walk.cursor = 0 => n = 0
    BY <1>1, <1>3, <2>1 DEF WalkOK
  <2>3. walk.cursor # 0 => \A i \in 1..n : ~ Ahead(walk.cursor, walk.seen[i])
    BY <1>1, <1>3, <1>8, <1>10, <2>1, BeforeIsAhead DEF WalkOK
  <2>4. ASSUME NEW r \in walk.base, walk.cursor # 0, ~ Ahead(walk.cursor, r)
        PROVE  \E i \in 1..n : walk.seen[i] = r
    <3>1. r \in Range(walk.seen)
      BY <1>1, <1>3, <1>8, <2>1, <2>4, BeforeIsAhead DEF WalkOK
    <3>2. QED
      BY <1>9, <3>1 DEF Range
  <2>5. QED
    BY <2>2, <2>3, <2>4
<1>12. \A i, j \in 1..n : i < j =>
          Ahead(walk.seen[i], walk.seen[j]) \/ (list.inclusive /\ walk.seen[i] = walk.seen[j])
  BY <1>3, <1>10, BeforeIsAhead DEF ListingInv, NothingRepeated
<1>13. ASSUME NEW r \in Ids, NEW s \in Ids
       PROVE  Before(IdOf, r, s)' <=> Ahead(r, s)
  BY <1>7 DEF Before, IdOf, Ahead
<1>14. /\ \A r, s \in Ids : Ahead(r, s) \/ Ahead(s, r) \/ r = s
       /\ \A r, s \in Ids : ~ (Ahead(r, s) /\ Ahead(s, r)) /\ ~ Ahead(r, r)
       /\ \A p, r, s \in Ids : Ahead(p, r) /\ Ahead(r, s) => Ahead(p, s)
  BY IdsAssumption DEF Ahead
<1> HIDE DEF n, k
<1>15. ASSUME NEW i \in 1..n, NEW j \in 1..Len(found)
       PROVE  Ahead(walk.seen[i], found[j]) \/ (list.inclusive /\ walk.seen[i] = found[j])
  <2>1. walk.cursor # 0 /\ walk.cursor \in Ids
    BY <1>8, <1>9, <1>11
  <2>2. walk.seen[i] = walk.cursor \/ Ahead(walk.seen[i], walk.cursor)
    BY <1>10, <1>11, <1>14, <2>1
  <2>3. Ahead(walk.cursor, found[j]) \/ (list.inclusive /\ found[j] = walk.cursor)
    BY <1>6, <2>1
  <2>4. QED
    BY <1>10, <1>14, <2>1, <2>2, <2>3
<1>16. NothingRepeated'
  <2>1. ASSUME NEW i \in 1..n + k, NEW j \in 1..n + k, i < j
        PROVE  \/ Ahead(walk'.seen[i], walk'.seen[j])
               \/ list.inclusive /\ walk'.seen[i] = walk'.seen[j]
    <3>1. CASE j <= n
      <4>1. i \in 1..n /\ j \in 1..n
        BY <1>9, <2>1, <3>1
      <4>2. QED
        BY <1>7, <1>12, <2>1, <4>1
    <3>2. CASE i <= n /\ ~ (j <= n)
      <4>1. i \in 1..n /\ j - n \in 1..k /\ j - n \in 1..Len(found) /\ j = n + (j - n)
        BY <1>9, <2>1, <3>2
      <4>2. walk'.seen[i] = walk.seen[i] /\ walk'.seen[j] = found[j - n]
        BY <1>7, <4>1
      <4>3. QED
        BY <1>15, <4>1, <4>2
    <3>3. CASE ~ (i <= n)
      <4>1. /\ i - n \in 1..k /\ i - n \in 1..Len(found) /\ i = n + (i - n)
            /\ j - n \in 1..k /\ j - n \in 1..Len(found) /\ j = n + (j - n)
            /\ i - n < j - n
        BY <1>9, <2>1, <3>3
      <4>2. walk'.seen[i] = found[i - n] /\ walk'.seen[j] = found[j - n]
        BY <1>7, <4>1
      <4>3. QED
        BY <1>6, <4>1, <4>2
    <3>4. QED
      BY <3>1, <3>2, <3>3
  <2>2. \A i \in 1..n + k : walk'.seen[i] \in Ids
    BY <1>8, <1>9
  <2>3. Len(walk'.seen) = n + k /\ list' = list
    BY <1>1, <1>7
  <2>4. QED
    BY <1>13, <2>1, <2>2, <2>3 DEF NothingRepeated
\* What was in the list all along is on an earlier page or among the rows found.
<1>17. ASSUME NEW r \in walk'.base
       PROVE  \/ \E i \in 1..n : walk'.seen[i] = r
              \/ \E i \in 1..Len(found) : found[i] = r
  <2>1. r \in walk.base /\ r \in at /\ r \in Ids
    BY <1>5, <1>7, <1>17
  <2>2. CASE walk.cursor # 0 /\ ~ Ahead(walk.cursor, r)
    BY <1>7, <1>11, <2>1, <2>2
  <2>3. CASE walk.cursor = 0 \/ Ahead(walk.cursor, r)
    BY <1>6, <2>1, <2>3
  <2>4. QED
    BY <2>2, <2>3
<1>18. NothingSkipped'
  <2>1. ASSUME ~ walk'.open, NEW r \in walk'.base PROVE r \in Range(walk'.seen)
    <3>1. k = Len(found)
      BY <1>7, <1>9, <2>1
    <3>2. CASE \E i \in 1..n : walk'.seen[i] = r
      <4>1. \A i \in 1..n : i \in 1..n + k
        BY <1>9
      <4>2. QED
        BY <1>9, <3>2, <4>1 DEF Range
    <3>3. CASE \E i \in 1..Len(found) : found[i] = r
      <4>1. \A i \in 1..k : n + i \in 1..n + k
        BY <1>9
      <4>2. QED
        BY <1>7, <1>9, <3>1, <3>3, <4>1 DEF Range
    <3>4. QED
      BY <1>17, <3>2, <3>3
  <2>2. QED
    BY <2>1 DEF NothingSkipped
<1>19. ASSUME walk'.open
       PROVE  /\ walk'.cursor = found[k] /\ k \in 1..Len(found)
              /\ walk'.cursor \in Ids /\ walk'.cursor # 0
  BY <1>7, <1>9, <1>10, <1>19, IdsAssumption
<1>20. ASSUME walk'.open, NEW i \in 1..n + k PROVE ~ Ahead(walk'.cursor, walk'.seen[i])
  <2>1. walk'.cursor = found[k] /\ k \in 1..Len(found) /\ walk'.cursor \in Ids
    BY <1>19, <1>20
  <2>2. CASE i \in 1..n
    BY <1>7, <1>10, <1>14, <1>15, <2>1, <2>2
  <2>3. CASE i \notin 1..n
    <3>1. /\ i - n \in 1..k /\ i - n \in 1..Len(found)
          /\ i = n + (i - n) /\ (i - n < k \/ i - n = k)
      BY <1>9, <2>3
    <3>2. walk'.seen[i] = found[i - n]
      BY <1>7, <3>1
    <3>3. found[i - n] = found[k] \/ Ahead(found[i - n], found[k])
      BY <1>6, <2>1, <3>1
    <3>4. QED
      BY <1>10, <1>14, <2>1, <3>1, <3>2, <3>3
  <2>4. QED
    BY <2>2, <2>3
<1>21. ASSUME walk'.open, NEW r \in walk'.base, ~ Ahead(walk'.cursor, r)
       PROVE  r \in Range(walk'.seen)
  <2>1. walk'.cursor = found[k] /\ k \in 1..Len(found)
    BY <1>19, <1>21
  <2>2. CASE \E i \in 1..n : walk'.seen[i] = r
    <3>1. \A i \in 1..n : i \in 1..n + k
      BY <1>9
    <3>2. QED
      BY <1>9, <2>2, <3>1 DEF Range
  <2>3. CASE \E i \in 1..Len(found) : found[i] = r
    <3>1. PICK i \in 1..Len(found) : found[i] = r
      BY <2>3
    <3>2. i \in 1..k
      BY <1>6, <1>9, <1>21, <2>1, <3>1
    <3>3. n + i \in 1..n + k
      BY <1>9, <3>2
    <3>4. QED
      BY <1>7, <1>9, <3>1, <3>2, <3>3 DEF Range
  <2>4. QED
    BY <1>17, <1>21, <2>2, <2>3
<1>22. WalkOK'
  <2>1. ASSUME walk'.open PROVE walk'.cursor # 0 /\ walk'.cursor \in Ids
    BY <1>19, <2>1
  <2>2. ASSUME walk'.open, NEW i \in 1..n + k
        PROVE  ~ Before(IdOf, walk.cursor, walk.seen[i])'
    <3>1. walk'.seen[i] \in Ids
      BY <1>8, <1>9
    <3>2. ~ Ahead(walk'.cursor, walk'.seen[i])
      BY <1>20, <2>2
    <3>3. QED
      BY <1>7, <2>1, <2>2, <3>1, <3>2 DEF Before, IdOf, Ahead
  <2>3. ASSUME walk'.open, NEW r \in walk'.base, ~ Before(IdOf, walk.cursor, r)'
        PROVE  r \in Range(walk'.seen)
    <3>1. r \in Ids
      BY <1>7, <1>8
    <3>2. ~ Ahead(walk'.cursor, r)
      BY <1>7, <2>1, <2>3, <3>1 DEF Before, IdOf, Ahead
    <3>3. QED
      BY <1>21, <2>3, <3>2
  <2>4. QED
    BY <1>7, <2>1, <2>2, <2>3 DEF WalkOK
<1>23. QED
  BY <1>16, <1>18, <1>22

LEMMA ListingInvStep == ListingInv /\ [ListingNext]_listingVars => ListingInv'
<1> SUFFICES ASSUME ListingInv, [ListingNext]_listingVars PROVE ListingInv'
  OBVIOUS
<1>1. ListingTypeOK'
  BY ListingTypeStep DEF ListingInv
<1>2. ASSUME NEW r \in Ids, RowEnters(r) \/ RowLeaves(r) PROVE ListingInv'
  <2>1. contents \subseteq contents' /\ UNCHANGED <<list, walk>>
    BY <1>2 DEF RowEnters, RowLeaves, Becomes
  <2>2. Consistent' => Consistent
    BY <2>1 DEF Consistent, InOrder
  <2>3. WalkOK'
    BY <2>1, <2>2 DEF ListingInv, WalkOK, Before
  <2>4. NothingSkipped'
    BY <2>1, <2>2 DEF ListingInv, NothingSkipped
  <2>5. NothingRepeated'
    BY <2>1, <2>2 DEF ListingInv, NothingRepeated, Before
  <2>6. QED
    BY <1>1, <2>3, <2>4, <2>5 DEF ListingInv
<1>3. ASSUME NEW limit \in Limits, NEW direction \in BothWays, StartWalk(limit, direction)
      PROVE  ListingInv'
  <2>1. walk'.open /\ walk'.seen = <<>> /\ walk'.cursor = 0
    BY <1>3 DEF StartWalk
  <2>2. Len(walk'.seen) = 0
    BY <2>1
  <2>3. NothingRepeated'
    BY <2>2 DEF NothingRepeated
  <2>4. QED
    BY <1>1, <2>1, <2>3 DEF ListingInv, WalkOK, NothingSkipped
<1>4. CASE NextPage
  <2>1. Consistent' => WalkOK' /\ NothingSkipped' /\ NothingRepeated'
    BY <1>1, <1>4, NextPageKeepsInv
  <2>2. ~ Consistent' => WalkOK' /\ NothingSkipped' /\ NothingRepeated'
    BY DEF WalkOK, NothingSkipped, NothingRepeated
  <2>3. QED
    BY <1>1, <2>1, <2>2 DEF ListingInv
<1>5. CASE UNCHANGED listingVars
  BY <1>5 DEF listingVars, ListingInv, ListingTypeOK, WalkOK, NothingSkipped,
     NothingRepeated, Consistent, InOrder, Before
<1>6. QED
  BY <1>2, <1>3, <1>4, <1>5 DEF ListingNext

LEMMA ListingInvInit == ListingInit => ListingInv
<1> SUFFICES ASSUME ListingInit PROVE ListingInv
  OBVIOUS
<1>1. walk = NoWalk /\ walk.base = {} /\ ~ walk.open /\ walk.seen = <<>>
  BY DEF ListingInit, NoWalk
<1>2. Len(walk.seen) = 0
  BY <1>1
<1>3. QED
  BY <1>1, <1>2, ListingTypeInit DEF ListingInv, WalkOK, NothingSkipped, NothingRepeated

LEMMA ListingInvHolds == ListingSpec => []ListingInv
<1>1. ListingInit => ListingInv
  BY ListingInvInit
<1>2. ListingInv /\ [ListingNext]_listingVars => ListingInv'
  BY ListingInvStep
<1>3. QED
  BY <1>1, <1>2, PTL DEF ListingSpec

\* cursor-pagination.ts: whatever enters and leaves a list, however old the cached pages are
\* and whatever the limits, a walk to the end returns every row that was there all along; of
\* a list sorted by time, as long as ids and times agree.
THEOREM NothingIsSkipped == ListingSpec => []NothingSkipped
<1>1. ListingInv => NothingSkipped
  BY DEF ListingInv
<1>2. QED
  BY <1>1, ListingInvHolds, PTL

\* cursor-pagination.ts: a walk returns no row twice and never goes back, except for the row
\* the inclusive cursor of restaurant_balances repeats.
THEOREM NothingIsRepeated == ListingSpec => []NothingRepeated
<1>1. ListingInv => NothingRepeated
  BY DEF ListingInv
<1>2. QED
  BY <1>1, ListingInvHolds, PTL

=============================================================================
