------------------------------- MODULE Listing -------------------------------
(***************************************************************************)
(* Cursor pagination: a client reads a list page by page, and each page    *)
(* names the row after which the next one begins, while rows enter and     *)
(* leave the list.  Ten endpoints do this, each in its own way.            *)
(*                                                                         *)
(* A row is its id.  Rows commit in any order of their ids, and leave a    *)
(* list when they no longer pass its filter.                               *)
(***************************************************************************)
EXTENDS Naturals, Sequences, FiniteSets, Functions

CONSTANTS Ids,
          TimeOf,      \* created_at or assigned_at of a row: no two are equal
          Limits,
          MaxSeen      \* bound of the model: rows after which the client gives up

ASSUME IdsAssumption    == Ids \subseteq Nat \ {0} /\ IsFiniteSet(Ids)
ASSUME TimeOfAssumption ==
    TimeOf \in [Ids -> Nat] /\ \A r, s \in Ids : TimeOf[r] = TimeOf[s] => r = s
ASSUME LimitsAssumption == Limits \subseteq Nat \ {0} /\ MaxSeen \in Nat

-----------------------------------------------------------------------------
\* The lists: the directions they may be read in, whether a page is kept in the cache,
\* whether rows are sorted by time though the cursor is an id, and whether a page
\* begins with the row the cursor names.

ListKind(directions, cached, byTime, inclusive) ==
    [directions |-> directions, cached |-> cached, byTime |-> byTime, inclusive |-> inclusive]

BothWays == {"asc", "desc"}

CustomerOrders  == ListKind(BothWays, TRUE,  FALSE, FALSE)
BranchOrders    == ListKind(BothWays, TRUE,  FALSE, FALSE)
AllOrders       == ListKind(BothWays, FALSE, FALSE, FALSE)
AllTransactions == ListKind(BothWays, FALSE, FALSE, FALSE)
Payouts         == ListKind({"desc"}, FALSE, FALSE, FALSE)
Earnings        == ListKind({"desc"}, FALSE, FALSE, FALSE)
Tasks           == ListKind({"desc"}, FALSE, TRUE,  FALSE)
AgentPresence   == ListKind({"asc"},  FALSE, FALSE, FALSE)
DeadLetters     == ListKind({"asc"},  FALSE, TRUE,  FALSE)
Balances        == ListKind({"asc"},  FALSE, FALSE, TRUE)

Lists == {CustomerOrders, BranchOrders, AllOrders, AllTransactions, Payouts, Earnings,
          Tasks, AgentPresence, DeadLetters, Balances}

-----------------------------------------------------------------------------

VARIABLES list,       \* the list that is read
          rows,       \* its rows
          contents,   \* what its rows have been so far: what a cached page may come from
          walk        \* the client's walk through the list

listingVars == <<list, rows, contents, walk>>

\* The rows of a list that is read from first to last.  base: the rows that were in the
\* list whenever one of the walk's pages was computed.
Walk == [limit: Limits, direction: BothWays, cursor: Ids \cup {0}, open: BOOLEAN,
         seen: Seq(Ids), base: SUBSET Ids]

NoWalk == [open |-> FALSE, seen |-> <<>>, base |-> {}, cursor |-> 0]

ListingTypeOK ==
    /\ list \in Lists
    /\ rows \in contents
    /\ contents \subseteq SUBSET Ids
    /\ walk = NoWalk \/ walk \in Walk
    /\ walk.cursor \in {0} \cup Range(walk.seen)

ListingInit ==
    /\ list \in Lists
    /\ rows = {}
    /\ contents = {rows}
    /\ walk = NoWalk

-----------------------------------------------------------------------------
Becomes(new) ==
    /\ rows' = new
    /\ contents' = contents \cup {new}
    /\ UNCHANGED <<list, walk>>

RowEnters(r) == Becomes(rows \cup {r})
RowLeaves(r) == Becomes(rows \ {r})

StartWalk(limit, direction) ==
    /\ ~walk.open
    /\ direction \in list.directions
    /\ walk' = [limit |-> limit, direction |-> direction, cursor |-> 0, open |-> TRUE,
                seen |-> <<>>, base |-> Ids]
    /\ UNCHANGED <<list, rows, contents>>

\* r comes before s in the direction of the walk, by a column.
Before(column, r, s) ==
    IF walk.direction = "asc" THEN column[r] < column[s] ELSE column[s] < column[r]

IdOf == [r \in Ids |-> r]

\* Faulty: no list leaves out the row its cursor names.
PastCursor_Inclusive(at) ==
    IF walk.cursor = 0 THEN at
    ELSE {r \in at : Before(IdOf, walk.cursor, r) \/ r = walk.cursor}

\* The WHERE clause of the cursor.
PastCursor(at) ==
    IF walk.cursor = 0 THEN at
    ELSE {r \in at : \/ Before(IdOf, walk.cursor, r)
                     \/ list.inclusive /\ r = walk.cursor}

\* ORDER BY.
SortColumn == IF list.byTime THEN TimeOf ELSE IdOf

Sorted(at) ==
    CHOOSE s \in [1..Cardinality(at) -> at] :
        \A i, j \in 1..Cardinality(at) : i < j => Before(SortColumn, s[i], s[j])

\* Faulty: the row that was fetched to see whether there is more is taken for the last.
NextCursor_Extra(fetched) == fetched[Len(fetched)]

\* buildPaginationResult: the id of the last row of the page.
NextCursor(fetched) == fetched[walk.limit]

\* A page of what the list is, or of what it was when the page was cached; limit + 1 rows
\* are fetched, to see whether there is more.
NextPage ==
    /\ walk.open
    /\ Len(walk.seen) < MaxSeen
    /\ \E at \in IF list.cached THEN contents ELSE {rows} :
          LET found == Sorted(PastCursor(at))
              more  == Len(found) > walk.limit
              fetched == SubSeq(found, 1, IF more THEN walk.limit + 1 ELSE Len(found))
              page  == SubSeq(fetched, 1, IF more THEN walk.limit ELSE Len(found))
          IN walk' = [walk EXCEPT !.seen   = @ \o page,
                                  !.base   = @ \cap at,
                                  !.open   = more,
                                  !.cursor = IF more THEN NextCursor(fetched) ELSE @]
    /\ UNCHANGED <<list, rows, contents>>

ListingNext ==
    \/ \E r \in Ids : RowEnters(r) \/ RowLeaves(r)
    \/ \E limit \in Limits, direction \in BothWays : StartWalk(limit, direction)
    \/ NextPage

ListingSpec == ListingInit /\ [][ListingNext]_listingVars

\* A client that has begun to read goes on.
FairListingSpec == ListingSpec /\ WF_listingVars(NextPage)

-----------------------------------------------------------------------------
(* Properties. *)

\* The rows there have been were stamped in the order of their ids.
InOrder == \A r, s \in UNION contents : r < s => TimeOf[r] < TimeOf[s]

Consistent == list.byTime => InOrder

\* cursor-pagination.ts: a list that was read to the end returned every row that was in it
\* all along, whatever entered and left meanwhile and however old the cached pages were;
\* of a list sorted by time, if ids and times agree.
NothingSkipped == ~walk.open /\ Consistent => walk.base \subseteq Range(walk.seen)

\* cursor-pagination.ts: no row is returned twice and rows keep their order from page to
\* page; restaurant_balances repeats the row a page ended with.
NothingRepeated ==
    Consistent =>
        \A i, j \in 1..Len(walk.seen) : i < j =>
            \/ Before(IdOf, walk.seen[i], walk.seen[j])
            \/ list.inclusive /\ walk.seen[i] = walk.seen[j]

\* restaurant_balances, read one by one, returns the same row for ever.
AtTheEnd == ~walk.open \/ (list.inclusive /\ walk.limit = 1)

\* cursor-pagination.ts hasMore: a client that goes on reaches the end of a list it reads
\* downwards, where the ids below the cursor run out, whatever enters and leaves meanwhile.
\* Upwards it does if the list changes no more: with a new row for every page it would not.
WalksEnd ==
    /\ (walk.open /\ walk.direction = "desc") ~> AtTheEnd
    /\ \A final \in SUBSET Ids : <>[](rows = final) => (walk.open ~> AtTheEnd)

=============================================================================
