-------------------------------- MODULE Paging --------------------------------
(***************************************************************************)
(* The lists of the API: a client asks for one page after another, each    *)
(* with the id of the last row of the page before as its cursor, while     *)
(* rows are inserted, patched and removed (listX of the services in        *)
(* apps/api/src/modules).                                                  *)
(*                                                                         *)
(* A page is a query of its own, which reads one row more than it shows to *)
(* see whether there is another page.  The services use the cursor in four *)
(* ways; what tells two lists apart here is only that, the order, and what *)
(* may change while a client walks: whether a row passes the filter        *)
(* (statuses, searches, property scope, deletion) and its sort key.        *)
(*                                                                         *)
(* Ids are random UUIDs.  A rank is all of the sort key that comes before  *)
(* the id, and descending orders are turned round.  Rows stay in their     *)
(* table: deletions are marks.  Scopes themselves are in Documents and     *)
(* Memberships.                                                            *)
(***************************************************************************)
EXTENDS Naturals, FiniteSets

CONSTANTS
  NumRows,      \* rows of the table; their ids are 1..NumRows
  MaxRank,      \* sort keys are 1..MaxRank
  Limit,        \* rows of a page
  ListsWalked,  \* the lists that a client walks
  MaxChanges    \* bound on insertions and changes during a walk

RowIds == 1..NumRows
Ranks  == 1..MaxRank

ASSUME PagingAssumption ==
  NumRows \in Nat /\ MaxRank \in Nat /\ Limit \in Nat \ {0} /\ MaxChanges \in Nat

VARIABLES
  listing,  \* the list that is walked
  rows,     \* the rows: whether they are there, whether they match, their rank
  walk,     \* the client's cursor, how often it was shown each row, whether it has finished
  steady,   \* history: rows that have been there, matched and kept their rank
  cut,      \* history: the row of the client's cursor has changed
  changes   \* insertions and changes so far

pageVars == <<listing, rows, walk, steady, cut, changes>>

(***************************************************************************)
(* The lists.  cursor: how the id of the last row is used; sorted: by rank *)
(* and id or by id; varies: what may change of a row.                      *)
(***************************************************************************)

Listing(cursor, sorted, varies) == [cursor |-> cursor, sorted |-> sorted, varies |-> varies]

\* WHERE id > after ORDER BY id.
ById(varies) == Listing("id", "id", varies)

\* The row is fetched first and its sort key compared.
ByKey(varies) == Listing("key", "rank", varies)

\* Prisma's cursor with skip: 1.
ByRow(varies) == Listing("row", "rank", varies)

ListProperties   == ById({"match"})
ListUnits        == ById({"match"})
ListUnitsOrgWide == ById({"match"})
ListAvailability == ById({"match"})
ListBeds         == ById({"match"})
ListAmenities    == ById({})
ListResidents    == ById({"match"})
ListLeases       == ById({"match"})
ListDocuments    == ById({"match"})
ListOwners       == ById({"match"})
ListOwnerships   == ById({})
ListAgreements   == ById({"match"})
ListMembers      == ById({})
ListInvitations  == ById({})
ListGrants       == ById({})

\* The order is by sortOrder, which a patch may change, or by name.
ListBuildings == Listing("id", "rank", {"match", "rank"})
ListRoles     == Listing("id", "rank", {"rank"})

GetHistory          == ByKey({})
ListOccupancyEvents == ByKey({})
ListOperations      == ByKey({})
\* By priority, which a patch may change.
ListEntries         == ByKey({"match", "rank"})

ListInvoices      == ByRow({"match"})
ListCreditNotes   == ByRow({})
ListLedgerEntries == ByRow({})
ListBillingRuns   == ByRow({"match"})
ListMeters        == ByRow({})
ListDeposits      == ByRow({"match"})
ListPayments      == ByRow({"match"})
ListArrears       == ByRow({"match"})
ListPeriods       == ByRow({})
ListRuns          == ByRow({"match"})
ListItems         == ByRow({"match"})

\* The whole list is read, up to 500 rows, and searched for the cursor.
GetInvoiceAging == Listing("position", "rank", {"match"})

AllLists ==
  {ListProperties, ListUnits, ListUnitsOrgWide, ListAvailability, ListBeds, ListAmenities,
   ListResidents, ListLeases, ListDocuments, ListOwners, ListOwnerships, ListAgreements,
   ListMembers, ListInvitations, ListGrants, ListBuildings, ListRoles, GetHistory,
   ListOccupancyEvents, ListOperations, ListEntries, ListInvoices, ListCreditNotes,
   ListLedgerEntries, ListBillingRuns, ListMeters, ListDeposits, ListPayments, ListArrears,
   ListPeriods, ListRuns, ListItems, GetInvoiceAging}

ASSUME ListAssumption == ListsWalked \subseteq AllLists

\* The lists whose cursor goes with their order.
KeysetLists == {l \in AllLists : l.cursor = "id" => l.sorted = "id"}

(***************************************************************************)
(* A page.                                                                 *)
(***************************************************************************)

Matching == {x \in RowIds : rows[x].there /\ rows[x].match}

\* The key of row x is less than that of row y.
Precedes(x, y) ==
  IF listing.sorted = "id" THEN x < y
  ELSE rows[x].rank < rows[y].rank \/ (rows[x].rank = rows[y].rank /\ x < y)

\* A faulty variant of Rest: the row of the cursor is not left out.
RestInclusive(after) ==
  {x \in Matching : after = 0 \/ x = after \/ (listing.cursor = "id" /\ x > after)
                    \/ (listing.cursor # "id" /\ Precedes(after, x))}

\* What is still to be shown after the row `after`; 0 asks for the first page.
\* Prisma starts at the row of the cursor, if it still passes the filter, and
\* skips the first it finds.
Rest(after) ==
  IF after = 0 THEN Matching
  ELSE CASE listing.cursor = "id"  -> {x \in Matching : x > after}
         [] listing.cursor = "key" -> {x \in Matching : Precedes(after, x)}
         [] listing.cursor = "row" ->
              LET from == {x \in Matching : x = after \/ Precedes(after, x)}
              IN {x \in from : \E y \in from : Precedes(y, x)}
         [] listing.cursor = "position" ->
              {x \in Matching : after \notin Matching \/ Precedes(after, x)}

\* The first rows of `rest`, no more than Limit.
FirstOf(rest) == {x \in rest : Cardinality({y \in rest : Precedes(y, x)}) < Limit}

\* The row that all others on the page precede.
IsLast(x, page) == x \in page /\ \A y \in page \ {x} : Precedes(y, x)

NextPage ==
  LET rest == Rest(walk.after)
      page == FirstOf(rest)
      shown == [x \in RowIds |-> walk.shown[x] + (IF x \in page THEN 1 ELSE 0)]
  IN
  /\ ~walk.done
  /\ IF Cardinality(rest) > Limit
     THEN \E last \in page :
            /\ IsLast(last, page)
            /\ walk' = [shown |-> shown, done |-> FALSE, after |-> last]
     ELSE walk' = [shown |-> shown, done |-> TRUE, after |-> walk.after]
  /\ UNCHANGED <<listing, rows, steady, cut, changes>>

(***************************************************************************)
(* What happens to the rows meanwhile.                                     *)
(***************************************************************************)

Changed(x, row) ==
  /\ ~walk.done /\ changes < MaxChanges
  /\ rows' = [rows EXCEPT ![x] = row]
  /\ steady' = steady \ {x}
  /\ cut' = (cut \/ x = walk.after)
  /\ changes' = changes + 1
  /\ UNCHANGED <<listing, walk>>

InsertRow(x, rank) == ~rows[x].there /\ Changed(x, [there |-> TRUE, match |-> TRUE, rank |-> rank])

\* A change of status or title, a deletion, a move out of scope, or back.
ChangeMatch(x) ==
  /\ "match" \in listing.varies /\ rows[x].there
  /\ Changed(x, [rows[x] EXCEPT !.match = ~@])

ChangeRank(x, rank) ==
  /\ "rank" \in listing.varies /\ rows[x].there /\ rank # rows[x].rank
  /\ Changed(x, [rows[x] EXCEPT !.rank = rank])

PagingInit ==
  /\ listing \in ListsWalked
  /\ rows \in [RowIds -> [there : BOOLEAN, match : {TRUE}, rank : Ranks]]
  /\ walk = [after |-> 0, shown |-> [x \in RowIds |-> 0], done |-> FALSE]
  /\ steady = {x \in RowIds : rows[x].there}
  /\ cut = FALSE
  /\ changes = 0

PagingNext ==
  \/ NextPage
  \/ \E x \in RowIds :
       ChangeMatch(x) \/ \E rank \in Ranks : InsertRow(x, rank) \/ ChangeRank(x, rank)

PagingSpec == PagingInit /\ [][PagingNext]_pageVars

(***************************************************************************)
(* Properties.                                                             *)
(***************************************************************************)

\* The walk is one of rows of the table.
PagingTypeOK ==
  /\ listing \in ListsWalked /\ steady \subseteq RowIds /\ changes \in 0..MaxChanges
  /\ rows \in [RowIds -> [there : BOOLEAN, match : BOOLEAN, rank : Ranks]]
  /\ walk.after \in RowIds \cup {0} /\ walk.done \in BOOLEAN
  /\ walk.shown \in [RowIds -> Nat]

\* The client has been shown every row that was there and unchanged all the
\* time, and no such row twice.
ShownOnce == \A x \in steady : walk.shown[x] = 1

\* A client that walks a list to the end sees it all and nothing twice, whatever
\* is inserted, patched or removed meanwhile, as long as the very row its cursor
\* names is left alone; a cursor that is only an id does not mind that either.
WalkComplete == walk.done /\ (cut => listing.cursor = "id") => ShownOnce

\* docs/11-design-review-findings.md, cursor pagination under concurrency:
\* keyset and unique tie-breaker; so it says of every list.
WalkStable == walk.done => ShownOnce

=============================================================================
