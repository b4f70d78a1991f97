------------------------------ MODULE Inventory ------------------------------
(***************************************************************************)
(* Properties, their buildings and units, and the beds of a unit           *)
(* (apps/api/src/modules/inventory): creation, patches, archive, restore.  *)
(*                                                                         *)
(* Every operation reads what it decides from, the If-Match version        *)
(* included, and then writes one row by its id, or inserts it, in a        *)
(* transaction that looks at nothing again.  Only the partial unique       *)
(* indexes on the codes stand between two writes.                          *)
(*                                                                         *)
(* The four tables are one function from ids to rows here.  Names,         *)
(* addresses, amenities, operational statuses and the history are left     *)
(* out: an edit that changes only those is one that changes no column but  *)
(* the version.  The access of the caller is in Memberships.               *)
(***************************************************************************)
EXTENDS Naturals

CONSTANTS
  Properties, Buildings, Units, Beds,
  Codes,
  Organization,     \* what a property belongs to
  NoBuilding,       \* SQL NULL of units.building_id
  Editors,          \* calls that are between their reads and their write
  MaxRowVersion     \* bound on the changes of each row

Places == Properties \cup Buildings \cup Units \cup Beds
Modes  == {"WHOLE_UNIT", "BED"}   \* CAPACITY is like WHOLE_UNIT here

ASSUME InventoryAssumption ==
  /\ MaxRowVersion \in [Places -> Nat]
  /\ Organization \notin Places /\ NoBuilding \notin Places
  /\ Properties \cap (Buildings \cup Units \cup Beds) = {}
  /\ Buildings \cap (Units \cup Beds) = {} /\ Units \cap Beds = {}

VARIABLES
  place,    \* the rows of properties, buildings, units and beds
  edit      \* what each call has read and is about to write

inventoryVars == <<place, edit>>

NoPlace == [status |-> "NONE", deleted |-> FALSE, version |-> 0, parent |-> Organization,
            code |-> "none", building |-> NoBuilding, mode |-> "WHOLE_UNIT"]
NoCall  == [op |-> "none"]

InventoryInit ==
  /\ place = [x \in Places |-> NoPlace]
  /\ edit = [c \in Editors |-> NoCall]

\* findActive, assertPropertyExists, findUnit: status is not looked at.
Exists(x) == place[x].status # "NONE" /\ ~place[x].deleted

\* What the counts and the searches for duplicates look for.
Live(x) == Exists(x) /\ place[x].status = "ACTIVE"

Duplicate(x, parent, code) ==
  \E y \in Units \cup Beds : y # x /\ Live(y) /\ place[y].parent = parent /\ place[y].code = code

\* Call c will insert a row, or set the given columns of the row it has read.
Opened(c, op, x, columns) ==
  /\ edit[c] = NoCall
  /\ edit' = [edit EXCEPT ![c] = [op |-> op, target |-> x, set |-> columns,
                 version |-> IF op = "patch" THEN place[x].version ELSE 0]]
  /\ UNCHANGED place

(***************************************************************************)
(* The reads of the operations.  `columns` is what the body of a patch     *)
(* sets, of the columns that are modelled.                                 *)
(***************************************************************************)

New(parent, code) == [status |-> "ACTIVE", parent |-> parent, code |-> code]

NewUnit(parent, code, mode, building) ==
  [status |-> "ACTIVE", parent |-> parent, code |-> code, mode |-> mode, building |-> building]

CreateProperty(c, p, code) == place[p] = NoPlace /\ Opened(c, "create", p, New(Organization, code))

CreateBuilding(c, b, p, code) ==
  place[b] = NoPlace /\ Exists(p) /\ Opened(c, "create", b, New(p, code))

CreateUnit(c, u, p, code, mode, building) ==
  /\ place[u] = NoPlace /\ Exists(p) /\ ~Duplicate(u, p, code)
  /\ building # NoBuilding => Exists(building) /\ place[building].parent = p
  /\ Opened(c, "create", u, NewUnit(p, code, mode, building))

CreateBed(c, b, u, code) ==
  /\ place[b] = NoPlace /\ Exists(u) /\ place[u].mode = "BED" /\ ~Duplicate(b, u, code)
  /\ Opened(c, "create", b, New(u, code))

\* patchProperty, patchBuilding, patchBed; also an edit of amenities or of the
\* operational status, with no columns.  The caller has the row's version.
Patch(c, x, columns) == Exists(x) /\ Opened(c, "patch", x, columns)

\* The building that a body names is not looked up.
PatchUnit(c, u, columns) ==
  /\ "code" \in DOMAIN columns /\ columns.code # place[u].code =>
       ~Duplicate(u, place[u].parent, columns.code)
  /\ "mode" \in DOMAIN columns /\ columns.mode # "BED" /\ place[u].mode = "BED" =>
       ~\E b \in Beds : Live(b) /\ place[b].parent = u
  /\ Patch(c, u, columns)

\* archiveUnit and archiveBed look at nothing else.
Archive(c, x) == Exists(x) /\ Opened(c, "archive", x, [status |-> "ARCHIVED", deleted |-> TRUE])

ArchiveProperty(c, p) ==
  (~\E u \in Units : Live(u) /\ place[u].parent = p) /\ Archive(c, p)

ArchiveBuilding(c, b) ==
  (~\E u \in Units : Live(u) /\ place[u].building = b) /\ Archive(c, b)

Restored == [status |-> "ACTIVE", deleted |-> FALSE]

RestoreProperty(c, p) ==
  /\ place[p].deleted \/ place[p].status = "ARCHIVED"
  /\ Opened(c, "restore", p, Restored)

\* Neither the unit's own state nor its property is looked at.
RestoreUnit(c, u) ==
  /\ place[u] # NoPlace /\ ~Duplicate(u, place[u].parent, place[u].code)
  /\ Opened(c, "restore", u, Restored)

(***************************************************************************)
(* The write.                                                              *)
(***************************************************************************)

\* A row the unique index of its table covers.
Covered(r, x) == r.status # "NONE" /\ ~r.deleted /\ (x \in Properties \/ r.status = "ACTIVE")

SameTable(x, y) == \E kind \in {Properties, Buildings, Units, Beds} : {x, y} \subseteq kind

\* No other covered row of the table has the parent and the code of row r.
Indexed(r, x) ==
  Covered(r, x) => ~\E y \in Places \ {x} :
    SameTable(x, y) /\ Covered(place[y], y) /\ place[y].parent = r.parent /\ place[y].code = r.code

\* The row once the columns given are set.
Updated(row, columns) ==
  [f \in DOMAIN row |-> IF f \in DOMAIN columns THEN columns[f] ELSE row[f]]

\* By id: nothing that was read is compared again.
Commit(c) ==
  LET x == edit[c].target
      r == [Updated(place[x], edit[c].set) EXCEPT !.version = @ + 1]
  IN
  /\ edit[c] # NoCall
  /\ edit[c].op = "create" => place[x] = NoPlace
  /\ r.version <= MaxRowVersion[x]
  /\ Indexed(r, x)
  /\ place' = [place EXCEPT ![x] = r]
  /\ edit' = [edit EXCEPT ![c] = NoCall]

\* A violated index, a failure, or a crash.
Abandon(c) ==
  /\ edit[c] # NoCall
  /\ edit' = [edit EXCEPT ![c] = NoCall]
  /\ UNCHANGED place

\* At most one modelled column per patch.
Columns(status, code) ==
  {<<>>} \cup {[status |-> s] : s \in status} \cup {[code |-> k] : k \in code}

InventoryNext ==
  \E c \in Editors :
    \/ Commit(c) \/ Abandon(c)
    \/ \E p \in Properties :
         \/ ArchiveProperty(c, p) \/ RestoreProperty(c, p)
         \/ \E code \in Codes : CreateProperty(c, p, code)
         \/ \E columns \in Columns({"ACTIVE", "INACTIVE", "ARCHIVED"}, Codes) : Patch(c, p, columns)
         \/ \E b \in Buildings, code \in Codes : CreateBuilding(c, b, p, code)
         \/ \E u \in Units, code \in Codes, mode \in Modes, b \in Buildings \cup {NoBuilding} :
              CreateUnit(c, u, p, code, mode, b)
    \/ \E b \in Buildings :
         \/ ArchiveBuilding(c, b)
         \/ \E columns \in Columns({}, Codes) : Patch(c, b, columns)
    \/ \E u \in Units :
         \/ Archive(c, u) \/ RestoreUnit(c, u)
         \/ \E columns \in Columns({"ACTIVE", "ARCHIVED"}, Codes) \cup {[mode |-> m] : m \in Modes}
                             \cup {[building |-> b] : b \in Buildings} : PatchUnit(c, u, columns)
         \/ \E b \in Beds, code \in Codes : CreateBed(c, b, u, code)
    \/ \E b \in Beds :
         \/ Archive(c, b)
         \/ \E columns \in Columns({"ACTIVE", "ARCHIVED"}, Codes) : Patch(c, b, columns)

InventorySpec == InventoryInit /\ [][InventoryNext]_inventoryVars

(***************************************************************************)
(* Properties.                                                             *)
(***************************************************************************)

\* Rows fit their tables, and every parent is in the table of parents.
InventoryTypeOK ==
  /\ place \in [Places ->
       [status : {"NONE", "ACTIVE", "INACTIVE", "ARCHIVED"}, deleted : BOOLEAN,
        version : Nat, parent : Places \cup {Organization}, code : Codes \cup {"none"},
        building : Buildings \cup {NoBuilding}, mode : Modes]]
  /\ \A x \in Beds : place[x] # NoPlace => place[x].parent \in Units

\* docs/reviews/Sprint-05-Implementation.md:126: "beds only when `allocation_mode = BED`".
\* createBed asks for the mode and patchUnit for the beds, but each does so before its
\* transaction, and patchBed, which can make an archived bed active again, asks for nothing.
BedsInBedMode == \A b \in Beds : Live(b) => place[place[b].parent].mode = "BED"

\* docs/04-api-specification.md, section 8: a write whose If-Match version is
\* stale is rejected.
StaleIsRefused ==
  [][\A c \in Editors : Commit(c) /\ edit[c].op = "patch" =>
       place[edit[c].target].version = edit[c].version]_inventoryVars

=============================================================================
