------------------------------- MODULE Booking -------------------------------
(***************************************************************************)
(* The allocations of leases to units: a whole unit, a bed, or a share of  *)
(* a unit's capacity for a period (apps/api/src/modules/leasing), against  *)
(* the administration of units and beds (modules/inventory).               *)
(*                                                                         *)
(* An operation that allocates claims the lease by its version, reads the  *)
(* unit and the bed, then locks the unit's row FOR UPDATE, checks the      *)
(* allocations of other leases, inserts its own and commits.  What it read *)
(* before the lock may be stale.  The lease's row stays locked from the    *)
(* claim on, the unit's from the check on, until the transaction ends.     *)
(*                                                                         *)
(* ACTIVE stands for ACTIVE and NOTICE, ENDED for ENDED and CANCELLED.  A  *)
(* lease has at most one ACTIVE row in lease_allocations, since inserting  *)
(* one cancels the others.  A request may give its own period, so any      *)
(* period is possible; periods that end before they begin, which take no   *)
(* place, are left out.  A refused request changes nothing.                *)
(***************************************************************************)
EXTENDS Totals, FiniteSets

CONSTANTS
  NumLeases,
  Units,
  BedNumbers,   \* beds a unit may get
  Modes,        \* allocation modes in use
  MaxCapacity,  \* largest capacity of a unit
  NumDays,      \* length of the calendar; a period without end ends after it
  Requests,     \* API requests that hold a transaction open
  NoBed,        \* SQL NULL of lease_allocations.bed_id
  Nowhere       \* no ACTIVE row

Leases     == 1..NumLeases
Capacities == 1..MaxCapacity
Days       == 1..NumDays
AllModes   == {"WHOLE_UNIT", "BED", "CAPACITY"}

\* A row of lease_allocations; `to` is the first day after the period.
Allocation == [unit : Units, type : Modes, bed : BedNumbers \cup {NoBed},
               quantity : Capacities, from : Days, to : 2..(NumDays + 1)]

ASSUME BookingAssumption ==
  /\ NumLeases \in Nat /\ NumDays \in Nat /\ MaxCapacity \in Nat \ {0}
  /\ Modes \subseteq AllModes
ASSUME NoRowAssumption == NoBed \notin BedNumbers /\ Nowhere \notin Allocation

VARIABLES
  unit,    \* units: allocationMode, capacity, and whether deletedAt is NULL
  peak,    \* history: the largest capacity each unit has had
  beds,    \* beds that are not archived
  status,  \* leases: status
  alloc,   \* the ACTIVE row of lease_allocations of each lease
  request  \* what each open transaction has claimed, read and checked

vars == <<unit, peak, beds, status, alloc, request>>

Idle == [op |-> "idle"]
\* Open transactions: a lease claimed for place p of a unit with capacity c, the
\* same after the checks, a change of a unit's mode, and a new bed.
Claiming(l, p, c) == [op |-> "claim", lease |-> l, place |-> p, capacity |-> c]
Checked(r)        == [r EXCEPT !.op = "checked"]
Patching(u, m)    == [op |-> "patch", unit |-> u, mode |-> m]
Bedding(u, b)     == [op |-> "bed", unit |-> u, bed |-> b]

Init ==
  /\ unit \in [Units -> [mode : Modes, capacity : Capacities, live : {TRUE}]]
  /\ peak = [u \in Units |-> unit[u].capacity]
  /\ beds = {}
  /\ status = [l \in Leases |-> "NONE"]
  /\ alloc = [l \in Leases |-> Nowhere]
  /\ request = [q \in Requests |-> Idle]

(***************************************************************************)
(* The checks.                                                             *)
(***************************************************************************)

\* Faulty variants: the claim does not lock the lease, the unit is not locked.
LeaseUnlockedAlways(l) == l \in Leases
UnitUnlockedAlways(u)  == u \in Units

\* No open transaction holds the row of lease l, or of unit u.
LeaseUnlocked(l) ==
  \A q \in Requests : request[q].op \in {"claim", "checked"} => request[q].lease # l
UnitUnlocked(u) ==
  \A q \in Requests : request[q].op = "checked" => request[q].place.unit # u

RangesOverlap(p, r) == p.from < r.to /\ r.from < p.to

\* The other leases that have a row on unit u.
Others(l, u) == {m \in Leases \ {l} : alloc[m] # Nowhere /\ alloc[m].unit = u}

\* A faulty variant of MixedConflict: only a new whole-unit row is refused.
MixedConflictOneWay(l, p) ==
  \E m \in Others(l, p.unit) : RangesOverlap(p, alloc[m]) /\ p.type = "WHOLE_UNIT"

\* A whole unit would coexist with another row.
MixedConflict(l, p) ==
  \E m \in Others(l, p.unit) :
    RangesOverlap(p, alloc[m]) /\ "WHOLE_UNIT" \in {p.type, alloc[m].type}

\* What each other lease takes of the capacity some time in the period of p.
Shares(l, p) ==
  [m \in Leases |->
     IF m \in Others(l, p.unit) /\ alloc[m].type = "CAPACITY" /\ RangesOverlap(p, alloc[m])
     THEN alloc[m].quantity ELSE 0]

Used(l, p) == Total(Shares(l, p), NumLeases)

\* A faulty variant of CapacityAvailable: other leases are not counted.
CapacityAvailableAlone(l, p, capacity) ==
  p.type = "CAPACITY" => p.quantity <= capacity

CapacityAvailable(l, p, capacity) ==
  p.type = "CAPACITY" => Used(l, p) + p.quantity <= capacity

\* lease_allocations_whole_unit_excl and lease_allocations_bed_excl let the
\* row of lease l be p.
ExclusionAllows(l, p) ==
  \A m \in Others(l, p.unit) :
    RangesOverlap(p, alloc[m]) /\ p.type = alloc[m].type =>
      /\ p.type # "WHOLE_UNIT"
      /\ p.type = "BED" => p.bed # alloc[m].bed

\* The row of lease l may be p: the checks of patchLease and activateLease,
\* made with the unit's row locked.
Revalidated(l, p) ==
  /\ UnitUnlocked(p.unit)
  /\ ~MixedConflict(l, p)
  /\ p.type = "CAPACITY" => unit[p.unit].live
  /\ CapacityAvailable(l, p, unit[p.unit].capacity)
  /\ ExclusionAllows(l, p)

(***************************************************************************)
(* Leases: createLease, setAllocation, renew and transfer insert a row.    *)
(***************************************************************************)

\* What a request may ask of a unit: a capacity is asked for only in CAPACITY
\* mode, a bed, which must be live, only in BED mode.
Asked(p) ==
  /\ p.from < p.to
  /\ p.type = unit[p.unit].mode
  /\ p.type # "CAPACITY" => p.quantity = 1
  /\ IF p.type = "BED" THEN <<p.unit, p.bed>> \in beds ELSE p.bed = NoBed

\* A faulty variant: a transfer ends the old row before it looks for a place.
BeginReleasing(q, l, p) ==
  /\ request[q] = Idle /\ LeaseUnlocked(l)
  /\ unit[p.unit].live /\ Asked(p)
  /\ request' = [request EXCEPT ![q] = Claiming(l, p, unit[p.unit].capacity)]
  /\ alloc' = [alloc EXCEPT ![l] = Nowhere]
  /\ UNCHANGED <<unit, peak, beds, status>>

\* The transaction claims the lease (or creates it) and reads unit and bed.
Begin(q, l, p) ==
  /\ request[q] = Idle /\ LeaseUnlocked(l)
  /\ unit[p.unit].live /\ Asked(p)
  /\ request' = [request EXCEPT ![q] = Claiming(l, p, unit[p.unit].capacity)]
  /\ UNCHANGED <<unit, peak, beds, status, alloc>>

\* createLease makes a draft, with a row of lease_allocations or without one;
\* renew does so with the place of an ACTIVE lease for its own period.
CreateLease(l) ==
  /\ status[l] = "NONE" /\ LeaseUnlocked(l)
  /\ status' = [status EXCEPT ![l] = "DRAFT"]
  /\ UNCHANGED <<unit, peak, beds, alloc, request>>

CreateAllocated(q, l, p) == status[l] = "NONE" /\ Begin(q, l, p)

SetAllocation(q, l, p) == status[l] = "DRAFT" /\ Begin(q, l, p)

Transfer(q, l, p) == status[l] = "ACTIVE" /\ Begin(q, l, p)

\* The unit is locked and the rows of other leases are checked.
Check(q) ==
  LET r == request[q] IN
  /\ r.op = "claim"
  /\ UnitUnlocked(r.place.unit)
  /\ ~MixedConflict(r.lease, r.place)
  /\ CapacityAvailable(r.lease, r.place, r.capacity)
  /\ request' = [request EXCEPT ![q] = Checked(r)]
  /\ UNCHANGED <<unit, peak, beds, status, alloc>>

\* The row is inserted in place of the lease's earlier one; commit.
Insert(q) ==
  LET r == request[q] IN
  /\ r.op = "checked"
  /\ ExclusionAllows(r.lease, r.place)
  /\ alloc' = [alloc EXCEPT ![r.lease] = r.place]
  /\ status' = [status EXCEPT ![r.lease] = IF @ = "NONE" THEN "DRAFT" ELSE @]
  /\ request' = [request EXCEPT ![q] = Idle]
  /\ UNCHANGED <<unit, peak, beds>>

\* A failed check, a constraint, a deadlock or a crash.
RollBack(q) ==
  /\ request[q] # Idle
  /\ request' = [request EXCEPT ![q] = Idle]
  /\ UNCHANGED <<unit, peak, beds, status, alloc>>

\* The row p with another period.
Moved(p, from, to) == [p EXCEPT !.from = from, !.to = to]

\* A faulty variant of PatchLease: the dates are not compared.
PatchLeaseUndated(l, from, to) ==
  LET p == Moved(alloc[l], from, to) IN
  /\ status[l] = "DRAFT" /\ LeaseUnlocked(l)
  /\ alloc[l] # Nowhere
  /\ Revalidated(l, p)
  /\ alloc' = [alloc EXCEPT ![l] = p]
  /\ UNCHANGED <<unit, peak, beds, status, request>>

\* patchLease with new dates moves the period of the draft's row.
PatchLease(l, from, to) ==
  LET p == Moved(alloc[l], from, to) IN
  /\ status[l] = "DRAFT" /\ LeaseUnlocked(l)
  /\ alloc[l] # Nowhere
  /\ from < to
  /\ Revalidated(l, p)
  /\ alloc' = [alloc EXCEPT ![l] = p]
  /\ UNCHANGED <<unit, peak, beds, status, request>>

ActivateLease(l) ==
  /\ status[l] = "DRAFT" /\ LeaseUnlocked(l)
  /\ alloc[l] # Nowhere
  /\ Revalidated(l, alloc[l])
  /\ status' = [status EXCEPT ![l] = "ACTIVE"]
  /\ UNCHANGED <<unit, peak, beds, alloc, request>>

\* release: the request's inventoryRelease.
Terminate(l, release) ==
  /\ status[l] \in {"DRAFT", "ACTIVE"} /\ LeaseUnlocked(l)
  /\ status' = [status EXCEPT ![l] = "ENDED"]
  /\ alloc' = [alloc EXCEPT ![l] = IF release THEN Nowhere ELSE @]
  /\ UNCHANGED <<unit, peak, beds, request>>

(***************************************************************************)
(* Units and beds.  Their services read a row without a lock and write it  *)
(* by its id; writes wait for the lock of Check.                           *)
(***************************************************************************)

\* patchUnit with a new mode: the unit may leave BED mode without live beds.
PatchModeRead(q, u, m) ==
  /\ request[q] = Idle /\ unit[u].live
  /\ unit[u].mode = "BED" /\ m # "BED" => \A b \in BedNumbers : <<u, b>> \notin beds
  /\ request' = [request EXCEPT ![q] = Patching(u, m)]
  /\ UNCHANGED <<unit, peak, beds, status, alloc>>

PatchModeWrite(q) ==
  LET r == request[q] IN
  /\ r.op = "patch" /\ UnitUnlocked(r.unit)
  /\ unit' = [unit EXCEPT ![r.unit].mode = r.mode]
  /\ request' = [request EXCEPT ![q] = Idle]
  /\ UNCHANGED <<peak, beds, status, alloc>>

\* patchUnit with a new capacity.
PatchCapacity(u, c) ==
  /\ unit[u].live /\ UnitUnlocked(u)
  /\ unit' = [unit EXCEPT ![u].capacity = c]
  /\ peak' = [peak EXCEPT ![u] = IF c > @ THEN c ELSE @]
  /\ UNCHANGED <<beds, status, alloc, request>>

ArchiveUnit(u) ==
  /\ unit[u].live /\ UnitUnlocked(u)
  /\ unit' = [unit EXCEPT ![u].live = FALSE]
  /\ UNCHANGED <<peak, beds, status, alloc, request>>

RestoreUnit(u) ==
  /\ UnitUnlocked(u)
  /\ unit' = [unit EXCEPT ![u].live = TRUE]
  /\ UNCHANGED <<peak, beds, status, alloc, request>>

CreateBedRead(q, u, b) ==
  /\ request[q] = Idle
  /\ unit[u].live /\ unit[u].mode = "BED" /\ <<u, b>> \notin beds
  /\ request' = [request EXCEPT ![q] = Bedding(u, b)]
  /\ UNCHANGED <<unit, peak, beds, status, alloc>>

CreateBedWrite(q) ==
  LET r == request[q] IN
  /\ r.op = "bed" /\ UnitUnlocked(r.unit)
  /\ beds' = beds \cup {<<r.unit, r.bed>>}
  /\ request' = [request EXCEPT ![q] = Idle]
  /\ UNCHANGED <<unit, peak, status, alloc>>

ArchiveBed(u, b) ==
  /\ <<u, b>> \in beds /\ unit[u].live
  /\ beds' = beds \ {<<u, b>>}
  /\ UNCHANGED <<unit, peak, status, alloc, request>>

Next ==
  \/ \E q \in Requests, l \in Leases, p \in Allocation :
       CreateAllocated(q, l, p) \/ SetAllocation(q, l, p) \/ Transfer(q, l, p)
  \/ \E q \in Requests :
       Check(q) \/ Insert(q) \/ RollBack(q) \/ PatchModeWrite(q) \/ CreateBedWrite(q)
  \/ \E l \in Leases :
       \/ CreateLease(l) \/ ActivateLease(l)
       \/ \E from \in Days, to \in 2..(NumDays + 1) : PatchLease(l, from, to)
       \/ \E release \in BOOLEAN : Terminate(l, release)
  \/ \E u \in Units :
       \/ ArchiveUnit(u) \/ RestoreUnit(u)
       \/ \E c \in Capacities : PatchCapacity(u, c)
       \/ \E q \in Requests, m \in Modes : PatchModeRead(q, u, m)
       \/ \E b \in BedNumbers : ArchiveBed(u, b) \/ \E q \in Requests : CreateBedRead(q, u, b)

Spec == Init /\ [][Next]_vars

(***************************************************************************)
(* Properties.                                                             *)
(***************************************************************************)

Request ==
  {Idle}
  \cup [op : {"claim", "checked"}, lease : Leases, place : Allocation, capacity : Capacities]
  \cup [op : {"patch"}, unit : Units, mode : Modes]
  \cup [op : {"bed"}, unit : Units, bed : BedNumbers]

\* Every row fits its table, is of a lease that exists, and has a proper period.
TypeOK ==
  /\ unit \in [Units -> [mode : Modes, capacity : Capacities, live : BOOLEAN]]
  /\ peak \in [Units -> Capacities]
  /\ beds \subseteq Units \X BedNumbers
  /\ status \in [Leases -> {"NONE", "DRAFT", "ACTIVE", "ENDED"}]
  /\ alloc \in [Leases -> Allocation \cup {Nowhere}]
  /\ \A l \in Leases : alloc[l] # Nowhere => status[l] # "NONE" /\ alloc[l].from < alloc[l].to
  /\ request \in [Requests -> Request]

\* Two leases never hold the same place on the same day: a whole unit excludes
\* every other row on it, a bed every other row on the bed.  The whole-unit
\* rule across types is the code's check under the unit's lock (no constraint
\* stands behind it), the bed rule only a constraint, and modes, beds, dates
\* and places change between and during requests.
NoDoubleBooking ==
  \A l, m \in Leases :
    l # m /\ alloc[l] # Nowhere /\ alloc[m] # Nowhere =>
      (alloc[l].unit = alloc[m].unit /\ RangesOverlap(alloc[l], alloc[m]) =>
         /\ alloc[l].type # "WHOLE_UNIT"
         /\ alloc[l].type = "BED" /\ alloc[m].type = "BED" => alloc[l].bed # alloc[m].bed)

\* What each lease takes of the capacity of unit u on day d, and the sum.
DayShares(u, d) ==
  [l \in Leases |->
     IF alloc[l] # Nowhere /\ alloc[l].unit = u /\ alloc[l].type = "CAPACITY"
        /\ alloc[l].from <= d /\ d < alloc[l].to
     THEN alloc[l].quantity ELSE 0]

Booked(u, d) == Total(DayShares(u, d), NumLeases)

\* On no day is more of a unit's capacity taken than it has ever had: racing
\* requests do not both take the last share, whatever is booked, moved,
\* released or reconfigured in between.
WithinPeak == \A u \in Units, d \in Days : Booked(u, d) <= peak[u]

\* A lease that is ACTIVE (or under NOTICE) has a place, also while a transfer
\* is under way and after one has failed.
RentedHasPlace == \A l \in Leases : status[l] = "ACTIVE" => alloc[l] # Nowhere

\* A lease that has ended stays so, and a request that was under way when it
\* ended neither gives it a place nor moves the one it keeps.
EndedStaysPut ==
  [][\A l \in Leases :
       status[l] = "ENDED" => status'[l] = "ENDED" /\ alloc'[l] = alloc[l]]_vars

\* docs/03-database-design.md: a commit rechecks the effective capacity: a step
\* that takes more of a unit on some day leaves it within the capacity it has.
CapacityRechecked ==
  [][\A u \in Units, d \in Days :
       Booked(u, d)' > Booked(u, d) => Booked(u, d)' <= unit[u].capacity]_vars

=============================================================================
