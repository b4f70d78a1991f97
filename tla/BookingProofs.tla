---------------------------- MODULE BookingProofs ----------------------------
(***************************************************************************)
(* Proofs about Booking: for any number of leases, units, beds, days and   *)
(* racing requests, no place is given twice and no capacity is exceeded.   *)
(***************************************************************************)
EXTENDS Booking, TotalsProofs

(***************************************************************************)
(* The inductive invariant.  That rows do not collide is not inductive:    *)
(* a request inserts on the strength of a check made earlier.  What it     *)
(* checked stays true because it holds the unit, so the invariant says who *)
(* holds what and that every checked place is still free.                  *)
(***************************************************************************)

\* The requests that hold a lease, and those that hold a unit as well.
Holders  == {q \in Requests : request[q].op \in {"claim", "checked"}}
Checkers == {q \in Requests : request[q].op = "checked"}

\* No lease is claimed twice and no unit is locked twice.
LocksExclusive ==
  \A q, r \in Holders :
    q # r =>
      /\ request[q].lease # request[r].lease
      /\ q \in Checkers /\ r \in Checkers => request[q].place.unit # request[r].place.unit

\* A claimed lease has not ended, its place has a proper period, and the
\* capacity read is one the unit has had.
ClaimsSound ==
  \A q \in Holders :
    /\ status[request[q].lease] # "ENDED"
    /\ request[q].place.from < request[q].place.to
    /\ request[q].capacity <= peak[request[q].place.unit]

\* What a request has checked still holds.
StillFree(q) ==
  /\ ~MixedConflict(request[q].lease, request[q].place)
  /\ CapacityAvailable(request[q].lease, request[q].place, request[q].capacity)

CheckedFree == \A q \in Checkers : StillFree(q)

PeakCovers == \A u \in Units : unit[u].capacity <= peak[u]

IInv ==
  /\ TypeOK /\ LocksExclusive /\ ClaimsSound /\ CheckedFree /\ PeakCovers
  /\ NoDoubleBooking /\ WithinPeak /\ RentedHasPlace

-----------------------------------------------------------------------------

\* A holder's record has a lease, a place and a capacity.
LEMMA HolderType ==
  ASSUME TypeOK, NEW q \in Holders
  PROVE  request[q] \in [op : {"claim", "checked"}, lease : Leases, place : Allocation,
                         capacity : Capacities]
<1>1. q \in Requests /\ request[q] \in Request /\ request[q].op \in {"claim", "checked"}
  BY DEF TypeOK, Holders
<1>. QED BY <1>1 DEF Request, Idle

LEMMA PatchType ==
  ASSUME TypeOK, NEW q \in Requests, request[q].op = "patch"
  PROVE  request[q] \in [op : {"patch"}, unit : Units, mode : Modes]
<1>1. request[q] \in Request
  BY DEF TypeOK
<1>. QED BY <1>1 DEF Request, Idle

LEMMA BedType ==
  ASSUME TypeOK, NEW q \in Requests, request[q].op = "bed"
  PROVE  request[q] \in [op : {"bed"}, unit : Units, bed : BedNumbers]
<1>1. request[q] \in Request
  BY DEF TypeOK
<1>. QED BY <1>1 DEF Request, Idle

\* A row of lease_allocations is not Nowhere and its fields are typed.
LEMMA RowType ==
  ASSUME NEW p \in Allocation
  PROVE  /\ p # Nowhere /\ p.unit \in Units /\ p.type \in Modes
         /\ p.quantity \in Capacities /\ p.quantity \in Nat
         /\ p.from \in Days /\ p.to \in 2..(NumDays + 1) /\ p.from \in Int /\ p.to \in Int
BY NoRowAssumption, BookingAssumption DEF Allocation, Capacities, Days

LEMMA RowMoved ==
  ASSUME NEW p \in Allocation, NEW from \in Days, NEW to \in 2..(NumDays + 1)
  PROVE  /\ Moved(p, from, to) \in Allocation
         /\ Moved(p, from, to).unit = p.unit
         /\ Moved(p, from, to).from = from
         /\ Moved(p, from, to).to = to
<1>. DEFINE x == [p EXCEPT !.from = from]
<1>1. x \in Allocation /\ x.unit = p.unit /\ x.from = from
  BY DEF Allocation
<1>. HIDE DEF x
<1>2. [x EXCEPT !.to = to] \in Allocation /\ [x EXCEPT !.to = to].unit = p.unit
      /\ [x EXCEPT !.to = to].from = from /\ [x EXCEPT !.to = to].to = to
  BY <1>1 DEF Allocation
<1>3. Moved(p, from, to) = [x EXCEPT !.to = to]
  BY DEF x, Moved
<1>. QED BY <1>2, <1>3

LEMMA InitHolds == Init => IInv
<1>. SUFFICES ASSUME Init PROVE IInv
  OBVIOUS
<1>1. Holders = {} /\ Checkers = {}
  BY DEF Init, Idle, Holders, Checkers
<1>2. \A u \in Units : unit[u] \in [mode : Modes, capacity : Capacities, live : BOOLEAN]
  BY DEF Init
<1>3. peak \in [Units -> Capacities]
  BY <1>2 DEF Init
<1>4. TypeOK
  <2>1. unit \in [Units -> [mode : Modes, capacity : Capacities, live : BOOLEAN]]
    BY DEF Init
  <2>. QED BY <2>1, <1>3 DEF TypeOK, Init, Request
<1>5. LocksExclusive /\ ClaimsSound /\ CheckedFree
  BY <1>1 DEF LocksExclusive, ClaimsSound, CheckedFree
<1>6. PeakCovers
  BY <1>2, BookingAssumption DEF Init, PeakCovers, Capacities
<1>7. NoDoubleBooking /\ RentedHasPlace
  BY DEF Init, NoDoubleBooking, RentedHasPlace
<1>8. WithinPeak
  <2>. SUFFICES ASSUME NEW u \in Units, NEW d \in Days PROVE Booked(u, d) <= peak[u]
    BY DEF WithinPeak
  <2>1. DayShares(u, d) = [l \in 1..NumLeases |-> 0]
    BY DEF DayShares, Init, Leases
  <2>2. Booked(u, d) = 0
    BY <2>1, TotalZero, BookingAssumption DEF Booked
  <2>. QED BY <2>2, <1>3, BookingAssumption DEF Capacities
<1>. QED BY <1>4, <1>5, <1>6, <1>7, <1>8 DEF IInv

-----------------------------------------------------------------------------
(***************************************************************************)
(* Types.                                                                  *)
(***************************************************************************)

LEMMA ClaimTyped ==
  ASSUME NEW op \in {"claim", "checked"}, NEW l \in Leases, NEW p \in Allocation, NEW c \in Capacities
  PROVE  [op |-> op, lease |-> l, place |-> p, capacity |-> c] \in Request
BY DEF Request

\* Changing one request to another keeps the table typed.
LEMMA RequestTyped ==
  ASSUME TypeOK, NEW q \in Requests, NEW r \in Request, request' = [request EXCEPT ![q] = r]
  PROVE  request' \in [Requests -> Request]
BY DEF TypeOK

LEMMA IdleTyped == Idle \in Request
BY DEF Request

\* Changing one row, of a lease that exists, to a proper one.
LEMMA AllocTyped ==
  ASSUME TypeOK, NEW l \in Leases, NEW x \in Allocation \cup {Nowhere},
         alloc' = [alloc EXCEPT ![l] = x],
         status' \in [Leases -> {"NONE", "DRAFT", "ACTIVE", "ENDED"}],
         \A m \in Leases : status'[m] = "NONE" => status[m] = "NONE",
         x # Nowhere => status'[l] # "NONE" /\ x.from < x.to
  PROVE  /\ alloc' \in [Leases -> Allocation \cup {Nowhere}]
         /\ \A m \in Leases : alloc'[m] # Nowhere => status'[m] # "NONE" /\ alloc'[m].from < alloc'[m].to
BY DEF TypeOK

LEMMA TypeHolds == IInv /\ [Next]_vars => TypeOK'
<1>. SUFFICES ASSUME IInv, [Next]_vars PROVE TypeOK'
  OBVIOUS
<1>0. TypeOK
  BY DEF IInv
<1>1. ASSUME NEW q \in Requests, NEW l \in Leases, NEW p \in Allocation, Begin(q, l, p) PROVE TypeOK'
  <2>1. p.unit \in Units /\ unit[p.unit].capacity \in Capacities
    BY <1>0, RowType DEF TypeOK
  <2>2. Claiming(l, p, unit[p.unit].capacity) \in Request
    BY <2>1, ClaimTyped DEF Claiming
  <2>. QED BY <1>0, <1>1, <2>2, RequestTyped DEF Begin, TypeOK
<1>2. ASSUME NEW q \in Requests, Check(q) PROVE TypeOK'
  <2>1. q \in Holders
    BY <1>2 DEF Check, Holders
  <2>2. Checked(request[q]) \in Request
    BY <1>0, <2>1, HolderType DEF Checked, Request
  <2>. QED BY <1>0, <1>2, <2>2, RequestTyped DEF Check, TypeOK
<1>3. ASSUME NEW q \in Requests, Insert(q) PROVE TypeOK'
  <2>. DEFINE l == request[q].lease
              p == request[q].place
  <2>1. q \in Holders
    BY <1>3 DEF Insert, Holders
  <2>2. l \in Leases /\ p \in Allocation
    BY <1>0, <2>1, HolderType
  <2>3. p.from < p.to
    BY <2>1 DEF IInv, ClaimsSound
  <2>4. /\ alloc' = [alloc EXCEPT ![l] = p]
        /\ status' = [status EXCEPT ![l] = IF @ = "NONE" THEN "DRAFT" ELSE @]
        /\ request' = [request EXCEPT ![q] = Idle]
        /\ UNCHANGED <<unit, peak, beds>>
    BY <1>3 DEF Insert
  <2>. HIDE DEF l, p
  <2>5. /\ status' \in [Leases -> {"NONE", "DRAFT", "ACTIVE", "ENDED"}]
        /\ \A m \in Leases : status'[m] = "NONE" => status[m] = "NONE"
        /\ status'[l] # "NONE"
    BY <1>0, <2>2, <2>4 DEF TypeOK
  <2>6. request' \in [Requests -> Request]
    BY <1>0, <2>4, RequestTyped, IdleTyped
  <2>. QED BY <1>0, <2>2, <2>3, <2>4, <2>5, <2>6, AllocTyped DEF TypeOK
<1>4. ASSUME NEW q \in Requests, RollBack(q) PROVE TypeOK'
  BY <1>0, <1>4, RequestTyped, IdleTyped DEF RollBack, TypeOK
<1>5. ASSUME NEW l \in Leases, CreateLease(l) PROVE TypeOK'
  BY <1>0, <1>5 DEF CreateLease, TypeOK
<1>6. ASSUME NEW l \in Leases, ActivateLease(l) PROVE TypeOK'
  BY <1>0, <1>6 DEF ActivateLease, TypeOK
<1>7. ASSUME NEW l \in Leases, NEW from \in Days, NEW to \in 2..(NumDays + 1), PatchLease(l, from, to)
      PROVE TypeOK'
  <2>. DEFINE p == Moved(alloc[l], from, to)
  <2>1. alloc[l] \in Allocation
    BY <1>0, <1>7 DEF PatchLease, TypeOK
  <2>2. p \in Allocation /\ p.from < p.to
    BY <2>1, <1>7, RowMoved DEF PatchLease
  <2>3. alloc' = [alloc EXCEPT ![l] = p] /\ status[l] = "DRAFT"
        /\ UNCHANGED <<unit, peak, beds, status, request>>
    BY <1>7 DEF PatchLease
  <2>. HIDE DEF p
  <2>4. status' \in [Leases -> {"NONE", "DRAFT", "ACTIVE", "ENDED"}]
    BY <1>0, <2>3 DEF TypeOK
  <2>. QED BY <1>0, <2>2, <2>3, <2>4, AllocTyped DEF TypeOK
<1>8. ASSUME NEW l \in Leases, NEW release \in BOOLEAN, Terminate(l, release) PROVE TypeOK'
  <2>. DEFINE x == IF release THEN Nowhere ELSE alloc[l]
  <2>1. x \in Allocation \cup {Nowhere} /\ (x # Nowhere => x.from < x.to)
    BY <1>0 DEF TypeOK
  <2>2. alloc' = [alloc EXCEPT ![l] = x] /\ status' = [status EXCEPT ![l] = "ENDED"]
        /\ UNCHANGED <<unit, peak, beds, request>>
    BY <1>8 DEF Terminate
  <2>. HIDE DEF x
  <2>3. /\ status' \in [Leases -> {"NONE", "DRAFT", "ACTIVE", "ENDED"}]
        /\ \A m \in Leases : status'[m] = "NONE" => status[m] = "NONE"
        /\ status'[l] # "NONE"
    BY <1>0, <2>2 DEF TypeOK
  <2>. QED BY <1>0, <2>1, <2>2, <2>3, AllocTyped DEF TypeOK
<1>9. ASSUME NEW q \in Requests, PatchModeWrite(q) PROVE TypeOK'
  <2>1. request[q].unit \in Units /\ request[q].mode \in Modes
    BY <1>0, <1>9, PatchType DEF PatchModeWrite
  <2>2. unit' = [unit EXCEPT ![request[q].unit] = [unit[request[q].unit] EXCEPT !.mode = request[q].mode]]
    BY <1>9 DEF PatchModeWrite
  <2>3. unit' \in [Units -> [mode : Modes, capacity : Capacities, live : BOOLEAN]]
    BY <1>0, <2>1, <2>2 DEF TypeOK
  <2>4. request' \in [Requests -> Request]
    BY <1>0, <1>9, RequestTyped, IdleTyped DEF PatchModeWrite
  <2>. QED BY <1>0, <1>9, <2>3, <2>4 DEF PatchModeWrite, TypeOK
<1>10. ASSUME NEW q \in Requests, CreateBedWrite(q) PROVE TypeOK'
  <2>1. <<request[q].unit, request[q].bed>> \in Units \X BedNumbers
    BY <1>0, <1>10, BedType DEF CreateBedWrite
  <2>2. request' \in [Requests -> Request]
    BY <1>0, <1>10, RequestTyped, IdleTyped DEF CreateBedWrite
  <2>. QED BY <1>0, <1>10, <2>1, <2>2 DEF CreateBedWrite, TypeOK
<1>11. ASSUME NEW u \in Units, ArchiveUnit(u) \/ RestoreUnit(u) PROVE TypeOK'
  <2>1. PICK b \in BOOLEAN : unit' = [unit EXCEPT ![u] = [unit[u] EXCEPT !.live = b]]
    BY <1>11 DEF ArchiveUnit, RestoreUnit
  <2>2. unit' \in [Units -> [mode : Modes, capacity : Capacities, live : BOOLEAN]]
    BY <1>0, <2>1 DEF TypeOK
  <2>. QED BY <1>0, <1>11, <2>2 DEF ArchiveUnit, RestoreUnit, TypeOK
<1>12. ASSUME NEW u \in Units, NEW c \in Capacities, PatchCapacity(u, c) PROVE TypeOK'
  <2>1. unit' = [unit EXCEPT ![u] = [unit[u] EXCEPT !.capacity = c]]
    BY <1>12 DEF PatchCapacity
  <2>2. unit' \in [Units -> [mode : Modes, capacity : Capacities, live : BOOLEAN]]
    BY <1>0, <2>1 DEF TypeOK
  <2>3. peak' \in [Units -> Capacities]
    BY <1>0, <1>12 DEF PatchCapacity, TypeOK
  <2>. QED BY <1>0, <1>12, <2>2, <2>3 DEF PatchCapacity, TypeOK
<1>13. ASSUME NEW q \in Requests, NEW u \in Units, NEW m \in Modes, PatchModeRead(q, u, m) PROVE TypeOK'
  <2>1. Patching(u, m) \in Request
    BY DEF Patching, Request
  <2>. QED BY <1>0, <1>13, <2>1, RequestTyped DEF PatchModeRead, TypeOK
<1>14. ASSUME NEW q \in Requests, NEW u \in Units, NEW b \in BedNumbers, CreateBedRead(q, u, b) PROVE TypeOK'
  <2>1. Bedding(u, b) \in Request
    BY DEF Bedding, Request
  <2>. QED BY <1>0, <1>14, <2>1, RequestTyped DEF CreateBedRead, TypeOK
<1>15. ASSUME NEW u \in Units, NEW b \in BedNumbers, ArchiveBed(u, b) PROVE TypeOK'
  BY <1>0, <1>15 DEF ArchiveBed, TypeOK
<1>16. CASE UNCHANGED vars
  BY <1>0, <1>16 DEF vars, TypeOK
<1>. QED
  BY <1>1, <1>2, <1>3, <1>4, <1>5, <1>6, <1>7, <1>8, <1>9, <1>10, <1>11, <1>12, <1>13, <1>14, <1>15, <1>16
     DEF Next, CreateAllocated, SetAllocation, Transfer

-----------------------------------------------------------------------------
(***************************************************************************)
(* What a step may do: three shapes for what requests hold, three for the  *)
(* rows.                                                                   *)
(***************************************************************************)

\* No request gains a hold.
FewerHolds ==
  /\ Holders' \subseteq Holders /\ Checkers' \subseteq Checkers
  /\ \A q \in Holders' : request'[q] = request[q]

LEMMA LetGo ==
  ASSUME TypeOK, NEW q \in Requests, NEW r,
         request' = [request EXCEPT ![q] = r], r.op \notin {"claim", "checked"}
  PROVE  FewerHolds /\ q \notin Holders'
BY DEF TypeOK, FewerHolds, Holders, Checkers

LEMMA HoldStep ==
  IInv /\ [Next]_vars =>
    \/ FewerHolds
    \/ \E q \in Requests, l \in Leases, p \in Allocation :
         status[l] \in {"NONE", "DRAFT", "ACTIVE"} /\ Begin(q, l, p)
    \/ \E q \in Requests : Check(q)
<1>. SUFFICES ASSUME IInv, [Next]_vars, ~(\E q \in Requests : Check(q)),
              ~(\E q \in Requests, l \in Leases, p \in Allocation :
                  status[l] \in {"NONE", "DRAFT", "ACTIVE"} /\ Begin(q, l, p))
     PROVE  FewerHolds
  OBVIOUS
<1>0. TypeOK
  BY DEF IInv
<1>1. Idle.op = "idle"
  BY DEF Idle
<1>2. CASE UNCHANGED request
  BY <1>2 DEF FewerHolds, Holders, Checkers
<1>3. CASE \E q \in Requests : request' = [request EXCEPT ![q] = Idle]
  BY <1>0, <1>1, <1>3, LetGo
<1>4. ASSUME NEW q \in Requests, NEW u, NEW m, request' = [request EXCEPT ![q] = Patching(u, m)]
      PROVE FewerHolds
  <2>1. Patching(u, m).op = "patch"
    BY DEF Patching
  <2>. QED BY <1>0, <1>4, <2>1, LetGo
<1>5. ASSUME NEW q \in Requests, NEW u, NEW b, request' = [request EXCEPT ![q] = Bedding(u, b)]
      PROVE FewerHolds
  <2>1. Bedding(u, b).op = "bed"
    BY DEF Bedding
  <2>. QED BY <1>0, <1>5, <2>1, LetGo
<1>. HIDE DEF FewerHolds
<1>6. CASE \E q \in Requests : Insert(q) \/ RollBack(q) \/ PatchModeWrite(q) \/ CreateBedWrite(q)
  BY <1>3, <1>6 DEF Insert, RollBack, PatchModeWrite, CreateBedWrite
<1>7. CASE \E l \in Leases :
             \/ CreateLease(l) \/ ActivateLease(l)
             \/ \E from \in Days, to \in 2..(NumDays + 1) : PatchLease(l, from, to)
             \/ \E release \in BOOLEAN : Terminate(l, release)
  BY <1>2, <1>7 DEF CreateLease, ActivateLease, PatchLease, Terminate
<1>8. ASSUME NEW u \in Units,
             \/ ArchiveUnit(u) \/ RestoreUnit(u)
             \/ \E c \in Capacities : PatchCapacity(u, c)
             \/ \E b \in BedNumbers : ArchiveBed(u, b)
      PROVE  FewerHolds
  BY <1>2, <1>8 DEF ArchiveUnit, RestoreUnit, PatchCapacity, ArchiveBed
<1>9. ASSUME NEW u \in Units, NEW q \in Requests,
             \/ \E m \in Modes : PatchModeRead(q, u, m)
             \/ \E b \in BedNumbers : CreateBedRead(q, u, b)
      PROVE  FewerHolds
  BY <1>4, <1>5, <1>9 DEF PatchModeRead, CreateBedRead
<1>10. CASE UNCHANGED vars
  BY <1>2, <1>10 DEF vars
<1>. QED
  BY <1>6, <1>7, <1>8, <1>9, <1>10 DEF Next, CreateAllocated, SetAllocation, Transfer

\* The row of lease k becomes p: it fits beside the others, and no request
\* that goes on holds the unit.
Placed(k, p) ==
  /\ alloc' = [alloc EXCEPT ![k] = p]
  /\ ~MixedConflict(k, p) /\ ExclusionAllows(k, p)
  /\ CapacityAvailable(k, p, peak[p.unit])
  /\ \A q \in Checkers' : q \in Checkers /\ request[q].place.unit # p.unit
  /\ UNCHANGED peak

LEMMA AvailableUpTo ==
  ASSUME TypeOK, NEW l \in Leases, NEW p \in Allocation, NEW c \in Capacities, NEW d \in Capacities,
         c <= d, CapacityAvailable(l, p, c)
  PROVE  CapacityAvailable(l, p, d)
<1>1. Shares(l, p) \in [1..NumLeases -> Int]
  BY RowType DEF Shares, Leases, TypeOK, Others
<1>2. Used(l, p) \in Int
  BY <1>1, TotalType, BookingAssumption DEF Used
<1>. QED BY <1>2, RowType, BookingAssumption DEF CapacityAvailable, Capacities

LEMMA InsertPlaces ==
  ASSUME IInv, NEW q \in Requests, Insert(q)
  PROVE  \E k \in Leases, p \in Allocation : Placed(k, p)
<1>. DEFINE l == request[q].lease
            p == request[q].place
            c == request[q].capacity
<1>0. TypeOK
  BY DEF IInv
<1>1. q \in Holders /\ q \in Checkers
  BY DEF Insert, Holders, Checkers
<1>2. l \in Leases /\ p \in Allocation /\ c \in Capacities /\ p.unit \in Units
  BY <1>0, <1>1, HolderType, RowType
<1>3. ~MixedConflict(l, p) /\ CapacityAvailable(l, p, c)
  BY <1>1 DEF IInv, CheckedFree, StillFree
<1>4. c <= peak[p.unit] /\ peak[p.unit] \in Capacities
  BY <1>0, <1>1, <1>2 DEF IInv, ClaimsSound, TypeOK
<1>5. alloc' = [alloc EXCEPT ![l] = p] /\ ExclusionAllows(l, p) /\ UNCHANGED peak
      /\ request' = [request EXCEPT ![q] = Idle]
  BY DEF Insert
<1>6. \A r \in Checkers' : r \in Checkers /\ r # q
  BY <1>0, <1>5 DEF Checkers, TypeOK, Idle
<1>7. \A r \in Checkers' : request[r].place.unit # p.unit
  BY <1>1, <1>6 DEF IInv, LocksExclusive, Holders, Checkers
<1>. HIDE DEF l, p, c
<1>8. CapacityAvailable(l, p, peak[p.unit])
  BY <1>0, <1>2, <1>3, <1>4, AvailableUpTo
<1>9. Placed(l, p)
  BY <1>3, <1>5, <1>6, <1>7, <1>8 DEF Placed
<1>. QED BY <1>2, <1>9

LEMMA PatchPlaces ==
  ASSUME IInv, NEW l \in Leases, NEW from \in Days, NEW to \in 2..(NumDays + 1),
         PatchLease(l, from, to)
  PROVE  \E p \in Allocation : Placed(l, p)
<1>. DEFINE p == Moved(alloc[l], from, to)
<1>0. TypeOK /\ PeakCovers
  BY DEF IInv
<1>1. alloc[l] \in Allocation
  BY <1>0 DEF PatchLease, TypeOK
<1>2. p \in Allocation /\ p.unit \in Units
  BY <1>1, RowMoved, RowType
<1>3. Revalidated(l, p) /\ alloc' = [alloc EXCEPT ![l] = p] /\ UNCHANGED <<peak, request>>
  BY DEF PatchLease
<1>. HIDE DEF p
<1>4. unit[p.unit].capacity <= peak[p.unit] /\ unit[p.unit].capacity \in Capacities
      /\ peak[p.unit] \in Capacities
  BY <1>0, <1>2 DEF PeakCovers, TypeOK
<1>5. CapacityAvailable(l, p, peak[p.unit])
  BY <1>0, <1>2, <1>3, <1>4, AvailableUpTo DEF Revalidated
<1>6. \A q \in Checkers' : q \in Checkers /\ request[q].place.unit # p.unit
  BY <1>3 DEF Revalidated, UnitUnlocked, Checkers
<1>7. Placed(l, p)
  BY <1>3, <1>5, <1>6 DEF Placed, Revalidated
<1>. QED BY <1>2, <1>7

LEMMA RowStep ==
  IInv /\ [Next]_vars =>
    \/ UNCHANGED alloc
    \/ \E k \in Leases : alloc' = [alloc EXCEPT ![k] = Nowhere] /\ UNCHANGED peak
    \/ \E k \in Leases, p \in Allocation : Placed(k, p)
<1>. SUFFICES ASSUME IInv, [Next]_vars, ~ UNCHANGED alloc
     PROVE  \/ \E k \in Leases : alloc' = [alloc EXCEPT ![k] = Nowhere] /\ UNCHANGED peak
            \/ \E k \in Leases, p \in Allocation : Placed(k, p)
  OBVIOUS
<1>1. \/ \E q \in Requests : Insert(q)
      \/ \E l \in Leases, from \in Days, to \in 2..(NumDays + 1) : PatchLease(l, from, to)
      \/ \E l \in Leases, release \in BOOLEAN : Terminate(l, release)
  BY DEF Next, vars, CreateAllocated, SetAllocation, Transfer, Begin, Check, RollBack,
         PatchModeWrite, CreateBedWrite, CreateLease, ActivateLease, ArchiveUnit, RestoreUnit,
         PatchCapacity, PatchModeRead, ArchiveBed, CreateBedRead
<1>2. ASSUME NEW l \in Leases, NEW release \in BOOLEAN, Terminate(l, release)
      PROVE  alloc' = [alloc EXCEPT ![l] = Nowhere] /\ UNCHANGED peak
  <2>1. CASE release
    BY <1>2, <2>1 DEF Terminate
  <2>2. CASE ~release
    <3>1. alloc' = [alloc EXCEPT ![l] = alloc[l]]
      BY <1>2, <2>2 DEF Terminate
    <3>2. alloc \in [Leases -> Allocation \cup {Nowhere}]
      BY DEF IInv, TypeOK
    <3>. QED BY <3>1, <3>2
  <2>. QED BY <2>1, <2>2
<1>. QED BY <1>1, <1>2, InsertPlaces, PatchPlaces

-----------------------------------------------------------------------------
(***************************************************************************)
(* Holds and checks.                                                       *)
(***************************************************************************)

LEMMA BeginHolds ==
  ASSUME TypeOK, NEW q \in Requests, NEW l \in Leases, NEW p \in Allocation, Begin(q, l, p)
  PROVE  /\ q \notin Holders /\ Holders' = Holders \cup {q} /\ Checkers' = Checkers
         /\ \A r \in Holders : request'[r] = request[r]
         /\ request'[q].lease = l /\ request'[q].place = p
         /\ request'[q].capacity = unit[p.unit].capacity
         /\ \A r \in Holders : request[r].lease # l
         /\ p.from < p.to
         /\ UNCHANGED <<unit, peak, beds, status, alloc>>
<1>. DEFINE c == Claiming(l, p, unit[p.unit].capacity)
<1>1. c.op = "claim" /\ c.lease = l /\ c.place = p /\ c.capacity = unit[p.unit].capacity
  BY DEF Claiming
<1>2. request' = [request EXCEPT ![q] = c] /\ request[q].op = "idle" /\ LeaseUnlocked(l)
      /\ p.from < p.to /\ UNCHANGED <<unit, peak, beds, status, alloc>>
  BY DEF Begin, Idle, Asked
<1>. HIDE DEF c
<1>. QED BY <1>1, <1>2 DEF TypeOK, Holders, Checkers, LeaseUnlocked

LEMMA CheckHolds ==
  ASSUME TypeOK, NEW q \in Requests, Check(q)
  PROVE  /\ q \in Holders /\ q \notin Checkers
         /\ Holders' = Holders /\ Checkers' = Checkers \cup {q}
         /\ \A r \in Holders : /\ request'[r].lease = request[r].lease
                               /\ request'[r].place = request[r].place
                               /\ request'[r].capacity = request[r].capacity
         /\ \A r \in Checkers : request[r].place.unit # request[q].place.unit
         /\ StillFree(q)
         /\ UNCHANGED <<unit, peak, beds, status, alloc>>
<1>. DEFINE r == request[q]
            c == Checked(r)
<1>1. q \in Holders /\ r.op = "claim"
  BY DEF Check, Holders
<1>2. r \in [op : {"claim", "checked"}, lease : Leases, place : Allocation, capacity : Capacities]
  BY <1>1, HolderType
<1>3. c.op = "checked" /\ c.lease = r.lease /\ c.place = r.place /\ c.capacity = r.capacity
  BY <1>2 DEF Checked
<1>4. request' = [request EXCEPT ![q] = c] /\ UnitUnlocked(r.place.unit)
      /\ ~MixedConflict(r.lease, r.place) /\ CapacityAvailable(r.lease, r.place, r.capacity)
      /\ UNCHANGED <<unit, peak, beds, status, alloc>>
  BY DEF Check
<1>5. StillFree(q)
  BY <1>4 DEF StillFree
<1>. HIDE DEF c
<1>6. Holders' = Holders /\ Checkers' = Checkers \cup {q} /\ q \notin Checkers
  BY <1>1, <1>3, <1>4 DEF TypeOK, Holders, Checkers
<1>. QED BY <1>1, <1>3, <1>4, <1>5, <1>6 DEF TypeOK, Holders, Checkers, UnitUnlocked

LEMMA CheckersHold == Checkers \subseteq Holders /\ Holders \subseteq Requests
BY DEF Checkers, Holders

LEMMA LocksHold == IInv /\ [Next]_vars => LocksExclusive'
<1>. SUFFICES ASSUME IInv, [Next]_vars PROVE LocksExclusive'
  OBVIOUS
<1>0. TypeOK /\ LocksExclusive
  BY DEF IInv
<1>1. CASE FewerHolds
  BY <1>0, <1>1 DEF FewerHolds, LocksExclusive
<1>2. ASSUME NEW q \in Requests, NEW l \in Leases, NEW p \in Allocation, Begin(q, l, p)
      PROVE  LocksExclusive'
  BY <1>0, <1>2, BeginHolds, CheckersHold DEF LocksExclusive
<1>3. ASSUME NEW q \in Requests, Check(q) PROVE LocksExclusive'
  BY <1>0, <1>3, CheckHolds, CheckersHold DEF LocksExclusive
<1>. QED BY <1>1, <1>2, <1>3, HoldStep

\* The capacity a unit has had only grows, and covers the one it has.
LEMMA PeakStep ==
  IInv /\ [Next]_vars =>
    /\ PeakCovers'
    /\ \A u \in Units : peak[u] <= peak'[u] /\ peak[u] \in Nat /\ peak'[u] \in Nat
<1>. SUFFICES ASSUME IInv, [Next]_vars
     PROVE  /\ PeakCovers'
            /\ \A u \in Units : peak[u] <= peak'[u] /\ peak[u] \in Nat /\ peak'[u] \in Nat
  OBVIOUS
<1>0. TypeOK /\ PeakCovers /\ TypeOK' /\ Capacities \subseteq Nat
  BY TypeHolds, BookingAssumption DEF IInv, Capacities
<1>1. \A u \in Units : peak[u] \in Nat /\ peak'[u] \in Nat
  BY <1>0 DEF TypeOK
<1>2. CASE UNCHANGED peak /\ \A u \in Units : unit'[u].capacity = unit[u].capacity
  BY <1>0, <1>1, <1>2 DEF PeakCovers
<1>3. ASSUME NEW u \in Units, NEW c \in Capacities, PatchCapacity(u, c)
      PROVE  PeakCovers' /\ \A v \in Units : peak[v] <= peak'[v]
  <2>1. unit' = [unit EXCEPT ![u] = [unit[u] EXCEPT !.capacity = c]]
        /\ peak' = [peak EXCEPT ![u] = IF c > @ THEN c ELSE @]
    BY <1>3 DEF PatchCapacity
  <2>2. \A v \in Units : unit'[v].capacity = IF v = u THEN c ELSE unit[v].capacity
    BY <1>0, <2>1 DEF TypeOK
  <2>3. \A v \in Units : peak'[v] = IF v = u /\ c > peak[v] THEN c ELSE peak[v]
    BY <1>0, <2>1 DEF TypeOK
  <2>. QED BY <1>0, <1>1, <2>2, <2>3 DEF PeakCovers
<1>4. ASSUME NEW u \in Units, ArchiveUnit(u) \/ RestoreUnit(u)
      PROVE  UNCHANGED peak /\ \A v \in Units : unit'[v].capacity = unit[v].capacity
  <2>1. PICK b \in BOOLEAN : unit' = [unit EXCEPT ![u] = [unit[u] EXCEPT !.live = b]] /\ UNCHANGED peak
    BY <1>4 DEF ArchiveUnit, RestoreUnit
  <2>. QED BY <1>0, <2>1 DEF TypeOK
<1>5. ASSUME NEW q \in Requests, PatchModeWrite(q)
      PROVE  UNCHANGED peak /\ \A v \in Units : unit'[v].capacity = unit[v].capacity
  <2>1. unit' = [unit EXCEPT ![request[q].unit] = [unit[request[q].unit] EXCEPT !.mode = request[q].mode]]
        /\ UNCHANGED peak
    BY <1>5 DEF PatchModeWrite
  <2>2. request[q].unit \in Units
    BY <1>0, <1>5, PatchType DEF PatchModeWrite
  <2>. QED BY <1>0, <2>1, <2>2 DEF TypeOK
<1>6. CASE UNCHANGED <<unit, peak>>
  BY <1>2, <1>6
<1>7. \/ UNCHANGED <<unit, peak>>
      \/ \E u \in Units, c \in Capacities : PatchCapacity(u, c)
      \/ \E u \in Units : ArchiveUnit(u) \/ RestoreUnit(u)
      \/ \E q \in Requests : PatchModeWrite(q)
  BY DEF Next, vars, CreateAllocated, SetAllocation, Transfer, Begin, Check, Insert, RollBack,
         CreateBedWrite, CreateLease, ActivateLease, PatchLease, Terminate, PatchModeRead,
         ArchiveBed, CreateBedRead
<1>. QED BY <1>1, <1>2, <1>3, <1>4, <1>5, <1>6, <1>7

\* A claimed lease does not end, and no lease comes back.
LEMMA StatusStep ==
  IInv /\ [Next]_vars =>
    /\ \A q \in Holders : status'[request[q].lease] # "ENDED"
    /\ \A l \in Leases : status[l] = "ENDED" => status'[l] = "ENDED" /\ alloc'[l] = alloc[l]
<1>. SUFFICES ASSUME IInv, [Next]_vars
     PROVE  /\ \A q \in Holders : status'[request[q].lease] # "ENDED"
            /\ \A l \in Leases : status[l] = "ENDED" => status'[l] = "ENDED" /\ alloc'[l] = alloc[l]
  OBVIOUS
<1>0. TypeOK /\ ClaimsSound
  BY DEF IInv
<1>1. \A q \in Holders : request[q].lease \in Leases /\ status[request[q].lease] # "ENDED"
  BY <1>0, HolderType DEF ClaimsSound
<1>2. CASE UNCHANGED <<status, alloc>>
  BY <1>1, <1>2
<1>3. ASSUME NEW k \in Leases, NEW s \in {"DRAFT", "ACTIVE"}, status[k] # "ENDED",
             status' = [status EXCEPT ![k] = s], \A l \in Leases \ {k} : alloc'[l] = alloc[l]
      PROVE  /\ \A q \in Holders : status'[request[q].lease] # "ENDED"
             /\ \A l \in Leases : status[l] = "ENDED" => status'[l] = "ENDED" /\ alloc'[l] = alloc[l]
  BY <1>0, <1>1, <1>3 DEF TypeOK
<1>4. ASSUME NEW q \in Requests, Insert(q)
      PROVE  /\ \A r \in Holders : status'[request[r].lease] # "ENDED"
             /\ \A l \in Leases : status[l] = "ENDED" => status'[l] = "ENDED" /\ alloc'[l] = alloc[l]
  <2>. DEFINE k == request[q].lease
  <2>1. k \in Leases /\ status[k] # "ENDED"
    BY <1>1, <1>4 DEF Insert, Holders
  <2>2. /\ status' = [status EXCEPT ![k] = IF @ = "NONE" THEN "DRAFT" ELSE @]
        /\ alloc' = [alloc EXCEPT ![k] = request[q].place]
    BY <1>4 DEF Insert
  <2>. HIDE DEF k
  <2>3. PICK s \in {"DRAFT", "ACTIVE"} : status' = [status EXCEPT ![k] = s]
    BY <1>0, <2>1, <2>2 DEF TypeOK
  <2>4. \A l \in Leases \ {k} : alloc'[l] = alloc[l]
    BY <1>0, <2>2 DEF TypeOK
  <2>. QED BY <1>3, <2>1, <2>3, <2>4
<1>5. ASSUME NEW l \in Leases, CreateLease(l) \/ ActivateLease(l)
      PROVE  /\ \A r \in Holders : status'[request[r].lease] # "ENDED"
             /\ \A m \in Leases : status[m] = "ENDED" => status'[m] = "ENDED" /\ alloc'[m] = alloc[m]
  BY <1>3, <1>5 DEF CreateLease, ActivateLease
<1>6. ASSUME NEW l \in Leases, NEW from, NEW to, PatchLease(l, from, to)
      PROVE  /\ \A r \in Holders : status'[request[r].lease] # "ENDED"
             /\ \A m \in Leases : status[m] = "ENDED" => status'[m] = "ENDED" /\ alloc'[m] = alloc[m]
  <2>1. status[l] = "DRAFT" /\ UNCHANGED status /\ alloc' = [alloc EXCEPT ![l] = Moved(alloc[l], from, to)]
    BY <1>6 DEF PatchLease
  <2>. QED BY <1>0, <1>1, <2>1 DEF TypeOK
<1>7. ASSUME NEW l \in Leases, NEW release \in BOOLEAN, Terminate(l, release)
      PROVE  /\ \A r \in Holders : status'[request[r].lease] # "ENDED"
             /\ \A m \in Leases : status[m] = "ENDED" => status'[m] = "ENDED" /\ alloc'[m] = alloc[m]
  <2>1. \A r \in Holders : request[r].lease # l
    BY <1>7 DEF Terminate, LeaseUnlocked, Holders
  <2>2. status[l] # "ENDED" /\ status' = [status EXCEPT ![l] = "ENDED"]
        /\ \A m \in Leases \ {l} : alloc'[m] = alloc[m]
    BY <1>0, <1>7 DEF Terminate, TypeOK
  <2>. QED BY <1>0, <1>1, <2>1, <2>2 DEF TypeOK
<1>8. \/ UNCHANGED <<status, alloc>>
      \/ \E q \in Requests : Insert(q)
      \/ \E l \in Leases : CreateLease(l) \/ ActivateLease(l)
      \/ \E l \in Leases, from \in Days, to \in 2..(NumDays + 1) : PatchLease(l, from, to)
      \/ \E l \in Leases, release \in BOOLEAN : Terminate(l, release)
  BY DEF Next, vars, CreateAllocated, SetAllocation, Transfer, Begin, Check, RollBack,
         PatchModeWrite, CreateBedWrite, ArchiveUnit, RestoreUnit, PatchCapacity,
         PatchModeRead, ArchiveBed, CreateBedRead
<1>. QED BY <1>2, <1>4, <1>5, <1>6, <1>7, <1>8

LEMMA ClaimsHold == IInv /\ [Next]_vars => ClaimsSound'
<1>. SUFFICES ASSUME IInv, [Next]_vars PROVE ClaimsSound'
  OBVIOUS
<1>0. TypeOK /\ ClaimsSound /\ PeakCovers /\ Capacities \subseteq Nat
  BY BookingAssumption DEF IInv, Capacities
<1>1. \A q \in Holders : /\ request[q].capacity \in Capacities
                         /\ request[q].place.unit \in Units
  BY <1>0, HolderType, RowType
<1>2. \A q \in Holders : request[q].capacity <= peak'[request[q].place.unit]
  <2>. SUFFICES ASSUME NEW q \in Holders
       PROVE  request[q].capacity <= peak'[request[q].place.unit]
    OBVIOUS
  <2>. DEFINE u == request[q].place.unit
              c == request[q].capacity
  <2>1. u \in Units /\ c \in Nat /\ c <= peak[u]
    BY <1>0, <1>1 DEF ClaimsSound
  <2>. HIDE DEF u, c
  <2>2. c <= peak'[u]
    BY <2>1, PeakStep
  <2>. QED BY <2>2 DEF u, c
<1>3. CASE FewerHolds
  BY <1>0, <1>2, <1>3, StatusStep DEF FewerHolds, ClaimsSound
<1>4. ASSUME NEW q \in Requests, NEW l \in Leases, NEW p \in Allocation,
             status[l] \in {"NONE", "DRAFT", "ACTIVE"}, Begin(q, l, p)
      PROVE  ClaimsSound'
  <2>1. p.unit \in Units
    BY RowType
  <2>. QED BY <1>0, <1>4, <2>1, BeginHolds DEF ClaimsSound, PeakCovers
<1>5. ASSUME NEW q \in Requests, Check(q) PROVE ClaimsSound'
  BY <1>0, <1>5, CheckHolds DEF ClaimsSound
<1>. QED BY <1>3, <1>4, <1>5, HoldStep

-----------------------------------------------------------------------------
(***************************************************************************)
(* Rows.                                                                   *)
(***************************************************************************)

LEMMA SharesType ==
  ASSUME TypeOK, NEW l, NEW p
  PROVE  Shares(l, p) \in [1..NumLeases -> Int] /\ \A m \in Leases : Shares(l, p)[m] \in Nat
BY RowType DEF Shares, Leases, TypeOK, Others

LEMMA DaySharesType ==
  ASSUME TypeOK, NEW u, NEW d
  PROVE  DayShares(u, d) \in [1..NumLeases -> Int] /\ \A m \in Leases : DayShares(u, d)[m] \in Nat
BY RowType DEF DayShares, Leases, TypeOK

\* A place that is free stays free when a row goes, or moves to another unit.
LEMMA FreeKept ==
  ASSUME TypeOK, TypeOK', NEW l \in Leases, NEW p \in Allocation, NEW c \in Capacities,
         NEW k \in Leases, NEW x \in Allocation \cup {Nowhere},
         x # Nowhere => x.unit # p.unit,
         alloc' = [alloc EXCEPT ![k] = x],
         ~MixedConflict(l, p), CapacityAvailable(l, p, c)
  PROVE  ~MixedConflict(l, p)' /\ CapacityAvailable(l, p, c)'
<1>1. \A m \in Leases : alloc'[m] = IF m = k THEN x ELSE alloc[m]
  BY DEF TypeOK
<1>2. Others(l, p.unit)' = Others(l, p.unit) \ {k}
  BY <1>1 DEF Others
<1>3. ~MixedConflict(l, p)'
  BY <1>1, <1>2 DEF MixedConflict, Others
<1>4. \A m \in Leases : Shares(l, p)'[m] <= Shares(l, p)[m]
  <2>. SUFFICES ASSUME NEW m \in Leases PROVE Shares(l, p)'[m] <= Shares(l, p)[m]
    OBVIOUS
  <2>1. CASE m = k
    <3>1. Shares(l, p)'[m] = 0
      BY <1>2, <2>1 DEF Shares
    <3>. QED BY <3>1, SharesType
  <2>2. CASE m # k
    <3>1. Shares(l, p)'[m] = Shares(l, p)[m]
      BY <1>1, <1>2, <2>2 DEF Shares
    <3>. QED BY <3>1, SharesType
  <2>. QED BY <2>1, <2>2
<1>5. Shares(l, p)' \in [1..NumLeases -> Int] /\ Shares(l, p) \in [1..NumLeases -> Int]
  <2>1. Shares(l, p)' \in [1..NumLeases -> Int]
    BY RowType DEF Shares, Leases, TypeOK, Others
  <2>. QED BY <2>1, SharesType
<1>6. Used(l, p)' <= Used(l, p)
  <2>. DEFINE f == Shares(l, p)'
              h == Shares(l, p)
  <2>1. f \in [1..NumLeases -> Int] /\ h \in [1..NumLeases -> Int] /\ \A m \in 1..NumLeases : f[m] <= h[m]
    BY <1>4, <1>5 DEF Leases
  <2>. HIDE DEF f, h
  <2>2. Total(f, NumLeases) <= Total(h, NumLeases)
    BY <2>1, TotalMonotone, BookingAssumption
  <2>. QED BY <2>2 DEF Used, f, h
<1>7. Used(l, p)' \in Int /\ Used(l, p) \in Int
  BY <1>5, TotalType, BookingAssumption DEF Used
<1>8. p.quantity \in Nat /\ c \in Nat
  BY RowType, BookingAssumption DEF Capacities
<1>9. CapacityAvailable(l, p, c)'
  BY <1>6, <1>7, <1>8 DEF CapacityAvailable
<1>. QED BY <1>3, <1>9

LEMMA FreeHolds == IInv /\ [Next]_vars => CheckedFree'
<1>. SUFFICES ASSUME IInv, [Next]_vars PROVE CheckedFree'
  OBVIOUS
<1>0. TypeOK /\ TypeOK' /\ CheckedFree
  BY TypeHolds DEF IInv
<1>1. ASSUME UNCHANGED alloc, NEW q, StillFree(q),
             request'[q].lease = request[q].lease, request'[q].place = request[q].place,
             request'[q].capacity = request[q].capacity
      PROVE  StillFree(q)'
  BY <1>1 DEF StillFree, MixedConflict, CapacityAvailable, Used, Shares, Others
<1>2. ASSUME NEW q \in Requests, NEW l \in Leases, NEW p \in Allocation, Begin(q, l, p)
      PROVE  CheckedFree'
  <2>1. UNCHANGED alloc /\ Checkers' = Checkers /\ \A r \in Checkers : request'[r] = request[r]
    BY <1>0, <1>2, BeginHolds, CheckersHold
  <2>. QED BY <1>0, <1>1, <2>1 DEF CheckedFree
<1>3. ASSUME NEW q \in Requests, Check(q) PROVE CheckedFree'
  <2>1. /\ UNCHANGED alloc /\ Checkers' = Checkers \cup {q} /\ StillFree(q)
        /\ \A r \in Checkers \cup {q} : /\ request'[r].lease = request[r].lease
                                        /\ request'[r].place = request[r].place
                                        /\ request'[r].capacity = request[r].capacity
    BY <1>0, <1>3, CheckHolds, CheckersHold
  <2>. QED BY <1>0, <1>1, <2>1 DEF CheckedFree
<1>4. ASSUME FewerHolds PROVE CheckedFree'
  <2>. SUFFICES ASSUME NEW q \in Checkers' PROVE StillFree(q)'
    BY DEF CheckedFree
  <2>1. q \in Checkers /\ q \in Holders /\ request'[q] = request[q] /\ StillFree(q)
    BY <1>0, <1>4, CheckersHold DEF FewerHolds, CheckedFree, Checkers, Holders
  <2>2. PICK l \in Leases, p \in Allocation, c \in Capacities :
          l = request[q].lease /\ p = request[q].place /\ c = request[q].capacity
    BY <1>0, <2>1, HolderType
  <2>3. CASE UNCHANGED alloc
    BY <1>1, <2>1, <2>3
  <2>4. ASSUME NEW k \in Leases, NEW x \in Allocation \cup {Nowhere},
               x # Nowhere => x.unit # p.unit, alloc' = [alloc EXCEPT ![k] = x]
        PROVE  StillFree(q)'
    <3>1. ~MixedConflict(l, p) /\ CapacityAvailable(l, p, c)
      BY <2>1, <2>2 DEF StillFree
    <3>2. ~MixedConflict(l, p)' /\ CapacityAvailable(l, p, c)'
      BY <1>0, <2>4, <3>1, FreeKept
    <3>3. l = request'[q].lease /\ p = request'[q].place /\ c = request'[q].capacity
      BY <2>1, <2>2
    <3>. QED BY <3>2, <3>3 DEF StillFree, MixedConflict, CapacityAvailable, Used, Shares, Others
  <2>5. ASSUME NEW k \in Leases, NEW x \in Allocation, Placed(k, x) PROVE StillFree(q)'
    <3>1. x.unit # p.unit /\ alloc' = [alloc EXCEPT ![k] = x]
      BY <2>1, <2>2, <2>5 DEF Placed
    <3>. QED BY <2>4, <3>1
  <2>. QED BY <2>3, <2>4, <2>5, RowStep
<1>. QED BY <1>2, <1>3, <1>4, HoldStep

LEMMA DoubleHolds == IInv /\ [Next]_vars => NoDoubleBooking'
<1>. SUFFICES ASSUME IInv, [Next]_vars PROVE NoDoubleBooking'
  OBVIOUS
<1>0. TypeOK /\ NoDoubleBooking
  BY DEF IInv
<1>1. CASE UNCHANGED alloc
  BY <1>0, <1>1 DEF NoDoubleBooking
<1>2. ASSUME NEW k \in Leases, alloc' = [alloc EXCEPT ![k] = Nowhere] PROVE NoDoubleBooking'
  <2>1. \A l \in Leases : alloc'[l] # Nowhere => alloc'[l] = alloc[l]
    BY <1>0, <1>2 DEF TypeOK
  <2>. QED BY <1>0, <2>1 DEF NoDoubleBooking
<1>3. ASSUME NEW k \in Leases, NEW p \in Allocation, Placed(k, p) PROVE NoDoubleBooking'
  <2>1. \A l \in Leases : alloc'[l] = IF l = k THEN p ELSE alloc[l]
    BY <1>0, <1>3 DEF Placed, TypeOK
  <2>2. ASSUME NEW m \in Leases, m # k, alloc[m] # Nowhere, alloc[m].unit = p.unit,
               RangesOverlap(p, alloc[m])
        PROVE  /\ p.type # "WHOLE_UNIT" /\ alloc[m].type # "WHOLE_UNIT"
               /\ p.type = "BED" /\ alloc[m].type = "BED" => p.bed # alloc[m].bed
    <3>1. m \in Others(k, p.unit)
      BY <2>2 DEF Others
    <3>. QED BY <1>3, <2>2, <3>1 DEF Placed, MixedConflict, ExclusionAllows
  <2>3. \A l, m \in Leases : RangesOverlap(alloc'[l], alloc'[m]) <=> RangesOverlap(alloc'[m], alloc'[l])
    BY DEF RangesOverlap
  <2>4. ASSUME NEW l \in Leases, NEW m \in Leases, l # m, alloc'[l] # Nowhere, alloc'[m] # Nowhere,
               alloc'[l].unit = alloc'[m].unit, RangesOverlap(alloc'[l], alloc'[m])
        PROVE  /\ alloc'[l].type # "WHOLE_UNIT"
               /\ alloc'[l].type = "BED" /\ alloc'[m].type = "BED" => alloc'[l].bed # alloc'[m].bed
    <3>1. CASE l = k
      BY <2>1, <2>2, <2>4, <3>1
    <3>2. CASE m = k
      BY <2>1, <2>2, <2>3, <2>4, <3>2
    <3>3. CASE l # k /\ m # k
      BY <1>0, <2>1, <2>4, <3>3 DEF NoDoubleBooking
    <3>. QED BY <3>1, <3>2, <3>3
  <2>. QED BY <2>4 DEF NoDoubleBooking, RangesOverlap
<1>. QED BY <1>1, <1>2, <1>3, RowStep

\* When rows only go, no day has more booked.
LEMMA BookedLess ==
  ASSUME TypeOK, TypeOK', NEW u \in Units, NEW d \in Days,
         \A m \in Leases : DayShares(u, d)'[m] <= DayShares(u, d)[m]
  PROVE  Booked(u, d)' <= Booked(u, d)
<1>. DEFINE f == DayShares(u, d)'
            h == DayShares(u, d)
<1>1. h \in [1..NumLeases -> Int]
  BY DaySharesType
<1>2. f \in [1..NumLeases -> Int]
  BY RowType DEF DayShares, Leases, TypeOK
<1>3. \A m \in 1..NumLeases : f[m] <= h[m]
  BY DEF Leases
<1>. HIDE DEF f, h
<1>4. Total(f, NumLeases) <= Total(h, NumLeases)
  BY <1>1, <1>2, <1>3, TotalMonotone, BookingAssumption
<1>. QED BY <1>4 DEF Booked, f, h

\* On a day of a new row's period, what is booked is at most what the check
\* counted and the row itself.
LEMMA BookedOnDay ==
  ASSUME TypeOK, TypeOK', NEW k \in Leases, NEW p \in Allocation, NEW d \in Days,
         alloc' = [alloc EXCEPT ![k] = p], p.type = "CAPACITY", p.from <= d, d < p.to
  PROVE  Booked(p.unit, d)' <= Used(k, p) + p.quantity
<1>. DEFINE f == DayShares(p.unit, d)'
            g == Shares(k, p)
            h == [m \in 1..NumLeases |-> IF m = k THEN p.quantity ELSE g[m]]
<1>1. \A m \in Leases : alloc'[m] = IF m = k THEN p ELSE alloc[m]
  BY DEF TypeOK
<1>2. g \in [1..NumLeases -> Int] /\ \A m \in Leases : g[m] \in Nat
  BY SharesType
<1>3. f \in [1..NumLeases -> Int]
  BY RowType DEF DayShares, Leases, TypeOK
<1>4. p.quantity \in Nat /\ p.from \in Int /\ p.to \in Int /\ d \in Int
  BY RowType DEF Days
<1>5. g[k] = 0
  BY DEF Shares, Others
<1>6. \A m \in Leases : f[m] <= h[m]
  <2>. SUFFICES ASSUME NEW m \in Leases PROVE f[m] <= h[m]
    OBVIOUS
  <2>1. CASE m = k
    BY <1>1, <1>4, <2>1 DEF DayShares, Leases
  <2>2. CASE m # k
    <3>1. h[m] = g[m]
      BY <2>2 DEF Leases
    <3>2. CASE alloc[m] # Nowhere /\ alloc[m].unit = p.unit /\ alloc[m].type = "CAPACITY"
               /\ alloc[m].from <= d /\ d < alloc[m].to
      <4>1. alloc[m].from \in Int /\ alloc[m].to \in Int /\ alloc[m].quantity \in Nat
        BY <3>2, RowType DEF TypeOK
      <4>2. m \in Others(k, p.unit) /\ RangesOverlap(p, alloc[m])
        BY <1>4, <2>2, <3>2, <4>1 DEF Others, RangesOverlap
      <4>3. f[m] = alloc[m].quantity /\ g[m] = alloc[m].quantity
        BY <1>1, <2>2, <3>2, <4>2 DEF DayShares, Shares
      <4>. HIDE DEF f, g, h
      <4>. QED BY <3>1, <4>1, <4>3
    <3>3. CASE ~(alloc[m] # Nowhere /\ alloc[m].unit = p.unit /\ alloc[m].type = "CAPACITY"
                 /\ alloc[m].from <= d /\ d < alloc[m].to)
      <4>1. f[m] = 0
        BY <1>1, <2>2, <3>3 DEF DayShares
      <4>. HIDE DEF f, g, h
      <4>. QED BY <1>2, <3>1, <4>1
    <3>. QED BY <3>2, <3>3
  <2>. QED BY <2>1, <2>2
<1>7. h \in [1..NumLeases -> Int] /\ h[k] = g[k] + p.quantity
      /\ \A m \in 1..NumLeases \ {k} : h[m] = g[m]
  BY <1>2, <1>4, <1>5 DEF Leases
<1>. HIDE DEF f, g, h
<1>8. Total(h, NumLeases) = Total(g, NumLeases) + p.quantity
  <2>1. k \in 1..NumLeases /\ NumLeases \in Nat /\ p.quantity \in Int
        /\ g \in [1..NumLeases -> Int]
    BY <1>2, <1>4, BookingAssumption DEF Leases
  <2>. QED BY <1>7, <2>1, TotalOneRow
<1>9. Total(f, NumLeases) <= Total(h, NumLeases)
  BY <1>3, <1>6, <1>7, TotalMonotone, BookingAssumption DEF Leases
<1>10. Total(f, NumLeases) <= Total(g, NumLeases) + p.quantity
  BY <1>8, <1>9
<1>. QED BY <1>10 DEF Booked, Used, f, g

LEMMA PeakHolds == IInv /\ [Next]_vars => WithinPeak'
<1>. SUFFICES ASSUME IInv, [Next]_vars, NEW u \in Units, NEW d \in Days
     PROVE  Booked(u, d)' <= peak'[u]
  BY DEF WithinPeak
<1>0. TypeOK /\ TypeOK' /\ Booked(u, d) <= peak[u]
  BY TypeHolds DEF IInv, WithinPeak
<1>1. peak[u] \in Nat /\ peak'[u] \in Nat /\ peak[u] <= peak'[u]
  BY PeakStep
<1>2. Booked(u, d) \in Int /\ Booked(u, d)' \in Int
  <2>1. DayShares(u, d) \in [1..NumLeases -> Int] /\ DayShares(u, d)' \in [1..NumLeases -> Int]
    BY <1>0, RowType DEF DayShares, Leases, TypeOK
  <2>. QED BY <2>1, TotalType, BookingAssumption DEF Booked
<1>3. ASSUME \A m \in Leases : DayShares(u, d)'[m] <= DayShares(u, d)[m]
      PROVE  Booked(u, d)' <= peak'[u]
  BY <1>0, <1>1, <1>2, <1>3, BookedLess
<1>4. CASE UNCHANGED alloc
  <2>1. DayShares(u, d)' = DayShares(u, d)
    BY <1>4 DEF DayShares
  <2>2. \A m \in Leases : DayShares(u, d)[m] \in Int
    BY <1>0, DaySharesType DEF Leases
  <2>. QED BY <1>3, <2>1, <2>2
<1>5. ASSUME NEW k \in Leases, NEW x, alloc' = [alloc EXCEPT ![k] = x],
             ~(x # Nowhere /\ x.unit = u /\ x.type = "CAPACITY" /\ x.from <= d /\ d < x.to)
      PROVE  \A m \in Leases : DayShares(u, d)'[m] <= DayShares(u, d)[m]
  <2>1. \A m \in Leases : alloc'[m] = IF m = k THEN x ELSE alloc[m]
    BY <1>0, <1>5 DEF TypeOK
  <2>2. DayShares(u, d)'[k] = 0
    BY <1>5, <2>1 DEF DayShares
  <2>3. \A m \in Leases \ {k} : DayShares(u, d)'[m] = DayShares(u, d)[m]
    BY <2>1 DEF DayShares
  <2>4. \A m \in Leases : DayShares(u, d)[m] \in Nat
    BY <1>0, DaySharesType
  <2>. QED BY <2>2, <2>3, <2>4
<1>6. ASSUME NEW k \in Leases, alloc' = [alloc EXCEPT ![k] = Nowhere]
      PROVE  Booked(u, d)' <= peak'[u]
  BY <1>3, <1>5, <1>6
<1>7. ASSUME NEW k \in Leases, NEW p \in Allocation, Placed(k, p)
      PROVE  Booked(u, d)' <= peak'[u]
  <2>1. alloc' = [alloc EXCEPT ![k] = p] /\ peak' = peak /\ CapacityAvailable(k, p, peak[p.unit])
    BY <1>7 DEF Placed
  <2>2. CASE p.unit = u /\ p.type = "CAPACITY" /\ p.from <= d /\ d < p.to
    <3>1. Booked(u, d)' <= Used(k, p) + p.quantity
      BY <1>0, <2>1, <2>2, BookedOnDay
    <3>2. Used(k, p) + p.quantity <= peak[u]
      BY <2>1, <2>2 DEF CapacityAvailable
    <3>3. Used(k, p) \in Int /\ p.quantity \in Int
      BY <1>0, SharesType, TotalType, RowType, BookingAssumption DEF Used
    <3>. QED BY <1>1, <1>2, <2>1, <3>1, <3>2, <3>3
  <2>3. CASE ~(p.unit = u /\ p.type = "CAPACITY" /\ p.from <= d /\ d < p.to)
    BY <1>3, <1>5, <2>1, <2>3
  <2>. QED BY <2>2, <2>3
<1>. QED BY <1>4, <1>6, <1>7, RowStep

LEMMA PlaceHolds == IInv /\ [Next]_vars => RentedHasPlace'
<1>. SUFFICES ASSUME IInv, [Next]_vars PROVE RentedHasPlace'
  OBVIOUS
<1>0. TypeOK /\ RentedHasPlace
  BY DEF IInv
<1>1. ASSUME NEW k \in Leases, NEW p \in Allocation, Placed(k, p), NEW l \in Leases,
             status'[l] = "ACTIVE" => status[l] = "ACTIVE" \/ l = k
      PROVE  status'[l] = "ACTIVE" => alloc'[l] # Nowhere
  BY <1>0, <1>1, RowType DEF Placed, TypeOK, RentedHasPlace
<1>2. ASSUME NEW q \in Requests, Insert(q) PROVE RentedHasPlace'
  <2>1. \A l \in Leases : status'[l] = "ACTIVE" => status[l] = "ACTIVE"
    <3>1. status' = [status EXCEPT ![request[q].lease] = IF @ = "NONE" THEN "DRAFT" ELSE @]
      BY <1>2 DEF Insert
    <3>. QED BY <1>0, <3>1 DEF TypeOK
  <2>. QED BY <1>1, <1>2, <2>1, InsertPlaces DEF RentedHasPlace
<1>3. ASSUME NEW l \in Leases, NEW from \in Days, NEW to \in 2..(NumDays + 1), PatchLease(l, from, to)
      PROVE RentedHasPlace'
  <2>1. UNCHANGED status
    BY <1>3 DEF PatchLease
  <2>. QED BY <1>1, <1>3, <2>1, PatchPlaces DEF RentedHasPlace
<1>4. ASSUME NEW l \in Leases, CreateLease(l) \/ ActivateLease(l) PROVE RentedHasPlace'
  BY <1>0, <1>4 DEF CreateLease, ActivateLease, RentedHasPlace, TypeOK
<1>5. ASSUME NEW l \in Leases, NEW release \in BOOLEAN, Terminate(l, release) PROVE RentedHasPlace'
  <2>1. status' = [status EXCEPT ![l] = "ENDED"] /\ \A m \in Leases \ {l} : alloc'[m] = alloc[m]
    BY <1>0, <1>5 DEF Terminate, TypeOK
  <2>. QED BY <1>0, <2>1 DEF RentedHasPlace, TypeOK
<1>6. CASE UNCHANGED <<status, alloc>>
  BY <1>0, <1>6 DEF RentedHasPlace
<1>7. \/ UNCHANGED <<status, alloc>>
      \/ \E q \in Requests : Insert(q)
      \/ \E l \in Leases : CreateLease(l) \/ ActivateLease(l)
      \/ \E l \in Leases, from \in Days, to \in 2..(NumDays + 1) : PatchLease(l, from, to)
      \/ \E l \in Leases, release \in BOOLEAN : Terminate(l, release)
  BY DEF Next, vars, CreateAllocated, SetAllocation, Transfer, Begin, Check, RollBack,
         PatchModeWrite, CreateBedWrite, ArchiveUnit, RestoreUnit, PatchCapacity,
         PatchModeRead, ArchiveBed, CreateBedRead
<1>. QED BY <1>2, <1>3, <1>4, <1>5, <1>6, <1>7

-----------------------------------------------------------------------------
(***************************************************************************)
(* Theorems.                                                               *)
(***************************************************************************)

\* The invariant holds in every reachable state.
THEOREM Inductive == Spec => []IInv
<1>1. IInv /\ [Next]_vars => IInv'
  BY TypeHolds, LocksHold, ClaimsHold, FreeHolds, PeakStep, DoubleHolds, PeakHolds, PlaceHolds
     DEF IInv
<1>. QED BY <1>1, InitHolds, PTL DEF Spec

\* Every table keeps its schema, whatever requests and administrators do to
\* leases, units and beds meanwhile.
THEOREM TypeCorrect == Spec => []TypeOK
BY Inductive, PTL DEF IInv

\* No two leases hold the same place on the same day: the unit's lock, the
\* check of applyAllocationInTransaction and the two constraints suffice for
\* any number of racing requests.
THEOREM NoPlaceTwice == Spec => []NoDoubleBooking
BY Inductive, PTL DEF IInv

\* On no day is more of a unit taken than the largest capacity it has had,
\* although requests check against a capacity read before the lock.
THEOREM CapacityBounded == Spec => []WithinPeak
BY Inductive, PTL DEF IInv

\* A lease in force has a place, also during and after failed transfers.
THEOREM PlaceKept == Spec => []RentedHasPlace
BY Inductive, PTL DEF IInv

\* An ended lease is neither revived nor moved by a request under way.
THEOREM EndedFinal == Spec => EndedStaysPut
<1>1. IInv /\ [Next]_vars =>
        [\A l \in Leases : status[l] = "ENDED" => status'[l] = "ENDED" /\ alloc'[l] = alloc[l]]_vars
  BY StatusStep
<1>. QED BY <1>1, Inductive, PTL DEF Spec, EndedStaysPut

=============================================================================
