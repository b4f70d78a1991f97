---------------------------- MODULE TenancyProofs ----------------------------
(***************************************************************************)
(* Proofs about leases, residents, documents, the inventory, lists, and    *)
(* who owns and manages a property; and of the types of all the parts of   *)
(* MCTenancy together.                                                     *)
(***************************************************************************)
EXTENDS MCTenancy, AccessProofs, TotalsProofs, SequenceTheorems

-----------------------------------------------------------------------------
(***************************************************************************)
(* LeaseLifecycle.                                                         *)
(*                                                                         *)
(* For any number of leases, keys, items and requests.                     *)
(***************************************************************************)

ReadRow == [lease : Leases, row : LeaseRow, openKeys : BOOLEAN]

LeaseTyped ==
  /\ lease \in [Leases -> LeaseRow]
  /\ loans \in [Leases -> [AssetKeys -> KeyStatuses]]
  /\ history \in [Leases -> Seq(Statuses \X Statuses)]
  /\ events \subseteq Leases
  /\ request \in [Requests -> {NoRead} \cup ReadRow]

\* What a request has read is what the lease is now, or is older: a row and its
\* keys change only together with the version.
UpToDate(r) ==
  /\ r.row.version <= lease[r.lease].version /\ lease[r.lease].status # "NONE"
  /\ r.row.version = lease[r.lease].version =>
       r.row = lease[r.lease] /\ (r.openKeys <=> Issued(r.lease) # {})

ReadOrStale == \A q \in Requests, r \in ReadRow : request[q] = r => UpToDate(r)

\* What OccupiedInForce and MovedOutReconciled ask of one lease, and that a
\* checkout starts with a move-in.
RowSafe(row, keys) ==
  /\ row.occupancy = "OCCUPIED" \/ row.moveOut = "IN_PROGRESS" =>
       row.status \in Current /\ row.occupancy = "OCCUPIED" /\ row.moveOut # "COMPLETED"
  /\ row.occupancy = "NOT_MOVED_IN" => row.moveOut = "NONE"
  /\ row.occupancy = "MOVED_OUT" =>
       /\ row.moveOut = "COMPLETED" /\ \A k \in AssetKeys : keys[k] # "ISSUED"
       /\ row.checklist.items # {} /\ row.checklist.completed = row.checklist.items

RowsSafe == \A l \in Leases : RowSafe(lease[l], loans[l])

Alive == {"DRAFT"} \cup Current

OneSuccessor ==
  \A l, m, n \in Leases :
    /\ lease[m].renewedFrom = l /\ lease[m].status \in Alive
    /\ lease[n].renewedFrom = l /\ lease[n].status \in Alive
    => m = n

\* h leads from the creation of a lease to its status.
Chain(h, status) ==
  /\ (h = <<>>) <=> (status = "NONE")
  /\ h # <<>> => h[1] = <<"NONE", "DRAFT">> /\ h[Len(h)][2] = status
  /\ \A i \in 1..(Len(h) - 1) : h[i][2] = h[i + 1][1]

Chained == \A l \in Leases : Chain(history[l], lease[l].status)

LeaseInv == LeaseTyped /\ ReadOrStale /\ RowsSafe /\ OneSuccessor /\ Chained

-----------------------------------------------------------------------------
LEMMA StartsSafe == LifecycleAssumption /\ LifeInit => LeaseInv
<1> SUFFICES ASSUME LifecycleAssumption, LifeInit PROVE LeaseInv
  OBVIOUS
<1>1. Absent \in LeaseRow /\ Absent.status = "NONE" /\ Absent.renewedFrom = Nobody
      /\ Absent.occupancy = "NOT_MOVED_IN" /\ Absent.moveOut = "NONE"
  BY DEF Absent, LeaseRow, NoList, Checklists, Statuses
<1>2. LeaseTyped
  BY <1>1 DEF LeaseTyped, LifeInit, KeyStatuses
<1>3. ReadOrStale
  BY DEF ReadOrStale, LifeInit, ReadRow, NoRead, LifecycleAssumption
<1>4. RowsSafe
  BY <1>1 DEF RowsSafe, RowSafe, LifeInit
<1>5. OneSuccessor
  BY <1>1 DEF OneSuccessor, LifeInit, Alive, Current
<1>6. Chained
  BY <1>1 DEF Chained, Chain, LifeInit
<1> QED BY <1>2, <1>3, <1>4, <1>5, <1>6 DEF LeaseInv

\* A request that has read a lease has read a row of it.
LEMMA HasRead ==
  ASSUME LifecycleAssumption, LeaseTyped, NEW q \in Requests, request[q] # NoRead
  PROVE  /\ request[q] \in ReadRow
         /\ request[q].lease \in Leases /\ request[q].row \in LeaseRow
         /\ request[q].openKeys \in BOOLEAN
BY DEF LeaseTyped, ReadRow

\* A step of the history keeps it a chain.
LEMMA ChainGrows ==
  ASSUME NEW h \in Seq(Statuses \X Statuses), NEW from \in Statuses, NEW to \in Statuses,
         Chain(h, from), to # "NONE", from = "NONE" => to = "DRAFT"
  PROVE  Append(h, <<from, to>>) \in Seq(Statuses \X Statuses) /\ Chain(Append(h, <<from, to>>), to)
<1> DEFINE g == Append(h, <<from, to>>)
<1>1. g \in Seq(Statuses \X Statuses) /\ Len(g) = Len(h) + 1 /\ g[Len(g)] = <<from, to>>
      /\ Len(h) \in Nat /\ \A i \in 1..Len(h) : g[i] = h[i]
  OBVIOUS
<1>2. g # <<>> /\ (h # <<>> => Len(h) >= 1)
  BY EmptySeq
<1>3. g[Len(g)][2] = to /\ g[Len(g)][1] = from
  BY <1>1
<1>4. g[1] = <<"NONE", "DRAFT">>
  <2>1. CASE h = <<>>
    BY <2>1, <1>1 DEF Chain
  <2>2. CASE h # <<>>
    BY <2>2, <1>1, <1>2 DEF Chain
  <2> QED BY <2>1, <2>2
<1>5. ASSUME NEW i \in 1..(Len(g) - 1) PROVE g[i][2] = g[i + 1][1]
  <2>1. CASE i < Len(h)
    <3>1. h[i][2] = h[i + 1][1]
      BY <2>1, <1>1 DEF Chain
    <3>2. g[i] = h[i] /\ g[i + 1] = h[i + 1]
      BY <2>1, <1>1
    <3> QED BY <3>1, <3>2
  <2>2. CASE i = Len(h)
    <3>1. h # <<>> /\ h[Len(h)][2] = from
      BY <2>2, <1>1, <1>2 DEF Chain
    <3> QED BY <3>1, <2>2, <1>1
  <2> QED BY <2>1, <2>2, <1>1
<1>6. Chain(g, to)
  BY <1>2, <1>3, <1>4, <1>5 DEF Chain
<1> QED BY <1>1, <1>6

\* A claim changes the version of the row it leaves and nothing else of it.
LEMMA Bumped ==
  ASSUME NEW r \in LeaseRow
  PROVE  LET b == [r EXCEPT !.version = @ + 1] IN
         /\ b \in LeaseRow /\ b.version = r.version + 1 /\ b.version \in Nat
         /\ b.status = r.status /\ b.occupancy = r.occupancy /\ b.moveOut = r.moveOut
         /\ b.checklist = r.checklist /\ b.renewedFrom = r.renewedFrom
BY DEF LeaseRow

\* A claim of lease l by request q: the row and the keys it leaves.  The history
\* gets a new pair, or the status stays.
Claims(q, l, row, keys) ==
  /\ request[q] # NoRead /\ request[q].lease = l
  /\ row \in LeaseRow /\ keys \in [AssetKeys -> KeyStatuses]
  /\ row.version = lease[l].version /\ row.renewedFrom = lease[l].renewedFrom
  /\ row.status \in Alive => lease[l].status \in Alive
  /\ row.status # "NONE"
  /\ Claim(q, l, row)
  /\ loans' = [loans EXCEPT ![l] = keys]
  /\ events' \subseteq Leases
  /\ \/ history' = history /\ row.status = lease[l].status
     \/ history' = Recorded(l, lease[l].status, row.status)

\* Every operation on a lease that exists is such a claim, and its only duty is
\* to leave the row itself in order.
LEMMA ClaimKeeps ==
  ASSUME LifecycleAssumption, LeaseInv, NEW q \in Requests, NEW l, NEW row, NEW keys,
         Claims(q, l, row, keys), RowSafe(row, keys)
  PROVE  LeaseInv'
<1>1. l \in Leases /\ lease[l].status # "NONE" /\ lease[l] \in LeaseRow
  BY HasRead DEF LeaseInv, Claims, ReadOrStale, UpToDate, LeaseTyped
<1> PICK new : new = [row EXCEPT !.version = @ + 1]
  OBVIOUS
<1>9. /\ new \in LeaseRow /\ new.version = lease[l].version + 1
      /\ new.status = row.status /\ new.renewedFrom = lease[l].renewedFrom
      /\ RowSafe(new, keys)
  BY Bumped DEF Claims, RowSafe
<1>2. lease'[l] = new /\ loans'[l] = keys
      /\ \A m \in Leases : m # l => lease'[m] = lease[m] /\ loans'[m] = loans[m]
  BY <1>1 DEF LeaseInv, LeaseTyped, Claims, Claim
<1>3. \A p \in Requests : request'[p] = request[p] \/ request'[p] = NoRead
  BY DEF LeaseInv, LeaseTyped, Claims, Claim
<1>4. /\ history' \in [Leases -> Seq(Statuses \X Statuses)]
      /\ Chained'
  <2>1. history \in [Leases -> Seq(Statuses \X Statuses)] /\ Chained
    BY DEF LeaseInv, LeaseTyped
  <2>2. CASE history' = history /\ row.status = lease[l].status
    BY <2>1, <2>2, <1>1, <1>2, <1>9 DEF Chained
  <2>3. CASE history' = Recorded(l, lease[l].status, row.status)
    <3>1. row.status \in Statuses /\ lease[l].status \in Statuses /\ row.status # "NONE"
      BY <1>1 DEF Claims, LeaseRow
    <3>2. Append(history[l], <<lease[l].status, row.status>>) \in Seq(Statuses \X Statuses)
          /\ Chain(Append(history[l], <<lease[l].status, row.status>>), row.status)
      BY <3>1, <1>1, <2>1, ChainGrows DEF Chained
    <3>3. history' = [history EXCEPT ![l] = Append(history[l], <<lease[l].status, row.status>>)]
      BY <2>3 DEF Recorded
    <3> QED BY <2>1, <3>2, <3>3, <1>1, <1>2, <1>9 DEF Chained
  <2> QED BY <2>2, <2>3 DEF Claims
<1>5. LeaseTyped'
  BY <1>1, <1>2, <1>4, <1>9 DEF LeaseInv, LeaseTyped, Claims, Claim
<1>6. ReadOrStale'
  <2> SUFFICES ASSUME NEW p \in Requests, NEW r \in ReadRow, request'[p] = r
               PROVE  UpToDate(r)'
    BY DEF ReadOrStale
  <2>1. r # NoRead
    BY DEF ReadRow, NoRead, LifecycleAssumption
  <2>2. request[p] = r
    BY <1>3, <2>1
  <2>3. UpToDate(r) /\ r.lease \in Leases /\ r.row \in LeaseRow
    BY <2>2 DEF LeaseInv, ReadOrStale, ReadRow
  <2>4. CASE r.lease = l
    <3>1. r.row.version \in Nat /\ lease[l].version \in Nat /\ lease'[l].version = lease[l].version + 1
          /\ lease'[l].status # "NONE"
      BY <2>3, <1>1, <1>2, <1>9 DEF LeaseRow, Claims
    <3> QED BY <2>3, <2>4, <3>1 DEF UpToDate
  <2>5. CASE r.lease # l
    <3>1. Issued(r.lease)' = Issued(r.lease)
      BY <2>3, <2>5, <1>2 DEF Issued
    <3> QED BY <3>1, <2>3, <2>5, <1>2 DEF UpToDate
  <2> QED BY <2>4, <2>5
<1>7. RowsSafe'
  BY <1>2, <1>9 DEF LeaseInv, RowsSafe
<1>8. OneSuccessor'
  <2>1. \A m \in Leases : lease'[m].renewedFrom = lease[m].renewedFrom
                         /\ (lease'[m].status \in Alive => lease[m].status \in Alive)
    BY <1>1, <1>2, <1>9 DEF Claims
  <2> QED BY <2>1 DEF LeaseInv, OneSuccessor
<1> QED BY <1>4, <1>5, <1>6, <1>7, <1>8 DEF LeaseInv

\* The claim proves the read: a claim that finds the version that was read finds
\* the row that was read.
LEMMA ClaimProvesRead ==
  ASSUME LifecycleAssumption, LeaseInv, NEW q \in Requests, NEW statuses, Claimable(q, statuses)
  PROVE  /\ request[q] # NoRead /\ request[q].lease \in Leases
         /\ lease[request[q].lease] \in LeaseRow
         /\ loans[request[q].lease] \in [AssetKeys -> KeyStatuses]
         /\ request[q].row = lease[request[q].lease]
         /\ request[q].openKeys <=> Issued(request[q].lease) # {}
         /\ lease[request[q].lease].status \in statuses
         /\ lease[request[q].lease].status # "NONE"
         /\ RowSafe(lease[request[q].lease], loans[request[q].lease])
<1>1. request[q] # NoRead /\ lease[request[q].lease].status \in statuses
      /\ request[q].row.version = lease[request[q].lease].version
  BY DEF Claimable
<1>2. request[q] \in ReadRow /\ request[q].lease \in Leases
  BY <1>1, HasRead DEF LeaseInv
<1>3. UpToDate(request[q])
  BY <1>2 DEF LeaseInv, ReadOrStale
<1> QED BY <1>1, <1>2, <1>3 DEF UpToDate, LeaseInv, LeaseTyped, RowsSafe

LEMMA AmendKeeps ==
  ASSUME LifecycleAssumption, LeaseInv, NEW q \in Requests, Amend(q) \/ Transfer(q)
  PROVE  LeaseInv'
<1> PICK l : l = request[q].lease
  OBVIOUS
<1>1. Claimable(q, {"DRAFT"} \cup Current) /\ Claim(q, l, lease[l]) /\ UNCHANGED <<loans, history>>
      /\ (events' = events \/ EventAdded(l))
  BY DEF Amend, Transfer, Claimable
<1>2. /\ request[q] # NoRead /\ l \in Leases /\ lease[l] \in LeaseRow
      /\ lease[l].status # "NONE" /\ RowSafe(lease[l], loans[l])
      /\ loans[l] \in [AssetKeys -> KeyStatuses]
  BY <1>1, ClaimProvesRead
<1>3. events' \subseteq Leases /\ loans' = [loans EXCEPT ![l] = loans[l]]
  BY <1>1, <1>2 DEF EventAdded, LeaseInv, LeaseTyped
<1>4. Claims(q, l, lease[l], loans[l])
  BY <1>1, <1>2, <1>3 DEF Claims
<1> QED BY <1>2, <1>4, ClaimKeeps

LEMMA StatusKeeps ==
  ASSUME LifecycleAssumption, LeaseInv, NEW q \in Requests,
         ActivateLease(q) \/ RecordNotice(q) \/ Terminate(q)
  PROVE  LeaseInv'
<1> PICK l : l = request[q].lease
  OBVIOUS
<1>1. Claimable(q, {"DRAFT"} \cup Current)
  BY DEF ActivateLease, RecordNotice, Terminate, Claimable
<1>2. /\ request[q] # NoRead /\ l \in Leases /\ lease[l] \in LeaseRow
      /\ lease[l].status \in {"DRAFT"} \cup Current /\ RowSafe(lease[l], loans[l])
      /\ loans[l] \in [AssetKeys -> KeyStatuses] /\ request[q].row = lease[l]
  BY <1>1, ClaimProvesRead
<1>3. PICK to \in Statuses \ {"NONE"} :
        /\ Claim(q, l, [lease[l] EXCEPT !.status = to])
        /\ history' = Recorded(l, lease[l].status, to)
        /\ EventAdded(l) /\ UNCHANGED loans
        /\ to \in Current \/ (lease[l].occupancy = "OCCUPIED" => lease[l].moveOut = "COMPLETED")
  <2>1. CASE ActivateLease(q)
    BY <2>1, <1>2 DEF ActivateLease, Claimable, Current, Statuses
  <2>2. CASE RecordNotice(q)
    BY <2>2, <1>2 DEF RecordNotice, Current, Statuses
  <2>3. CASE Terminate(q)
    BY <2>3, <1>2 DEF Terminate, Current, Statuses
  <2> QED BY <2>1, <2>2, <2>3
<1> DEFINE row == [lease[l] EXCEPT !.status = to]
<1>4. row \in LeaseRow /\ row.status = to /\ row.version = lease[l].version
  BY <1>2 DEF LeaseRow
<1>5. Claims(q, l, row, loans[l])
  <2>1. Claim(q, l, row)
    BY <1>3
  <2>2. loans' = [loans EXCEPT ![l] = loans[l]]
    BY <1>3 DEF LeaseInv, LeaseTyped
  <2>3. events' \subseteq Leases
    BY <1>2, <1>3 DEF EventAdded, LeaseInv, LeaseTyped
  <2>4. row.renewedFrom = lease[l].renewedFrom
    BY <1>2 DEF LeaseRow
  <2> QED BY <1>2, <1>3, <1>4, <2>1, <2>2, <2>3, <2>4 DEF Claims, Alive
<1>6. RowSafe(row, loans[l])
  BY <1>2, <1>3 DEF RowSafe, LeaseRow
<1> QED BY <1>5, <1>6, ClaimKeeps

LEMMA MoveInKeeps ==
  ASSUME LifecycleAssumption, LeaseInv, NEW q \in Requests, NEW issued \in SUBSET AssetKeys,
         MoveIn(q, issued)
  PROVE  LeaseInv'
<1> PICK l : l = request[q].lease
  OBVIOUS
<1>1. Claimable(q, Current)
  BY DEF MoveIn
<1>2. /\ request[q] # NoRead /\ l \in Leases /\ lease[l] \in LeaseRow
      /\ lease[l].status \in Current /\ RowSafe(lease[l], loans[l])
      /\ loans[l] \in [AssetKeys -> KeyStatuses] /\ lease[l].occupancy = "NOT_MOVED_IN"
  BY <1>1, ClaimProvesRead DEF MoveIn
<1> DEFINE keys == [k \in AssetKeys |-> IF k \in issued THEN "ISSUED" ELSE loans[l][k]]
           row == [lease[l] EXCEPT !.occupancy = "OCCUPIED"]
<1>3. loans' = [loans EXCEPT ![l] = keys] /\ keys \in [AssetKeys -> KeyStatuses]
  BY <1>2 DEF MoveIn, KeyStatuses, LeaseInv, LeaseTyped
<1>4. Claims(q, l, row, keys)
  <2>1. Claim(q, l, row)
    BY DEF MoveIn
  <2>2. events' \subseteq Leases /\ history' = history
    BY <1>2 DEF MoveIn, EventAdded, LeaseInv, LeaseTyped
  <2>3. row \in LeaseRow /\ row.status = lease[l].status /\ row.version = lease[l].version
        /\ row.renewedFrom = lease[l].renewedFrom
    BY <1>2 DEF LeaseRow
  <2>4. row.status # "NONE"
    BY <1>2, <2>3 DEF Current
  <2> HIDE DEF row, keys
  <2> QED BY <1>2, <1>3, <2>1, <2>2, <2>3, <2>4 DEF Claims
<1>5. RowSafe(row, keys)
  BY <1>2 DEF RowSafe, LeaseRow
<1> QED BY <1>4, <1>5, ClaimKeeps

\* The checkout.  Its three operations keep the status and the version of the row.
LEMMA CheckoutKeeps ==
  ASSUME LifecycleAssumption, LeaseInv, NEW q \in Requests,
         \/ StartMoveOut(q) \/ CompleteMoveOut(q)
         \/ \E checklist \in Checklists, all \in BOOLEAN, listed \in SUBSET AssetKeys :
              \E returns \in [listed -> {"RETURNED", "LOST", "DAMAGED"}] :
                PatchMoveOut(q, checklist, all, returns)
  PROVE  LeaseInv'
<1> PICK l : l = request[q].lease
  OBVIOUS
<1>1. Claimable(q, Statuses)
  BY DEF StartMoveOut, CompleteMoveOut, PatchMoveOut
<1>2. /\ request[q] # NoRead /\ l \in Leases /\ lease[l] \in LeaseRow
      /\ lease[l].status # "NONE" /\ RowSafe(lease[l], loans[l])
      /\ loans[l] \in [AssetKeys -> KeyStatuses] /\ request[q].row = lease[l]
      /\ request[q].openKeys <=> Issued(l) # {}
  BY <1>1, ClaimProvesRead
<1>3. loans = [loans EXCEPT ![l] = loans[l]]
  BY <1>2 DEF LeaseInv, LeaseTyped
<1>4. CASE StartMoveOut(q)
  <2> DEFINE row == [lease[l] EXCEPT !.moveOut = "IN_PROGRESS",
                                     !.checklist = [items |-> Items, completed |-> {}]]
  <2>1. row \in LeaseRow
    BY <1>2 DEF LeaseRow, Checklists
  <2>2. row.status = lease[l].status /\ row.version = lease[l].version
        /\ row.renewedFrom = lease[l].renewedFrom /\ row.occupancy = lease[l].occupancy
        /\ row.moveOut = "IN_PROGRESS"
    BY <1>2 DEF LeaseRow
  <2>3. Claim(q, l, row) /\ lease[l].occupancy = "OCCUPIED" /\ UNCHANGED <<loans, history, events>>
    BY <1>4 DEF StartMoveOut
  <2>4. events' \subseteq Leases
    BY <2>3 DEF LeaseInv, LeaseTyped
  <2> HIDE DEF row
  <2>5. Claims(q, l, row, loans[l])
    BY <1>2, <1>3, <2>1, <2>2, <2>3, <2>4 DEF Claims
  <2>6. RowSafe(row, loans[l])
    BY <1>2, <2>2, <2>3 DEF RowSafe
  <2> QED BY <2>5, <2>6, ClaimKeeps
<1>5. CASE CompleteMoveOut(q)
  <2> DEFINE row == [lease[l] EXCEPT !.moveOut = "COMPLETED", !.occupancy = "MOVED_OUT"]
  <2>1. row \in LeaseRow
    BY <1>2 DEF LeaseRow
  <2>2. row.status = lease[l].status /\ row.version = lease[l].version
        /\ row.renewedFrom = lease[l].renewedFrom /\ row.occupancy = "MOVED_OUT"
        /\ row.moveOut = "COMPLETED" /\ row.checklist = lease[l].checklist
    BY <1>2 DEF LeaseRow
  <2>3. /\ Claim(q, l, row) /\ Reconciled(lease[l], request[q].openKeys)
        /\ EventAdded(l) /\ UNCHANGED <<loans, history>>
    BY <1>2, <1>5 DEF CompleteMoveOut
  <2>4. events' \subseteq Leases
    BY <1>2, <2>3 DEF EventAdded, LeaseInv, LeaseTyped
  <2>5. \A k \in AssetKeys : loans[l][k] # "ISSUED"
    BY <1>2, <2>3 DEF Reconciled, Issued
  <2> HIDE DEF row
  <2>6. Claims(q, l, row, loans[l])
    BY <1>2, <1>3, <2>1, <2>2, <2>3, <2>4 DEF Claims
  <2>7. RowSafe(row, loans[l])
    BY <1>2, <2>2, <2>3, <2>5 DEF RowSafe, Reconciled
  <2> QED BY <2>6, <2>7, ClaimKeeps
<1>6. ASSUME NEW checklist \in Checklists, NEW all \in BOOLEAN, NEW listed \in SUBSET AssetKeys,
             NEW returns \in [listed -> {"RETURNED", "LOST", "DAMAGED"}],
             PatchMoveOut(q, checklist, all, returns)
      PROVE  LeaseInv'
  <2> DEFINE row == [lease[l] EXCEPT !.checklist = checklist]
             keys == KeysAfter(l, all, returns)
  <2>1. row \in LeaseRow
    BY <1>2 DEF LeaseRow
  <2>2. row.status = lease[l].status /\ row.version = lease[l].version
        /\ row.renewedFrom = lease[l].renewedFrom /\ row.occupancy = lease[l].occupancy
        /\ row.moveOut = lease[l].moveOut
    BY <1>2 DEF LeaseRow
  <2>3. /\ Claim(q, l, row) /\ lease[l].moveOut = "IN_PROGRESS"
        /\ loans' = [loans EXCEPT ![l] = keys] /\ UNCHANGED <<history, events>>
    BY <1>6 DEF PatchMoveOut
  <2>4. events' \subseteq Leases
    BY <2>3 DEF LeaseInv, LeaseTyped
  <2>5. keys \in [AssetKeys -> KeyStatuses]
    BY <1>2 DEF KeysAfter, KeyStatuses
  <2> HIDE DEF row, keys
  <2>6. Claims(q, l, row, keys)
    BY <1>2, <2>1, <2>2, <2>3, <2>4, <2>5 DEF Claims
  <2>7. RowSafe(row, keys)
    BY <1>2, <2>2, <2>3 DEF RowSafe
  <2> QED BY <2>6, <2>7, ClaimKeeps
<1> QED BY <1>4, <1>5, <1>6

LEMMA DraftRow ==
  ASSUME LifecycleAssumption, NEW prior \in Leases \cup {Nobody}
  PROVE  /\ Draft(prior) \in LeaseRow /\ Draft(prior).status = "DRAFT"
         /\ Draft(prior).renewedFrom = prior /\ Draft(prior).occupancy = "NOT_MOVED_IN"
         /\ Draft(prior).moveOut = "NONE"
BY DEF Draft, Absent, NoList, LeaseRow, Checklists, Statuses

\* A draft is written over a row nobody can have read.  The prior lease of a renewal
\* gets a version and nothing else.
LEMMA DraftKeeps ==
  ASSUME LifecycleAssumption, LeaseInv, NEW n \in Leases, lease[n] = Absent,
         NEW prior \in Leases \cup {Nobody},
         lease' = [m \in Leases |-> lease'[m]], lease'[n] = Draft(prior),
         \A m \in Leases \ {n} :
           lease'[m] = lease[m] \/ lease'[m] = [lease[m] EXCEPT !.version = @ + 1],
         prior \in Leases => RenewalsOf(prior) = {},
         history' = Recorded(n, "NONE", "DRAFT"), loans' = loans, events' \subseteq Leases,
         \A q \in Requests : request'[q] \in {request[q], NoRead},
         request' \in [Requests -> {NoRead} \cup ReadRow]
  PROVE  LeaseInv'
<1>1. /\ lease'[n] = Draft(prior) /\ lease[n].status = "NONE"
      /\ \A m \in Leases : m # n => lease[m] \in LeaseRow /\ lease'[m] \in LeaseRow
           /\ lease'[m].status = lease[m].status /\ lease'[m].renewedFrom = lease[m].renewedFrom
           /\ lease'[m].occupancy = lease[m].occupancy /\ lease'[m].moveOut = lease[m].moveOut
           /\ lease'[m].checklist = lease[m].checklist
           /\ (lease'[m] = lease[m] \/ lease'[m].version = lease[m].version + 1)
  <2>1. lease[n].status = "NONE" /\ \A m \in Leases : lease[m] \in LeaseRow
    BY DEF LeaseInv, LeaseTyped, Absent
  <2>2. SUFFICES ASSUME NEW m \in Leases, m # n
                 PROVE  /\ lease[m] \in LeaseRow /\ lease'[m] \in LeaseRow
                        /\ lease'[m].status = lease[m].status
                        /\ lease'[m].renewedFrom = lease[m].renewedFrom
                        /\ lease'[m].occupancy = lease[m].occupancy
                        /\ lease'[m].moveOut = lease[m].moveOut
                        /\ lease'[m].checklist = lease[m].checklist
                        /\ (lease'[m] = lease[m] \/ lease'[m].version = lease[m].version + 1)
    BY <2>1
  <2>3. CASE lease'[m] = lease[m]
    BY <2>1, <2>3
  <2>4. CASE lease'[m] = [lease[m] EXCEPT !.version = @ + 1]
    BY <2>1, <2>4, Bumped
  <2> QED BY <2>2, <2>3, <2>4
<1>2. LeaseTyped' /\ Chained'
  <2>1. Chain(history[n], "NONE") /\ history[n] \in Seq(Statuses \X Statuses)
    BY <1>1 DEF LeaseInv, Chained, LeaseTyped
  <2>2. /\ Append(history[n], <<"NONE", "DRAFT">>) \in Seq(Statuses \X Statuses)
        /\ Chain(Append(history[n], <<"NONE", "DRAFT">>), "DRAFT")
    BY <2>1, ChainGrows DEF Statuses
  <2>3. history' = [history EXCEPT ![n] = Append(history[n], <<"NONE", "DRAFT">>)]
    BY DEF Recorded
  <2>4. Chained'
    <3>1. history'[n] = Append(history[n], <<"NONE", "DRAFT">>)
          /\ \A m \in Leases : m # n => history'[m] = history[m]
      BY <2>3 DEF LeaseInv, LeaseTyped
    <3>2. lease'[n].status = "DRAFT"
      BY <1>1, DraftRow
    <3>4. Chain(history'[n], lease'[n].status)
      BY <3>1, <3>2, <2>2
    <3>3. \A m \in Leases : m # n => Chain(history'[m], lease'[m].status)
      BY <3>1, <1>1 DEF LeaseInv, Chained
    <3> QED BY <3>3, <3>4 DEF Chained
  <2>5. lease' \in [Leases -> LeaseRow]
    BY <1>1, DraftRow
  <2> QED BY <2>2, <2>3, <2>4, <2>5 DEF LeaseInv, LeaseTyped
<1>3. ReadOrStale'
  <2> SUFFICES ASSUME NEW p \in Requests, NEW r \in ReadRow, request'[p] = r
               PROVE  UpToDate(r)'
    BY DEF ReadOrStale
  <2>1. r # NoRead
    BY DEF ReadRow, NoRead, LifecycleAssumption
  <2>2. UpToDate(r) /\ r.lease \in Leases /\ r.row \in LeaseRow
    BY <2>1 DEF LeaseInv, ReadOrStale, ReadRow
  <2>3. r.lease # n
    BY <1>1, <2>2 DEF UpToDate
  <2>4. Issued(r.lease)' = Issued(r.lease)
    BY DEF Issued
  <2>5. /\ r.row.version \in Nat /\ lease[r.lease].version \in Nat
        /\ lease'[r.lease] = lease[r.lease] \/ lease'[r.lease].version = lease[r.lease].version + 1
        /\ lease'[r.lease].status # "NONE"
    BY <1>1, <2>2, <2>3 DEF LeaseRow, UpToDate
  <2> QED BY <2>2, <2>4, <2>5 DEF UpToDate
<1>4. RowsSafe'
  <2> SUFFICES ASSUME NEW m \in Leases PROVE RowSafe(lease'[m], loans'[m])
    BY DEF RowsSafe
  <2>1. CASE m = n
    BY <2>1, <1>1, DraftRow DEF RowSafe
  <2>2. CASE m # n
    BY <2>2, <1>1 DEF LeaseInv, RowsSafe, RowSafe
  <2> QED BY <2>1, <2>2
<1>5. OneSuccessor'
  <2> SUFFICES ASSUME NEW l \in Leases, NEW a \in Leases, NEW b \in Leases,
                      lease'[a].renewedFrom = l, lease'[a].status \in Alive,
                      lease'[b].renewedFrom = l, lease'[b].status \in Alive
               PROVE  a = b
    BY DEF OneSuccessor
  <2>1. CASE a # n /\ b # n
    BY <2>1, <1>1 DEF LeaseInv, OneSuccessor
  <2>2. ASSUME NEW c \in Leases, c # n, lease'[c].renewedFrom = l, lease'[c].status \in Alive,
               lease'[n].renewedFrom = l
        PROVE  FALSE
    <3>1. c \in RenewalsOf(l)
      BY <2>2, <1>1 DEF RenewalsOf, Alive
    <3>2. prior = l
      BY <2>2, <1>1, DraftRow
    <3> QED BY <3>1, <3>2
  <2> QED BY <2>1, <2>2
<1> QED BY <1>2, <1>3, <1>4, <1>5 DEF LeaseInv

LEMMA CreateKeeps ==
  ASSUME LifecycleAssumption, LeaseInv, NEW n \in Leases, CreateLease(n)
  PROVE  LeaseInv'
<1>1. /\ lease' = [m \in Leases |-> lease'[m]] /\ lease'[n] = Draft(Nobody)
      /\ \A m \in Leases \ {n} : lease'[m] = lease[m]
  BY DEF CreateLease, LeaseInv, LeaseTyped
<1>2. /\ history' = Recorded(n, "NONE", "DRAFT") /\ lease[n] = Absent
      /\ loans' = loans /\ events' = events /\ request' = request
  BY DEF CreateLease
<1>3. events' \subseteq Leases /\ request' \in [Requests -> {NoRead} \cup ReadRow]
  BY <1>2 DEF LeaseInv, LeaseTyped
<1>4. Nobody \notin Leases
  BY DEF LifecycleAssumption
<1> QED BY <1>1, <1>2, <1>3, <1>4, DraftKeeps

LEMMA RenewKeeps ==
  ASSUME LifecycleAssumption, LeaseInv, NEW q \in Requests, NEW n \in Leases, Renew(q, n)
  PROVE  LeaseInv'
<1> PICK l : l = request[q].lease
  OBVIOUS
<1>1. Claimable(q, Current)
  BY DEF Renew
<1>2. l \in Leases /\ lease[l].status \in Current /\ lease[l] \in LeaseRow
  BY <1>1, ClaimProvesRead
<1>3. /\ lease[n] = Absent /\ RenewalsOf(l) = {} /\ history' = Recorded(n, "NONE", "DRAFT")
      /\ lease' = [lease EXCEPT ![l].version = @ + 1, ![n] = Draft(l)]
      /\ loans' = loans /\ request' = [request EXCEPT ![q] = NoRead] /\ EventAdded(l)
  BY DEF Renew
<1>4. l # n
  BY <1>2, <1>3 DEF Absent, Current
<1>5. /\ lease' = [m \in Leases |-> lease'[m]] /\ lease'[n] = Draft(l)
      /\ \A m \in Leases \ {n} :
           lease'[m] = lease[m] \/ lease'[m] = [lease[m] EXCEPT !.version = @ + 1]
  BY <1>2, <1>3, <1>4 DEF LeaseInv, LeaseTyped
<1>6. events' \subseteq Leases /\ request' \in [Requests -> {NoRead} \cup ReadRow]
      /\ \A p \in Requests : request'[p] \in {request[p], NoRead}
  BY <1>2, <1>3 DEF LeaseInv, LeaseTyped, EventAdded
<1> QED BY <1>2, <1>3, <1>4, <1>5, <1>6, DraftKeeps

\* Reads and refusals write nothing.
LEMMA ReadKeeps ==
  ASSUME LifecycleAssumption, LeaseInv, NEW q \in Requests,
         GiveUp(q) \/ (\E l \in Leases : Read(q, l)) \/ UNCHANGED lifeVars
  PROVE  LeaseInv'
<1>1. UNCHANGED <<lease, loans, history, events>>
  BY DEF GiveUp, Read, lifeVars
<1>2. RowsSafe' /\ OneSuccessor' /\ Chained'
  BY <1>1 DEF LeaseInv, RowsSafe, OneSuccessor, Chained
<1>3. \A r \in ReadRow : UpToDate(r)' <=> UpToDate(r)
  BY <1>1 DEF UpToDate, Issued
<1>4. /\ request' \in [Requests -> {NoRead} \cup ReadRow]
      /\ ReadOrStale'
  <2>1. CASE GiveUp(q) \/ UNCHANGED lifeVars
    <3>1. \A p \in Requests : request'[p] \in {request[p], NoRead}
      BY <2>1 DEF GiveUp, lifeVars, LeaseInv, LeaseTyped
    <3>2. NoRead \notin ReadRow
      BY DEF NoRead, ReadRow, LifecycleAssumption
    <3>3. request' \in [Requests -> {NoRead} \cup ReadRow]
      BY <2>1 DEF GiveUp, lifeVars, LeaseInv, LeaseTyped
    <3> QED BY <3>1, <3>2, <3>3, <1>3 DEF LeaseInv, ReadOrStale
  <2>2. ASSUME NEW l \in Leases, Read(q, l)
        PROVE  request' \in [Requests -> {NoRead} \cup ReadRow] /\ ReadOrStale'
    <3> DEFINE new == [lease |-> l, row |-> lease[l], openKeys |-> Issued(l) # {}]
    <3>1. /\ new \in ReadRow /\ request' = [request EXCEPT ![q] = new]
          /\ lease[l].version \in Nat /\ lease[l].status # "NONE"
      BY <2>2 DEF Read, LeaseInv, LeaseTyped, ReadRow, LeaseRow
    <3>2. UpToDate(new)
      <4>1. new.lease = l /\ new.row = lease[l] /\ (new.openKeys <=> Issued(l) # {})
        OBVIOUS
      <4> HIDE DEF new
      <4> QED BY <3>1, <4>1 DEF UpToDate
    <3> HIDE DEF new
    <3> QED BY <3>1, <3>2, <1>3 DEF LeaseInv, LeaseTyped, ReadOrStale
  <2> QED BY <2>1, <2>2
<1>5. LeaseTyped'
  BY <1>1, <1>4 DEF LeaseInv, LeaseTyped
<1> QED BY <1>2, <1>4, <1>5 DEF LeaseInv

LEMMA LifeStep == LifecycleAssumption /\ LeaseInv /\ [LifeNext]_lifeVars => LeaseInv'
<1> SUFFICES ASSUME LifecycleAssumption, LeaseInv, [LifeNext]_lifeVars PROVE LeaseInv'
  OBVIOUS
<1>1. ASSUME NEW l \in Leases, CreateLease(l) PROVE LeaseInv'
  BY <1>1, CreateKeeps
<1>2. ASSUME NEW q \in Requests, NEW l \in Leases, Read(q, l) \/ Renew(q, l) PROVE LeaseInv'
  BY <1>2, ReadKeeps, RenewKeeps
<1>3. ASSUME NEW q \in Requests,
             GiveUp(q) \/ Amend(q) \/ ActivateLease(q) \/ Transfer(q) \/ RecordNotice(q) \/ Terminate(q)
      PROVE  LeaseInv'
  BY <1>3, ReadKeeps, AmendKeeps, StatusKeeps
<1>4. ASSUME NEW q \in Requests, NEW issued \in SUBSET AssetKeys, MoveIn(q, issued) PROVE LeaseInv'
  BY <1>4, MoveInKeeps
<1>5. ASSUME NEW q \in Requests,
             \/ StartMoveOut(q) \/ CompleteMoveOut(q)
             \/ \E checklist \in Checklists, all \in BOOLEAN, listed \in SUBSET AssetKeys :
                  \E returns \in [listed -> {"RETURNED", "LOST", "DAMAGED"}] :
                    PatchMoveOut(q, checklist, all, returns)
      PROVE  LeaseInv'
  BY <1>5, CheckoutKeeps
<1>6. CASE UNCHANGED lifeVars
  BY <1>6 DEF lifeVars, LeaseInv, LeaseTyped, ReadOrStale, UpToDate, Issued, RowsSafe,
     OneSuccessor, Chained
<1> QED BY <1>1, <1>2, <1>3, <1>4, <1>5, <1>6 DEF LifeNext

\* LeasesSafe for any number of leases, keys, items and requests: whatever the
\* operations decided from stale reads, the version in the claim kept a lease with
\* a resident in it in force, its keys and its checklist accounted for at the
\* move-out, its renewals single and its history a chain.
THEOREM LeasesStaySafe == LifeSpec => []LeasesSafe
<1>1. LeaseInv => LeasesSafe
  <2> SUFFICES ASSUME LeaseInv PROVE LeasesSafe
    OBVIOUS
  <2>1. OccupiedInForce
    BY DEF LeaseInv, RowsSafe, RowSafe, OccupiedInForce
  <2>2. MovedOutReconciled
    BY DEF LeaseInv, RowsSafe, RowSafe, MovedOutReconciled
  <2>3. OneLiveRenewal
    <3> SUFFICES ASSUME NEW l \in Leases
                 PROVE  Cardinality({m \in Leases : lease[m].renewedFrom = l
                          /\ lease[m].status \in {"DRAFT", "ACTIVE", "NOTICE"}}) <= 1
      BY DEF OneLiveRenewal
    <3> DEFINE S == {m \in Leases : lease[m].renewedFrom = l
                          /\ lease[m].status \in {"DRAFT", "ACTIVE", "NOTICE"}}
    <3>1. \A x, y \in S : x = y
      BY DEF LeaseInv, OneSuccessor, Alive, Current
    <3> HIDE DEF S
    <3>2. Cardinality(S) <= 1
      BY <3>1, AtMostOneMember
    <3> QED BY <3>2 DEF S
  <2>4. HistoryChains
    BY DEF LeaseInv, Chained, Chain, HistoryChains
  <2> QED BY <2>1, <2>2, <2>3, <2>4 DEF LeasesSafe
<1> QED BY <1>1, StartsSafe, LifeStep, LifecycleAssumption, PTL DEF LifeSpec

\* Rows fit their tables, for any number of leases and requests.
THEOREM LeasesTyped == LifeSpec => []LifeTypeOK
<1>1. LeaseInv => LifeTypeOK
  BY DEF LeaseInv, LeaseTyped, LifeTypeOK, ReadRow
<1> QED BY <1>1, StartsSafe, LifeStep, LifecycleAssumption, PTL DEF LifeSpec

-----------------------------------------------------------------------------
(***************************************************************************)
(* Residents.                                                              *)
(*                                                                         *)
(* For any number of persons, flags, draft leases and calls at a desk.     *)
(***************************************************************************)

FlagRow == [status : {"NONE", "ACTIVE", "CLEARED"}, of : SUBSET Persons]

\* A call between its screening and its claim knows flags that do not stand against
\* the lease, and will not again: a flag that is cleared, or somebody else's, stays so.
DeskFits(r) ==
  r.op = "activate" /\ r.at = "claim" =>
    \A l \in Drafts : r.on = {l} =>
      \A f \in Flags : f \in r.saw[2] => flag[f] # NoFlag /\ f \notin ActiveFlags(Parties[l])

DesksFit == \A d \in Desks : DeskFits(desk[d])

CallRow(r) ==
  r = [field \in DOMAIN r |-> r[field]] /\ {"op", "at", "by", "on", "saw"} \subseteq DOMAIN r

FlagsTyped ==
  /\ flag \in [Flags -> FlagRow]
  /\ desk = [d \in Desks |-> desk[d]]
  /\ \A d \in Desks : CallRow(desk[d])

ResidentInv == FlagsTyped /\ DesksFit

\* What a flag that has been raised can still become.
FlagsAge ==
  /\ flag' \in [Flags -> FlagRow]
  /\ \A f \in Flags : flag[f] # NoFlag =>
       /\ flag'[f] # NoFlag /\ flag'[f].of = flag[f].of
       /\ flag'[f].status = "ACTIVE" => flag[f].status = "ACTIVE"

-----------------------------------------------------------------------------
LEMMA ResidentsStart == ResidentInit => ResidentInv
<1> SUFFICES ASSUME ResidentInit PROVE ResidentInv
  OBVIOUS
<1>1. FlagsTyped
  BY DEF ResidentInit, FlagsTyped, FlagRow, NoFlag, Vacant, CallRow
<1>2. DesksFit
  BY DEF ResidentInit, DesksFit, DeskFits, Vacant
<1> QED BY <1>1, <1>2 DEF ResidentInv

\* What a call has screened stays so, whatever becomes of the flags.
LEMMA ScreenedStays ==
  ASSUME ResidentInv, FlagsAge, NEW r, DeskFits(r)
  PROVE  DeskFits(r)'
BY DEF ResidentInv, FlagsTyped, FlagsAge, DeskFits, ActiveFlags, FlagRow

LEMMA DeskMoves ==
  ASSUME ResidentInv, FlagsAge, NEW d \in Desks, NEW step, desk' = [desk EXCEPT ![d] = step],
         CallRow(step),
         DeskFits(step)'
  PROVE  ResidentInv'
<1>1. desk'[d] = step /\ (\A e \in Desks : e # d => desk'[e] = desk[e])
      /\ desk' = [e \in Desks |-> desk'[e]]
  BY DEF ResidentInv, FlagsTyped
<1>2. FlagsTyped'
  BY <1>1 DEF ResidentInv, FlagsTyped, FlagsAge
<1>3. ASSUME NEW e \in Desks PROVE DeskFits(desk[e])'
  <2> PICK r : r = desk'[e]
    OBVIOUS
  <2>1. DeskFits(r)'
    BY <1>1, ScreenedStays DEF ResidentInv, DesksFit
  <2> QED BY <2>1 DEF DeskFits
<1> QED BY <1>2, <1>3 DEF ResidentInv, DesksFit

\* A call that does not come out of a screening.
LEMMA DeskElsewhere ==
  ASSUME ResidentInv, FlagsAge, NEW d \in Desks, NEW step, desk' = [desk EXCEPT ![d] = step],
         CallRow(step),
         step.at # "claim"
  PROVE  ResidentInv'
<1>1. DeskFits(step)'
  BY DEF DeskFits
<1> QED BY <1>1, DeskMoves

LEMMA CallsKeep ==
  ASSUME ResidentInv, FlagsAge, NEW d \in Desks,
         \/ HangUp(d)
         \/ \E op, at, s, x, saw : at # "claim" /\ CallAt(d, op, at, s, x, saw)
         \/ \E at, saw : at # "claim" /\ OnStep(d, at, saw)
         \/ desk' = [desk EXCEPT ![d] = [Vacant EXCEPT !.op = "join", !.at = "done"]]
  PROVE  ResidentInv'
<1> PICK r : r = desk[d]
  OBVIOUS
<1>0. CallRow(r)
  BY DEF ResidentInv, FlagsTyped
<1>1. CASE HangUp(d)
  <2> DEFINE step == [r EXCEPT !.at = "done", !.saw = {}]
  <2>1. desk' = [desk EXCEPT ![d] = step]
    BY <1>1 DEF HangUp
  <2>2. CallRow(step) /\ step.at = "done"
    BY <1>0 DEF CallRow
  <2> HIDE DEF step
  <2> QED BY <2>1, <2>2, DeskElsewhere
<1>2. ASSUME NEW op, NEW at, NEW s, NEW x, NEW saw, at # "claim", CallAt(d, op, at, s, x, saw)
      PROVE  ResidentInv'
  <2> DEFINE step == [op |-> op, at |-> at, by |-> {s}, on |-> {x}, saw |-> saw]
  <2>1. desk' = [desk EXCEPT ![d] = step]
    BY <1>2 DEF CallAt
  <2>2. CallRow(step) /\ step.at # "claim"
    BY <1>2 DEF CallRow
  <2> HIDE DEF step
  <2> QED BY <2>1, <2>2, DeskElsewhere
<1>3. ASSUME NEW at, NEW saw, at # "claim", OnStep(d, at, saw) PROVE ResidentInv'
  <2> DEFINE step == [r EXCEPT !.at = at, !.saw = saw]
  <2>1. desk' = [desk EXCEPT ![d] = step]
    BY <1>3 DEF OnStep, ResidentInv, FlagsTyped
  <2>2. CallRow(step) /\ step.at # "claim"
    BY <1>0, <1>3 DEF CallRow
  <2> HIDE DEF step
  <2> QED BY <2>1, <2>2, DeskElsewhere
<1>4. CASE desk' = [desk EXCEPT ![d] = [Vacant EXCEPT !.op = "join", !.at = "done"]]
  <2> DEFINE step == [Vacant EXCEPT !.op = "join", !.at = "done"]
  <2>1. CallRow(step) /\ step.at # "claim"
    BY DEF CallRow, Vacant
  <2> HIDE DEF step
  <2> QED BY <1>4, <2>1, DeskElsewhere DEF step
<1> QED BY <1>1, <1>2, <1>3, <1>4

LEMMA FlagsUnchanged == ASSUME ResidentInv, UNCHANGED flag PROVE FlagsAge
BY DEF FlagsAge, ResidentInv, FlagsTyped

LEMMA ProfileStepKeeps ==
  ASSUME ResidentInv, NEW d \in Desks, NEW p \in Persons, ProfileStep(d, p)
  PROVE  ResidentInv'
<1>1. UNCHANGED flag
  BY DEF ProfileStep, CreateResident, InsertResident, PatchResident, UpdateResident,
     ArchiveResident,
         MarkArchived
<1>2. HangUp(d) \/ \E op, at, s, x, saw : at # "claim" /\ CallAt(d, op, at, s, x, saw)
  BY DEF ProfileStep, CreateResident, InsertResident, PatchResident, UpdateResident,
     ArchiveResident,
         MarkArchived
<1> QED BY <1>1, <1>2, FlagsUnchanged, CallsKeep

\* Clearing leaves a flag what it was, but for its status.
LEMMA ClearedAge ==
  ASSUME ResidentInv, NEW fs
  PROVE  /\ Cleared(fs) \in [Flags -> FlagRow]
         /\ \A f \in Flags : /\ Cleared(fs)[f].of = flag[f].of
                             /\ Cleared(fs)[f].status \in {flag[f].status, "CLEARED"}
<1>1. \A f \in Flags : flag[f] \in FlagRow
  BY DEF ResidentInv, FlagsTyped
<1>2. \A f \in Flags : /\ [flag[f] EXCEPT !.status = "CLEARED"] \in FlagRow
                       /\ [flag[f] EXCEPT !.status = "CLEARED"].of = flag[f].of
                       /\ [flag[f] EXCEPT !.status = "CLEARED"].status = "CLEARED"
  BY <1>1 DEF FlagRow
<1> QED BY <1>1, <1>2 DEF Cleared

LEMMA FlagStepKeeps ==
  ASSUME ResidentInv, NEW d \in Desks, NEW p \in Persons, FlagStep(d, p)
  PROVE  ResidentInv'
<1>1. CASE \E s \in Staff, op \in {"set", "clear"} : DoNotRent(d, op, s, p)
  BY <1>1, FlagsUnchanged, CallsKeep DEF DoNotRent
<1>2. CASE SeeFlags(d, p)
  BY <1>2, FlagsUnchanged, CallsKeep DEF SeeFlags
<1>3. CASE SupersedeFlags(d, p)
  BY <1>3, FlagsUnchanged, CallsKeep DEF SupersedeFlags
<1>4. ASSUME NEW f \in Flags, RaiseFlag(d, p, f) PROVE ResidentInv'
  <2> PICK table : table = Cleared(desk[d].saw)
    OBVIOUS
  <2>1. /\ table \in [Flags -> FlagRow] /\ flag[f] = NoFlag
        /\ \A g \in Flags : table[g].of = flag[g].of /\ table[g].status \in {flag[g].status, "CLEARED"}
        /\ flag' = [table EXCEPT ![f] = [status |-> "ACTIVE", of |-> {p}]]
    BY <1>4, ClearedAge DEF RaiseFlag
  <2>2. flag' \in [Flags -> FlagRow] /\ \A g \in Flags : g # f => flag'[g] = table[g]
    BY <2>1 DEF FlagRow
  <2>3. FlagsAge
    BY <2>1, <2>2 DEF FlagsAge, NoFlag, FlagRow, ResidentInv, FlagsTyped
  <2> QED BY <1>4, <2>3, CallsKeep DEF RaiseFlag
<1>5. CASE ClearFlags(d, p)
  <2>1. FlagsAge
    BY <1>5, ClearedAge DEF ClearFlags, FlagsAge, NoFlag, FlagRow, ResidentInv, FlagsTyped
  <2> QED BY <1>5, <2>1, CallsKeep DEF ClearFlags
<1> QED BY <1>1, <1>2, <1>3, <1>4, <1>5 DEF FlagStep

\* The second look: without an override, no flag stands that exists.
LEMMA ScreenKeeps ==
  ASSUME ResidentInv, NEW d \in Desks, NEW l \in Drafts, Screen(d, l)
  PROVE  ResidentInv'
<1> PICK r : r = desk[d]
  OBVIOUS
<1>1. /\ FlagsAge /\ r.on = {l} /\ r.op \in {"activate", "override"}
      /\ CallRow(r)
  BY FlagsUnchanged DEF Screen, Activating, Doing, ResidentInv, FlagsTyped
<1>2. CASE HangUp(d)
  BY <1>1, <1>2, CallsKeep
<1>3. CASE /\ Screened(d, l)
           /\ OnStep(d, "claim", <<desk[d].saw, {f \in Flags : flag[f] # NoFlag}>>)
  <2> PICK seen : seen = {f \in Flags : flag[f] # NoFlag}
    OBVIOUS
  <2> DEFINE step == [r EXCEPT !.at = "claim", !.saw = <<r.saw, seen>>]
  <2>1. desk' = [desk EXCEPT ![d] = step]
    BY <1>1, <1>3 DEF OnStep, ResidentInv, FlagsTyped
  <2>2. step.saw[2] = seen /\ step.on = {l} /\ step.op = r.op /\ CallRow(step)
    BY <1>1 DEF CallRow
  <2> HIDE DEF step
  <2>3. DeskFits(step)
    BY <1>3, <2>2 DEF DeskFits, Screened
  <2>4. DeskFits(step)'
    BY <1>1, <2>3, ScreenedStays
  <2> QED BY <1>1, <2>1, <2>2, <2>4, DeskMoves
<1> QED BY <1>2, <1>3 DEF Screen

LEMMA LeaseStepKeeps ==
  ASSUME ResidentInv, NEW d \in Desks, NEW l \in Drafts, LeaseStep(d, l)
  PROVE  ResidentInv'
<1>1. CASE EditDraft(l)
  <2>1. UNCHANGED <<flag, desk>>
    BY <1>1 DEF EditDraft
  <2> QED BY <2>1 DEF ResidentInv, FlagsTyped, DesksFit, DeskFits, ActiveFlags
<1>2. CASE \E s \in Staff, override \in BOOLEAN : ActivateDraft(d, s, l, override)
  BY <1>2, FlagsUnchanged, CallsKeep DEF ActivateDraft
<1>3. CASE ClaimDraft(d, l)
  BY <1>3, FlagsUnchanged, CallsKeep DEF ClaimDraft
<1> QED BY <1>1, <1>2, <1>3, ScreenKeeps DEF LeaseStep

LEMMA EntryStepKeeps ==
  ASSUME ResidentInv, NEW d \in Desks, NEW e \in Entries, EntryStep(d, e)
  PROVE  ResidentInv'
<1>1. UNCHANGED flag
  BY DEF EntryStep, CreateEntry, PatchEntry, UpdateEntry, RemoveEntry, MarkRemoved
<1>2. \/ HangUp(d)
      \/ \E op, at, s, x, saw : at # "claim" /\ CallAt(d, op, at, s, x, saw)
      \/ desk' = [desk EXCEPT ![d] = [Vacant EXCEPT !.op = "join", !.at = "done"]]
  BY DEF EntryStep, CreateEntry, PatchEntry, UpdateEntry, RemoveEntry, MarkRemoved
<1> QED BY <1>1, <1>2, FlagsUnchanged, CallsKeep

LEMMA ResidentStep == ResidentInv /\ [ResidentNext]_residentVars => ResidentInv'
<1>1. ASSUME ResidentInv, UNCHANGED residentVars PROVE ResidentInv'
  BY <1>1 DEF residentVars, ResidentInv, FlagsTyped, DesksFit, DeskFits, ActiveFlags
<1> QED BY <1>1, ProfileStepKeeps, FlagStepKeeps, LeaseStepKeeps, EntryStepKeeps DEF ResidentNext

\* A claim finds no flag against the lease among those it knows.
LEMMA ClaimsAreScreened ==
  ASSUME ResidentInv, NEW l \in Drafts, NEW d \in Desks, Doing(d, "activate", "claim", l)
  PROVE  ActiveFlags(Parties[l]) \cap desk[d].saw[2] = {}
BY DEF ResidentInv, DesksFit, DeskFits, Doing, ActiveFlags

\* FlagsSeenBlock for any persons, flags and calls: no lease is activated without an
\* override over a flag against one of its parties that the activation's transaction
\* has read, whatever is raised and cleared between its first look and its claim.
THEOREM FlaggedAreStopped == ResidentSpec => FlagsSeenBlock
<1>1. ResidentInv /\ [ResidentNext]_residentVars
        => [\A l \in Drafts, d \in Desks :
              (draft[l] # draft'[l] /\ Doing(d, "activate", "claim", l) /\ desk'[d].at = "done")
                => ActiveFlags(Parties[l]) \cap desk[d].saw[2] = {}]_residentVars
  BY ClaimsAreScreened
<1> QED BY <1>1, ResidentsStart, ResidentStep, PTL DEF ResidentSpec, FlagsSeenBlock

-----------------------------------------------------------------------------
(***************************************************************************)
(* Documents.                                                              *)
(*                                                                         *)
(* For any number of documents, links and uploads.                         *)
(***************************************************************************)

DocumentRow == [status : {"NONE", "UPLOADING", "READY", "DELETED"}, deleted : BOOLEAN, hold : BOOLEAN,
                scan : {"NONE", "UPLOADING", "READY"}]

\* A document that is ready was scanned and its bytes are there.
ReadyIsWhole ==
  \A d \in Documents : document[d].status = "READY" => document[d].scan = "READY" /\ object[d] = "whole"

\* A completion about to write has seen the bytes; none is in the middle of a put.
UploadFits(r) ==
  /\ r.op \in {"closed", "put", "get", "complete", "link", "delete"}
  /\ r.op # "closed" => r.document \in Documents
  /\ r.op = "complete" => object[r.document] = "whole"
  /\ r.op = "link" => r.target \in Targets

UploadsFit == \A u \in Uploads : UploadFits(upload[u])

DocumentsTyped ==
  /\ document \in [Documents -> DocumentRow]
  /\ object \in [Documents -> {"missing", "partial", "whole"}]
  /\ \A row \in links : row[2] \in Targets
  /\ upload = [u \in Uploads |-> upload[u]]

DocumentInv == DocumentsTyped /\ ReadyIsWhole /\ UploadsFit

\* Bytes that are there stay there.
WholeStays == \A d \in Documents : object[d] = "whole" => object'[d] = "whole"

-----------------------------------------------------------------------------
LEMMA DocumentsStart == DocumentInit => DocumentInv
<1> SUFFICES ASSUME DocumentInit PROVE DocumentInv
  OBVIOUS
<1>1. NoDocument \in DocumentRow /\ NoDocument.status = "NONE"
  BY DEF NoDocument, DocumentRow
<1>2. DocumentsTyped /\ ReadyIsWhole
  BY <1>1 DEF DocumentInit, DocumentsTyped, ReadyIsWhole
<1>3. UploadsFit
  BY DEF DocumentInit, UploadsFit, UploadFits, NoUpload
<1> QED BY <1>2, <1>3 DEF DocumentInv

\* A call that moves on, while bytes only come.
LEMMA UploadMoves ==
  ASSUME DocumentInv, WholeStays, NEW u \in Uploads, NEW step,
         upload' = [upload EXCEPT ![u] = step], UploadFits(step)'
  PROVE  UploadsFit' /\ upload' = [v \in Uploads |-> upload'[v]]
<1>1. upload'[u] = step /\ (\A v \in Uploads : v # u => upload'[v] = upload[v])
      /\ upload' = [v \in Uploads |-> upload'[v]]
  BY DEF DocumentInv, DocumentsTyped
<1>2. ASSUME NEW v \in Uploads PROVE UploadFits(upload[v])'
  <2> PICK r : r = upload[v]
    OBVIOUS
  <2>1. CASE v = u
    BY <2>1, <1>1 DEF UploadFits
  <2>2. CASE v # u
    <3>1. UploadFits(r) /\ upload'[v] = r
      BY <2>2, <1>1 DEF DocumentInv, UploadsFit
    <3>2. UploadFits(r)'
      BY <3>1 DEF UploadFits, WholeStays
    <3> QED BY <3>1, <3>2 DEF UploadFits
  <2> QED BY <2>1, <2>2
<1> QED BY <1>1, <1>2 DEF UploadsFit

\* A call that only moves on, or leaves.
LEMMA UploadReads ==
  ASSUME DocumentInv, NEW u \in Uploads, NEW step, upload' = [upload EXCEPT ![u] = step],
         UploadFits(step), UNCHANGED <<document, object, links>>
  PROVE  DocumentInv'
<1>1. WholeStays /\ UploadFits(step)'
  BY DEF WholeStays, UploadFits
<1>2. UploadsFit' /\ upload' = [v \in Uploads |-> upload'[v]]
  BY <1>1, UploadMoves
<1>3. DocumentsTyped' /\ ReadyIsWhole'
  BY <1>2 DEF DocumentInv, DocumentsTyped, ReadyIsWhole
<1> QED BY <1>2, <1>3 DEF DocumentInv

LEMMA UploadCloses ==
  ASSUME DocumentInv, NEW u \in Uploads, Closes(u), UNCHANGED <<document, object, links>>
  PROVE  DocumentInv'
<1>1. UploadFits(NoUpload)
  BY DEF UploadFits, NoUpload
<1> QED BY <1>1, UploadReads DEF Closes

\* One row of documents changes, to a ready one only when its bytes are there.
LEMMA DocumentChanges ==
  ASSUME DocumentInv, NEW d \in Documents, NEW row \in DocumentRow,
         document' = [document EXCEPT ![d] = row], WholeStays,
         object' \in [Documents -> {"missing", "partial", "whole"}],
         row.status = "READY" => row.scan = "READY" /\ object'[d] = "whole",
         \A link \in links' : link[2] \in Targets,
         UploadsFit', upload' = [u \in Uploads |-> upload'[u]]
  PROVE  DocumentInv'
<1>1. document'[d] = row /\ \A e \in Documents : e # d => document'[e] = document[e]
  BY DEF DocumentInv, DocumentsTyped
<1>2. DocumentsTyped' /\ ReadyIsWhole'
  BY <1>1 DEF DocumentInv, DocumentsTyped, ReadyIsWhole, WholeStays
<1> QED BY <1>2 DEF DocumentInv

LEMMA IntentKeeps ==
  ASSUME DocumentInv, NEW d \in Documents, NEW withBytes \in BOOLEAN, NEW targets \in SUBSET Targets,
         CreateUploadIntent(d, withBytes, targets)
  PROVE  DocumentInv'
<1> DEFINE row == [NoDocument EXCEPT !.status = "UPLOADING", !.scan = "UPLOADING"]
<1>1. row \in DocumentRow /\ row.status = "UPLOADING"
  BY DEF NoDocument, DocumentRow
<1>2. document' = [document EXCEPT ![d] = row]
  BY DEF CreateUploadIntent, DocumentInv, DocumentsTyped
<1>3. WholeStays /\ object' \in [Documents -> {"missing", "partial", "whole"}]
  BY DEF WholeStays, CreateUploadIntent, DocumentInv, DocumentsTyped
<1>4. \A link \in links' : link[2] \in Targets
  BY DEF CreateUploadIntent, DocumentInv, DocumentsTyped
<1>5. UploadsFit' /\ upload' = [u \in Uploads |-> upload'[u]]
  <2>1. UNCHANGED upload
    BY DEF CreateUploadIntent
  <2>2. ASSUME NEW u \in Uploads PROVE UploadFits(upload[u])'
    <3> PICK r : r = upload[u]
      OBVIOUS
    <3>1. UploadFits(r)'
      BY <1>3 DEF UploadFits, WholeStays, DocumentInv, UploadsFit
    <3> QED BY <2>1, <3>1 DEF UploadFits
  <2> QED BY <2>1, <2>2 DEF UploadsFit, DocumentInv, DocumentsTyped
<1> HIDE DEF row
<1> QED BY <1>1, <1>2, <1>3, <1>4, <1>5, DocumentChanges

\* The local store could truncate bytes that another completion has verified.
LEMMA PutKeeps ==
  ASSUME DocumentInv, AtomicPut, NEW u \in Uploads, CompletePut(u)
  PROVE  DocumentInv'
<1> PICK r : r = upload[u]
  OBVIOUS
<1> PICK d : d = r.document
  OBVIOUS
<1> PICK step : step = [r EXCEPT !.op = "get"]
  OBVIOUS
<1>1. /\ r.op = "put" /\ d \in Documents
      /\ object' = [object EXCEPT ![d] = "whole"] /\ UNCHANGED <<document, links>>
      /\ upload' = [upload EXCEPT ![u].op = "get"]
  BY DEF CompletePut, DocumentInv, UploadsFit, UploadFits
<1>2. WholeStays /\ object' \in [Documents -> {"missing", "partial", "whole"}]
  BY <1>1 DEF WholeStays, DocumentInv, DocumentsTyped
<1>3. upload' = [upload EXCEPT ![u] = step]
  BY <1>1 DEF DocumentInv, DocumentsTyped
<1>4. UploadFits(step)'
  BY <1>1 DEF UploadFits
<1>5. UploadsFit' /\ upload' = [v \in Uploads |-> upload'[v]]
  BY <1>2, <1>3, <1>4, UploadMoves
<1>6. DocumentsTyped' /\ ReadyIsWhole'
  BY <1>1, <1>2, <1>5 DEF DocumentInv, DocumentsTyped, ReadyIsWhole, WholeStays
<1> QED BY <1>5, <1>6 DEF DocumentInv

\* A write by id, whatever has become of the row: the columns it sets are enough.
LEMMA DocumentWriteKeeps ==
  ASSUME DocumentInv, NEW u \in Uploads, CompleteWrite(u) \/ DeleteWrite(u)
  PROVE  DocumentInv'
<1> PICK r : r = upload[u]
  OBVIOUS
<1> PICK d : d = r.document
  OBVIOUS
<1>1. UploadFits(NoUpload)' /\ WholeStays
  BY DEF UploadFits, NoUpload, WholeStays, CompleteWrite, DeleteWrite
<1>2. UploadsFit' /\ upload' = [v \in Uploads |-> upload'[v]]
  BY <1>1, UploadMoves DEF CompleteWrite, DeleteWrite, Closes
<1>3. UNCHANGED <<object, links>> /\ d \in Documents /\ document[d] \in DocumentRow
  BY DEF CompleteWrite, DeleteWrite, DocumentInv, UploadsFit, UploadFits, DocumentsTyped
<1>4. CASE CompleteWrite(u)
  <2> DEFINE row == [document[d] EXCEPT !.status = "READY", !.scan = "READY"]
  <2>1. document' = [document EXCEPT ![d] = row] /\ object[d] = "whole"
    BY <1>3, <1>4 DEF CompleteWrite, DocumentInv, DocumentsTyped, UploadsFit, UploadFits
  <2>2. row \in DocumentRow /\ row.scan = "READY"
    BY <1>3 DEF DocumentRow
  <2> HIDE DEF row
  <2> QED BY <1>1, <1>2, <1>3, <2>1, <2>2, DocumentChanges DEF DocumentInv, DocumentsTyped
<1>5. CASE DeleteWrite(u)
  <2> DEFINE row == [document[d] EXCEPT !.status = "DELETED", !.deleted = TRUE]
  <2>1. document' = [document EXCEPT ![d] = row]
    BY <1>3, <1>5 DEF DeleteWrite, DocumentInv, DocumentsTyped
  <2>2. row \in DocumentRow /\ row.status # "READY"
    BY <1>3 DEF DocumentRow
  <2> HIDE DEF row
  <2> QED BY <1>1, <1>2, <1>3, <2>1, <2>2, DocumentChanges DEF DocumentInv, DocumentsTyped
<1> QED BY <1>4, <1>5

LEMMA HoldKeeps ==
  ASSUME DocumentInv, NEW d \in Documents, ChangeHold(d)
  PROVE  DocumentInv'
<1> DEFINE row == [document[d] EXCEPT !.hold = ~@]
<1>1. document' = [document EXCEPT ![d] = row] /\ UNCHANGED <<object, links, upload>>
  BY DEF ChangeHold, DocumentInv, DocumentsTyped
<1>2. row \in DocumentRow /\ row.status = document[d].status /\ row.scan = document[d].scan
  BY DEF DocumentRow, DocumentInv, DocumentsTyped
<1>3. WholeStays /\ UploadsFit' /\ upload' = [u \in Uploads |-> upload'[u]]
  BY <1>1 DEF WholeStays, UploadsFit, UploadFits, DocumentInv, DocumentsTyped
<1> HIDE DEF row
<1> QED BY <1>1, <1>2, <1>3, DocumentChanges DEF DocumentInv, DocumentsTyped, ReadyIsWhole

LEMMA UploadReadsKeep ==
  ASSUME DocumentInv, NEW u \in Uploads,
         \/ CompleteGet(u) \/ LeaveUpload(u) \/ LinkWrite(u)
         \/ \E d \in Documents :
              \/ DeleteRead(u, d)
              \/ \E withBytes \in BOOLEAN : CompleteRead(u, d, withBytes)
              \/ \E x \in Targets : LinkRead(u, d, x)
  PROVE  DocumentInv'
<1>1. CASE CompleteGet(u)
  <2> PICK r : r = upload[u]
    OBVIOUS
  <2> PICK step : step = [r EXCEPT !.op = "complete"]
    OBVIOUS
  <2>1. r.op = "get" /\ r.document \in Documents /\ object[r.document] = "whole"
        /\ UNCHANGED <<document, object, links>> /\ upload' = [upload EXCEPT ![u] = step]
    BY <1>1 DEF CompleteGet, Verified, DocumentInv, DocumentsTyped, UploadsFit, UploadFits
  <2>2. step = [r EXCEPT !.op = "complete"] /\ UploadFits(r)
    BY DEF DocumentInv, UploadsFit
  <2>3. UploadFits(step)
    BY <2>1, <2>2 DEF UploadFits
  <2> QED BY <2>1, <2>3, UploadReads
<1>2. CASE LeaveUpload(u)
  BY <1>2, UploadCloses DEF LeaveUpload
<1>3. CASE LinkWrite(u)
  <2>1. UploadFits(NoUpload)' /\ WholeStays /\ UNCHANGED <<document, object>>
    BY <1>3 DEF UploadFits, NoUpload, WholeStays, LinkWrite
  <2>2. UploadsFit' /\ upload' = [v \in Uploads |-> upload'[v]]
    BY <1>3, <2>1, UploadMoves DEF LinkWrite, Closes
  <2>3. \A link \in links' : link[2] \in Targets
    BY <1>3 DEF LinkWrite, DocumentInv, DocumentsTyped, UploadsFit, UploadFits
  <2> QED BY <2>1, <2>2, <2>3 DEF DocumentInv, DocumentsTyped, ReadyIsWhole
<1>4. ASSUME NEW d \in Documents, NEW step, UploadFits(step), Opens(u, step),
             UNCHANGED <<document, object, links>>
      PROVE  DocumentInv'
  BY <1>4, UploadReads DEF Opens
<1>5. ASSUME NEW d \in Documents, DeleteRead(u, d) PROVE DocumentInv'
  <2>1. UploadFits([op |-> "delete", document |-> d])
    BY DEF UploadFits
  <2> QED BY <1>4, <1>5, <2>1 DEF DeleteRead
<1>6. ASSUME NEW d \in Documents, NEW withBytes \in BOOLEAN, CompleteRead(u, d, withBytes)
      PROVE  DocumentInv'
  <2>1. UploadFits([op |-> IF withBytes THEN "put" ELSE "get", document |-> d])
    BY DEF UploadFits
  <2> QED BY <1>4, <1>6, <2>1 DEF CompleteRead
<1>7. ASSUME NEW d \in Documents, NEW x \in Targets, LinkRead(u, d, x) PROVE DocumentInv'
  <2>1. UploadFits([op |-> "link", document |-> d, target |-> x])
    BY DEF UploadFits
  <2> QED BY <1>4, <1>7, <2>1 DEF LinkRead
<1> QED BY <1>1, <1>2, <1>3, <1>5, <1>6, <1>7

LEMMA PlaceKeeps ==
  ASSUME DocumentInv,
         \/ \E x \in Residents \cup Tenancies, estate \in Sites \cup {NoSite} : ChangePlace(x, estate)
         \/ UNCHANGED documentVars
  PROVE  DocumentInv'
<1>1. UNCHANGED <<document, object, links, upload>>
  BY DEF ChangePlace, documentVars
<1> QED BY <1>1 DEF DocumentInv, DocumentsTyped, ReadyIsWhole, UploadsFit, UploadFits

LEMMA DocumentStep == AtomicPut /\ DocumentInv /\ [DocumentNext]_documentVars => DocumentInv'
BY IntentKeeps, PutKeeps, DocumentWriteKeeps, HoldKeeps, UploadReadsKeep, PlaceKeeps DEF
   DocumentNext

\* What the list takes a scoped user to see, and what a download checks, are the same.
LEMMA ListIsAccess ==
  ASSUME NEW d, NEW scope PROVE ListScope(d, scope) <=> Accessible(d, scope)
BY DEF ListScope, Accessible

\* ListedIsDownloadable for any number of documents and uploads: a document a user
\* finds in a list is there, whole and scanned, and may be downloaded by that user,
\* where the store makes an object visible only when all of it has been put.
THEOREM ListedIsThere ==
  ASSUME AtomicPut PROVE DocumentSpec => []ListedIsDownloadable
<1>1. DocumentInv => ListedIsDownloadable
  BY ListIsAccess DEF DocumentInv, ReadyIsWhole, ListedIsDownloadable, ListedFor, Downloadable
<1> QED BY <1>1, DocumentsStart, DocumentStep, PTL DEF DocumentSpec

-----------------------------------------------------------------------------
(***************************************************************************)
(* Inventory.                                                              *)
(*                                                                         *)
(* For any properties, buildings, units and beds, and any number of calls  *)
(* at once.                                                                *)
(***************************************************************************)

PlaceFields == {"status", "deleted", "version", "parent", "code", "building", "mode"}

\* Units belong to properties and beds to units: what a row's table asks of its parent.
ParentFits(x, parent) == (x \in Units => parent \in Properties) /\ (x \in Beds => parent \in Units)

\* A row that has been inserted is there for good, and its parent never changes.
RowFits(x) == place[x] # NoPlace => place[x].status # "NONE" /\ ParentFits(x, place[x].parent)

\* What a call is about to write fits the row it has found, or the table it inserts into.
EditFits(e) ==
  e # NoCall =>
    /\ e.target \in Places /\ DOMAIN e.set \subseteq PlaceFields
    /\ "status" \in DOMAIN e.set => e.set["status"] # "NONE"
    /\ "parent" \in DOMAIN e.set => ParentFits(e.target, e.set["parent"])
    /\ e.op = "create" => {"status", "parent"} \subseteq DOMAIN e.set
    /\ e.op # "create" => place[e.target] # NoPlace

InventoryInv ==
  /\ place = [x \in Places |-> place[x]] /\ edit = [c \in Editors |-> edit[c]]
  /\ \A x \in Places : DOMAIN place[x] = PlaceFields /\ RowFits(x)
  /\ \A c \in Editors : EditFits(edit[c])

-----------------------------------------------------------------------------
LEMMA InventoryStart == InventoryInit => InventoryInv
<1> SUFFICES ASSUME InventoryInit PROVE InventoryInv
  OBVIOUS
<1>1. NoPlace.status = "NONE" /\ DOMAIN NoPlace = PlaceFields
  BY DEF NoPlace, PlaceFields
<1> QED BY <1>1 DEF InventoryInit, InventoryInv, RowFits, EditFits

\* A call opened or closed: no row changes.
LEMMA EditsFit ==
  ASSUME InventoryInv, NEW c \in Editors, NEW e, UNCHANGED place,
         edit' = [edit EXCEPT ![c] = e], EditFits(e)
  PROVE  InventoryInv'
<1>1. /\ edit' = [d \in Editors |-> edit'[d]] /\ edit'[c] = e
      /\ \A d \in Editors : d # c => edit'[d] = edit[d]
  BY DEF InventoryInv
<1>2. \A d \in Editors : EditFits(edit[d])'
  BY <1>1 DEF InventoryInv, EditFits
<1>3. \A x \in Places : RowFits(x)'
  BY DEF InventoryInv, RowFits
<1> QED BY <1>1, <1>2, <1>3 DEF InventoryInv

\* A call that has read what it asks for knows what it writes.
LEMMA PlaceOpenKeeps ==
  ASSUME InventoryInv, NEW c \in Editors, NEW op, NEW x \in Places, NEW columns, Opened(c, op, x, columns),
         DOMAIN columns \subseteq PlaceFields,
         "status" \in DOMAIN columns => columns["status"] # "NONE",
         "parent" \in DOMAIN columns => ParentFits(x, columns["parent"]),
         op = "create" => {"status", "parent"} \subseteq DOMAIN columns,
         op # "create" => place[x] # NoPlace
  PROVE  InventoryInv'
<1> PICK version : version = IF op = "patch" THEN place[x].version ELSE 0
  OBVIOUS
<1> PICK e : e = [op |-> op, target |-> x, set |-> columns, version |-> version]
  OBVIOUS
<1>1. edit' = [edit EXCEPT ![c] = e] /\ UNCHANGED place
  BY DEF Opened
<1>2. EditFits(e)
  BY DEF EditFits
<1> QED BY <1>1, <1>2, EditsFit

LEMMA PlaceCreateKeeps ==
  ASSUME InventoryAssumption, InventoryInv, NEW c \in Editors, NEW code,
         \/ \E p \in Properties : CreateProperty(c, p, code)
         \/ \E p \in Properties, b \in Buildings : CreateBuilding(c, b, p, code)
         \/ \E p \in Properties, u \in Units : \E mode, building : CreateUnit(c, u, p, code, mode, building)
         \/ \E u \in Units, b \in Beds : CreateBed(c, b, u, code)
  PROVE  InventoryInv'
<1>1. Properties \subseteq Places /\ Buildings \subseteq Places /\ Units \subseteq Places /\ Beds \subseteq Places
  BY DEF Places
<1>2. ASSUME NEW x \in Places, NEW parent, ParentFits(x, parent), Opened(c, "create", x, New(parent, code))
      PROVE  InventoryInv'
  <2>1. PICK columns : columns = New(parent, code)
    OBVIOUS
  <2>2. DOMAIN columns = {"status", "parent", "code"} /\ columns["status"] = "ACTIVE"
        /\ columns["parent"] = parent
    BY <2>1 DEF New
  <2> QED BY <1>2, <2>1, <2>2, PlaceOpenKeeps DEF PlaceFields
<1>3. ASSUME NEW p \in Properties, CreateProperty(c, p, code) PROVE InventoryInv'
  <2>1. Opened(c, "create", p, New(Organization, code)) /\ ParentFits(p, Organization)
    BY <1>3 DEF CreateProperty, ParentFits, InventoryAssumption
  <2> QED BY <1>1, <1>2, <2>1
<1>4. ASSUME NEW p \in Properties, NEW b \in Buildings, CreateBuilding(c, b, p, code) PROVE InventoryInv'
  <2>1. Opened(c, "create", b, New(p, code)) /\ ParentFits(b, p)
    BY <1>4 DEF CreateBuilding, ParentFits, InventoryAssumption
  <2> QED BY <1>1, <1>2, <2>1
<1>5. ASSUME NEW p \in Properties, NEW u \in Units, NEW mode, NEW building,
             CreateUnit(c, u, p, code, mode, building)
      PROVE  InventoryInv'
  <2>1. PICK columns : columns = NewUnit(p, code, mode, building)
    OBVIOUS
  <2>2. Opened(c, "create", u, columns) /\ ParentFits(u, p)
    BY <1>5, <2>1 DEF CreateUnit, ParentFits, InventoryAssumption
  <2>3. DOMAIN columns = {"status", "parent", "code", "mode", "building"}
        /\ columns["status"] = "ACTIVE" /\ columns["parent"] = p
    BY <2>1 DEF NewUnit
  <2> QED BY <1>1, <2>2, <2>3, PlaceOpenKeeps DEF PlaceFields
<1>6. ASSUME NEW u \in Units, NEW b \in Beds, CreateBed(c, b, u, code) PROVE InventoryInv'
  <2>1. Opened(c, "create", b, New(u, code)) /\ ParentFits(b, u)
    BY <1>6 DEF CreateBed, ParentFits, InventoryAssumption
  <2> QED BY <1>1, <1>2, <2>1
<1> QED BY <1>3, <1>4, <1>5, <1>6

\* A patch, an archive or a restore of a row that is there: it names no parent.
LEMMA PlaceChangeKeeps ==
  ASSUME InventoryInv, NEW c \in Editors, NEW op, NEW x \in Places, NEW columns, op # "create",
         Opened(c, op, x, columns), place[x] # NoPlace,
         \/ columns \in Columns({"ACTIVE", "INACTIVE", "ARCHIVED"}, Codes)
         \/ columns \in Columns({"ACTIVE", "ARCHIVED"}, Codes) \/ columns \in Columns({}, Codes)
         \/ columns \in {[mode |-> m] : m \in Modes}
         \/ columns \in {[building |-> b] : b \in Buildings}
         \/ columns = [status |-> "ARCHIVED", deleted |-> TRUE] \/ columns = Restored
  PROVE  InventoryInv'
<1>1. /\ DOMAIN columns \subseteq PlaceFields \ {"parent"}
      /\ "status" \in DOMAIN columns => columns["status"] # "NONE"
  <2>1. CASE columns = <<>>
    BY <2>1
  <2>2. CASE \E k : columns = [code |-> k] \/ columns = [mode |-> k] \/ columns = [building |-> k]
    <3> PICK k : columns = [code |-> k] \/ columns = [mode |-> k] \/ columns = [building |-> k]
      BY <2>2
    <3> QED BY DEF PlaceFields
  <2>3. CASE \E s \in {"ACTIVE", "INACTIVE", "ARCHIVED"} : \E d :
                columns = [status |-> s] \/ columns = [status |-> s, deleted |-> d]
    <3> PICK s \in {"ACTIVE", "INACTIVE", "ARCHIVED"} : \E d :
                columns = [status |-> s] \/ columns = [status |-> s, deleted |-> d]
      BY <2>3
    <3> PICK d : columns = [status |-> s] \/ columns = [status |-> s, deleted |-> d]
      OBVIOUS
    <3> QED BY DEF PlaceFields
  <2> QED BY <2>1, <2>2, <2>3 DEF Columns, Restored
<1> QED BY <1>1, PlaceOpenKeeps

LEMMA PlaceReadKeeps ==
  ASSUME InventoryInv, NEW c \in Editors,
         \/ \E p \in Properties :
              \/ ArchiveProperty(c, p) \/ RestoreProperty(c, p)
              \/ \E columns \in Columns({"ACTIVE", "INACTIVE", "ARCHIVED"}, Codes) : Patch(c, p, columns)
         \/ \E b \in Buildings :
              ArchiveBuilding(c, b) \/ \E columns \in Columns({}, Codes) : Patch(c, b, columns)
         \/ \E u \in Units :
              \/ Archive(c, u) \/ RestoreUnit(c, u)
              \/ \E columns \in Columns({"ACTIVE", "ARCHIVED"}, Codes) \cup {[mode |-> m] : m \in Modes}
                                   \cup {[building |-> b] : b \in Buildings} : PatchUnit(c, u, columns)
         \/ \E b \in Beds :
              Archive(c, b) \/ \E columns \in Columns({"ACTIVE", "ARCHIVED"}, Codes) : Patch(c, b, columns)
  PROVE  InventoryInv'
<1>1. Properties \subseteq Places /\ Buildings \subseteq Places /\ Units \subseteq Places /\ Beds \subseteq Places
  BY DEF Places
<1>2. \A x \in Places : Exists(x) \/ place[x].deleted \/ place[x].status = "ARCHIVED" => place[x] # NoPlace
  BY DEF Exists, NoPlace
<1>3. ASSUME NEW x \in Places, Archive(c, x) PROVE InventoryInv'
  BY <1>2, <1>3, PlaceChangeKeeps DEF Archive
<1>4. ASSUME NEW x \in Places, NEW columns, Patch(c, x, columns),
             \/ columns \in Columns({"ACTIVE", "INACTIVE", "ARCHIVED"}, Codes)
             \/ columns \in Columns({"ACTIVE", "ARCHIVED"}, Codes) \/ columns \in Columns({}, Codes)
             \/ columns \in {[mode |-> m] : m \in Modes} \/ columns \in {[building |-> b] : b \in Buildings}
      PROVE InventoryInv'
  BY <1>2, <1>4, PlaceChangeKeeps DEF Patch
<1>5. ASSUME NEW x \in Places, Opened(c, "restore", x, Restored), place[x] # NoPlace PROVE InventoryInv'
  BY <1>5, PlaceChangeKeeps
<1>6. ASSUME NEW p \in Properties, RestoreProperty(c, p) PROVE InventoryInv'
  BY <1>1, <1>2, <1>5, <1>6 DEF RestoreProperty
<1>7. ASSUME NEW u \in Units, RestoreUnit(c, u) PROVE InventoryInv'
  BY <1>1, <1>5, <1>7 DEF RestoreUnit
<1>8. \A p \in Properties : ArchiveProperty(c, p) => Archive(c, p)
  BY DEF ArchiveProperty
<1>9. \A b \in Buildings : ArchiveBuilding(c, b) => Archive(c, b)
  BY DEF ArchiveBuilding
<1>10. \A u \in Units : \A columns : PatchUnit(c, u, columns) => Patch(c, u, columns)
  BY DEF PatchUnit
<1> QED BY <1>1, <1>3, <1>4, <1>6, <1>7, <1>8, <1>9, <1>10

\* The write: the row it makes is there, under a parent of the right table.
LEMMA PlaceCommitKeeps ==
  ASSUME InventoryAssumption, InventoryInv, NEW c \in Editors, Commit(c)
  PROVE  InventoryInv'
<1> PICK e : e = edit[c]
  OBVIOUS
<1> PICK x : x = e.target
  OBVIOUS
<1>0. PICK u : u = Updated(place[x], e.set)
  OBVIOUS
<1>00. PICK r : r = [u EXCEPT !.version = u.version + 1]
  OBVIOUS
<1>1. /\ e # NoCall /\ (e.op = "create" => place[x] = NoPlace)
      /\ place' = [place EXCEPT ![x] = r] /\ edit' = [edit EXCEPT ![c] = NoCall]
  BY <1>0, <1>00 DEF Commit
<1>2. EditFits(e) /\ x \in Places /\ DOMAIN place[x] = PlaceFields /\ RowFits(x)
  BY <1>1 DEF InventoryInv, EditFits
<1>3. DOMAIN u = PlaceFields /\ \A f \in PlaceFields : u[f] = IF f \in DOMAIN e.set THEN e.set[f] ELSE place[x][f]
  BY <1>0, <1>2 DEF Updated
<1>4. DOMAIN r = PlaceFields /\ r.status = u["status"] /\ r.parent = u["parent"]
  BY <1>00, <1>3 DEF PlaceFields
<1>5. r.status # "NONE" /\ ParentFits(x, r.parent)
  <2>1. CASE e.op = "create"
    BY <1>1, <1>2, <1>3, <1>4, <2>1 DEF EditFits, PlaceFields
  <2>2. CASE e.op # "create"
    <3>1. place[x].status # "NONE" /\ ParentFits(x, place[x].parent)
      BY <1>1, <1>2, <2>2 DEF EditFits, RowFits
    <3> QED BY <1>1, <1>2, <1>3, <1>4, <3>1 DEF EditFits, PlaceFields
  <2> QED BY <2>1, <2>2
<1>6. r # NoPlace
  BY <1>5 DEF NoPlace
<1>7. /\ place'[x] = r /\ (\A y \in Places : y # x => place'[y] = place[y])
      /\ place' = [y \in Places |-> place'[y]]
      /\ edit'[c] = NoCall /\ (\A d \in Editors : d # c => edit'[d] = edit[d])
      /\ edit' = [d \in Editors |-> edit'[d]]
  BY <1>1, <1>2 DEF InventoryInv
<1>8. \A y \in Places : DOMAIN place'[y] = PlaceFields /\ RowFits(y)'
  BY <1>4, <1>5, <1>7 DEF InventoryInv, RowFits
<1>9. \A y \in Places : place[y] # NoPlace => place'[y] # NoPlace
  BY <1>6, <1>7
<1>10. \A d \in Editors : EditFits(edit[d])'
  <2> SUFFICES ASSUME NEW d \in Editors PROVE EditFits(edit[d])'
    OBVIOUS
  <2> PICK a : a = edit'[d]
    OBVIOUS
  <2>1. EditFits(a)
    BY <1>7 DEF InventoryInv, EditFits
  <2>2. EditFits(a)'
    BY <1>9, <2>1 DEF EditFits
  <2> QED BY <2>2 DEF EditFits
<1> QED BY <1>7, <1>8, <1>10 DEF InventoryInv

LEMMA InventoryStep ==
  InventoryAssumption /\ InventoryInv /\ [InventoryNext]_inventoryVars => InventoryInv'
<1> SUFFICES ASSUME InventoryAssumption, InventoryInv, [InventoryNext]_inventoryVars PROVE InventoryInv'
  OBVIOUS
<1>1. CASE UNCHANGED inventoryVars
  BY <1>1 DEF inventoryVars, InventoryInv, RowFits, EditFits
<1>2. ASSUME NEW c \in Editors, Abandon(c) PROVE InventoryInv'
  <2>1. edit' = [edit EXCEPT ![c] = NoCall] /\ UNCHANGED place /\ EditFits(NoCall)
    BY <1>2 DEF Abandon, EditFits
  <2> QED BY <2>1, EditsFit
<1> QED BY <1>1, <1>2, PlaceCreateKeeps, PlaceReadKeeps, PlaceCommitKeeps DEF InventoryNext

-----------------------------------------------------------------------------
(***************************************************************************)
(* Interests.                                                              *)
(*                                                                         *)
(* For any owners, ownerships, agreements, grants and days, one operation  *)
(* at a time.                                                              *)
(***************************************************************************)

HoldingRow(r) ==
  /\ r = [field \in DOMAIN r |-> r[field]] /\ "status" \in DOMAIN r
  /\ r.status = "ACTIVE" =>
       /\ {"estate", "of", "share", "from", "to"} \subseteq DOMAIN r
       /\ r.from \in Int /\ r.to \in Int

AgreementRow(r) ==
  /\ r = [field \in DOMAIN r |-> r[field]] /\ "status" \in DOMAIN r
  /\ r.status # "NONE" =>
       /\ {"estate", "from", "to", "version"} \subseteq DOMAIN r
       /\ r.from \in Int /\ r.to \in Int
  /\ r.status = "NONE" => r = NoAgreement

OwnerRow(r) == r = [field \in DOMAIN r |-> r[field]] /\ {"status", "deleted", "version"} \subseteq DOMAIN r

\* What createOwnership has found, of the ownership it is about to insert.
Admitted(w) ==
  /\ HoldingRow(w) /\ w.status = "ACTIVE" /\ w.of \in Owners /\ ~owner[w.of].deleted /\ owner[w.of] # NoOwner
  /\ \A q \in Concurrent(w.estate, w.from, w.to) : holding[q].of # w.of

\* What an operation has found still stands when it writes.
VisitFits(r) ==
  r.at = "write" =>
    /\ r.op = "archiveOwner" =>
         \A p \in Owners : r.id = <<p>> => \A o \in HeldBy(p) : holding[o].to <= today
    /\ r.op = "own" => \A o \in Holdings : r.id = <<o>> => holding[o] = NoHolding /\ Admitted(r.writes)
    /\ r.op = "patch" =>
         /\ r.writes.from \in Int /\ r.writes.to \in Int
         /\ \A a \in Agreements : r.id = <<a>> => agreement[a].status \notin {"NONE", "ACTIVE"}
    /\ r.op = "activate" =>
         /\ r.writes \in Int
         /\ \A a \in Agreements : r.id = <<a>> => agreement[a].status = "DRAFT" /\ Uncovered(a, r.writes)
    /\ r.op = "terminate" =>
         /\ r.writes \in Int
         /\ \A a \in Agreements : r.id = <<a>> => agreement[a].status # "NONE"

\* Nobody else is about to write.
OneVisit ==
  /\ visit = [v \in Visits |-> visit[v]]
  /\ \A u, v \in Visits : visit[u].at = "write" /\ visit[v].at = "write" => u = v

InterestTyped ==
  /\ today \in Int
  /\ owner = [p \in Owners |-> owner[p]] /\ \A p \in Owners : OwnerRow(owner[p])
  /\ holding = [o \in Holdings |-> holding[o]] /\ \A o \in Holdings : HoldingRow(holding[o])
  /\ agreement = [a \in Agreements |-> agreement[a]] /\ \A a \in Agreements : AgreementRow(agreement[a])

ArchivedIdle == \A p \in Owners : owner[p].deleted => \A o \in HeldBy(p) : holding[o].to <= today

OneManager ==
  \A a, b \in Agreements, d \in Days :
    Managed(a, d) /\ Managed(b, d) /\ agreement[a].estate = agreement[b].estate => a = b

OneInterest ==
  \A o, q \in Holdings, h \in Estates, d \in Days :
    Active(o, h, d) /\ Active(q, h, d) /\ holding[o].of = holding[q].of => o = q

InterestInv ==
  /\ InterestTyped /\ OneVisit /\ ArchivedIdle /\ OneManager /\ OneInterest
  /\ \A v \in Visits : VisitFits(visit[v])

-----------------------------------------------------------------------------
LEMMA InterestStart == InterestInit => InterestInv
<1> SUFFICES ASSUME InterestInit PROVE InterestInv
  OBVIOUS
<1>1. OwnerRow(NoOwner) /\ HoldingRow(NoHolding) /\ AgreementRow(NoAgreement)
      /\ ~NoOwner.deleted /\ NoHolding.status = "NONE" /\ NoAgreement.status = "NONE"
      /\ NoVisit.at = "start"
  BY DEF OwnerRow, HoldingRow, AgreementRow, NoOwner, NoHolding, NoAgreement, NoVisit
<1>2. InterestTyped
  BY <1>1 DEF InterestInit, InterestTyped
<1>3. OneVisit /\ \A v \in Visits : VisitFits(visit[v])
  BY <1>1 DEF InterestInit, OneVisit, VisitFits
<1>4. ArchivedIdle /\ OneManager /\ OneInterest
  BY <1>1 DEF InterestInit, ArchivedIdle, OneManager, OneInterest, Active, Managed
<1> QED BY <1>2, <1>3, <1>4 DEF InterestInv

\* An operation that has read and decided.
LEMMA DecideKeeps ==
  ASSUME ~Overlapping, InterestInv, NEW v \in Visits, NEW op, NEW id, NEW writes,
         Decide(v, op, id, writes),
         VisitFits([at |-> "write", op |-> op, id |-> <<id>>, writes |-> writes])
  PROVE  InterestInv'
<1> PICK r : r = [at |-> "write", op |-> op, id |-> <<id>>, writes |-> writes]
  OBVIOUS
<1>1. /\ visit' = [visit EXCEPT ![v] = r] /\ UNCHANGED <<owner, holding, agreement, grant, today>>
      /\ \A u \in Visits : visit[u].at # "write"
  BY DEF Decide
<1>2. /\ visit'[v] = r /\ (\A u \in Visits : u # v => visit'[u] = visit[u])
      /\ visit' = [u \in Visits |-> visit'[u]]
  BY <1>1 DEF InterestInv, OneVisit
<1>3. OneVisit'
  BY <1>1, <1>2 DEF OneVisit
<1>4. VisitFits(r)'
  BY <1>1 DEF VisitFits, Admitted, Uncovered, Concurrent, HeldBy, HoldingRow
<1>5. \A u \in Visits : VisitFits(visit[u])'
  BY <1>1, <1>2, <1>4 DEF VisitFits
<1>6. (InterestTyped /\ ArchivedIdle /\ OneManager /\ OneInterest)'
  BY <1>1 DEF InterestInv, InterestTyped, ArchivedIdle, OneManager, OneInterest, Active, Managed,
     HeldBy,
              OwnerRow, HoldingRow, AgreementRow
<1> QED BY <1>3, <1>5, <1>6 DEF InterestInv

\* An operation that writes: nobody is about to write any more.
LEMMA WriteEnds ==
  ASSUME InterestInv, NEW v \in Visits, NEW op, NEW id, WritesRow(v, op, id)
  PROVE  OneVisit' /\ \A u \in Visits : VisitFits(visit[u])'
<1>1. /\ visit'[v].at = "done" /\ (\A u \in Visits : u # v => visit'[u] = visit[u])
      /\ visit' = [u \in Visits |-> visit'[u]] /\ visit[v].at = "write"
  BY DEF WritesRow, NoVisit, InterestInv, OneVisit
<1>2. \A u \in Visits : visit'[u].at # "write"
  BY <1>1 DEF InterestInv, OneVisit
<1> QED BY <1>1, <1>2 DEF OneVisit, VisitFits

\* The reads of each operation establish what its write will need.
LEMMA OwnerReadsKeep ==
  ASSUME ~Overlapping, InterestInv, NEW v \in Visits,
         \/ \E p \in Owners : PatchOwner(v, p) \/ ArchiveOwner(v, p)
         \/ \E g \in Grants : \E m, h, from, to :
              CreateGrant(v, g, m, h, from, to) \/ EndGrant(v, g, to)
         \/ \E o \in Holdings : \E m, to : EndOwnership(v, m, o, to)
  PROVE  InterestInv'
<1>1. ASSUME NEW p \in Owners, ArchiveOwner(v, p) PROVE InterestInv'
  <2>1. Decide(v, "archiveOwner", p, "ARCHIVED") /\ \A o \in HeldBy(p) : holding[o].to <= today
    BY <1>1 DEF ArchiveOwner
  <2>2. VisitFits([at |-> "write", op |-> "archiveOwner", id |-> <<p>>, writes |-> "ARCHIVED"])
    BY <2>1 DEF VisitFits
  <2> QED BY <2>1, <2>2, DecideKeeps
<1>2. ASSUME NEW op \in {"patchOwner", "grant", "endGrant", "disown"}, NEW id, NEW writes,
             Decide(v, op, id, writes)
      PROVE  InterestInv'
  <2>1. VisitFits([at |-> "write", op |-> op, id |-> <<id>>, writes |-> writes])
    BY DEF VisitFits
  <2> QED BY <1>2, <2>1, DecideKeeps
<1> QED BY <1>1, <1>2 DEF PatchOwner, CreateGrant, EndGrant, EndOwnership

LEMMA OwnershipReadKeeps ==
  ASSUME InterestAssumption, ~Overlapping, InterestInv, NEW v \in Visits, NEW m, NEW h, NEW o \in Holdings,
         NEW p \in Owners, NEW share, NEW from \in Days, NEW to \in Ends,
         CreateOwnership(v, m, h, o, p, share, from, to)
  PROVE  InterestInv'
<1> PICK w : w = [status |-> "ACTIVE", estate |-> h, of |-> p, share |-> share, from |-> from, to |-> to]
  OBVIOUS
<1>1. Decide(v, "own", o, w) /\ holding[o] = NoHolding /\ FindOwner(p)
      /\ Concurrent(h, from, to) \cap HeldBy(p) = {}
  BY DEF CreateOwnership, Admissible
<1>2. w.status = "ACTIVE" /\ w.estate = h /\ w.of = p /\ w.from = from /\ w.to = to
  OBVIOUS
<1>3. HoldingRow(w)
  <2>1. from \in Int /\ to \in Int
    BY DEF Days, Ends, Forever, InterestAssumption
  <2>2. w = [field \in DOMAIN w |-> w[field]]
    OBVIOUS
  <2>3. DOMAIN w = {"status", "estate", "of", "share", "from", "to"}
    OBVIOUS
  <2> QED BY <1>2, <2>1, <2>2, <2>3 DEF HoldingRow
<1>4. \A q \in Concurrent(h, from, to) : holding[q].of # p
  BY <1>1 DEF Concurrent, HeldBy
<1>5. Admitted(w)
  BY <1>1, <1>2, <1>3, <1>4 DEF Admitted, FindOwner
<1>6. VisitFits([at |-> "write", op |-> "own", id |-> <<o>>, writes |-> w])
  <2> PICK r : r = [at |-> "write", op |-> "own", id |-> <<o>>, writes |-> w]
    OBVIOUS
  <2>1. r.op = "own" /\ r.id = <<o>> /\ r.writes = w
    OBVIOUS
  <2>2. \A q : r.id = <<q>> => q = o
    BY <2>1
  <2> QED BY <1>1, <1>5, <2>1, <2>2 DEF VisitFits
<1> QED BY <1>1, <1>6, DecideKeeps

LEMMA AgreementReadsKeep ==
  ASSUME InterestAssumption, ~Overlapping, InterestInv, NEW v \in Visits, NEW a \in Agreements,
         \/ \E m \in Members, from \in Days, to \in Ends : PatchAgreement(v, m, a, from, to)
         \/ \E m \in Members, from \in Days : ActivateAgreement(v, m, a, from)
         \/ \E m \in Members, to \in Days : TerminateAgreement(v, m, a, to)
  PROVE  InterestInv'
<1>1. Days \subseteq Int /\ Ends \subseteq Int
  BY DEF Days, Ends, Forever, InterestAssumption
<1>2. \A b \in Agreements : agreement[b] # NoAgreement => agreement[b].status # "NONE"
  BY DEF InterestInv, InterestTyped, AgreementRow
<1>3. ASSUME NEW m, NEW from \in Days, NEW to \in Ends, PatchAgreement(v, m, a, from, to)
      PROVE  InterestInv'
  <2>1. Decide(v, "patch", a, [from |-> from, to |-> to]) /\ agreement[a].status \notin {"NONE", "ACTIVE"}
    BY <1>2, <1>3 DEF PatchAgreement, FindAgreement
  <2>2. VisitFits([at |-> "write", op |-> "patch", id |-> <<a>>, writes |-> [from |-> from, to |-> to]])
    BY <1>1, <2>1 DEF VisitFits
  <2> QED BY <2>1, <2>2, DecideKeeps
<1>4. ASSUME NEW m, NEW from \in Days, ActivateAgreement(v, m, a, from) PROVE InterestInv'
  <2>1. Decide(v, "activate", a, from) /\ agreement[a].status = "DRAFT" /\ Uncovered(a, from)
    BY <1>4 DEF ActivateAgreement
  <2>2. VisitFits([at |-> "write", op |-> "activate", id |-> <<a>>, writes |-> from])
    BY <1>1, <2>1 DEF VisitFits
  <2> QED BY <2>1, <2>2, DecideKeeps
<1>5. ASSUME NEW m, NEW to \in Days, TerminateAgreement(v, m, a, to) PROVE InterestInv'
  <2>1. Decide(v, "terminate", a, to) /\ agreement[a].status # "NONE"
    BY <1>2, <1>5 DEF TerminateAgreement, FindAgreement
  <2>2. VisitFits([at |-> "write", op |-> "terminate", id |-> <<a>>, writes |-> to])
    BY <1>1, <2>1 DEF VisitFits
  <2> QED BY <2>1, <2>2, DecideKeeps
<1> QED BY <1>3, <1>4, <1>5

\* Owners created, changed and archived; grants; a day that passes.
LEMMA OwnerWritesKeep ==
  ASSUME InterestAssumption, InterestInv, NEW v \in Visits, NEW p \in Owners,
         UpdateOwner(v, p) \/ MarkOwnerArchived(v, p)
  PROVE  InterestInv'
<1>1. OneVisit' /\ \A u \in Visits : VisitFits(visit[u])'
  BY WriteEnds DEF UpdateOwner, MarkOwnerArchived
<1>2. UNCHANGED <<holding, agreement, today>>
  BY DEF UpdateOwner, MarkOwnerArchived
<1>3. OwnerRow(owner[p])
  BY DEF InterestInv, InterestTyped
<1>4. PICK row : owner' = [owner EXCEPT ![p] = row] /\ OwnerRow(row)
                 /\ (row.deleted => owner[p].deleted \/ \A o \in HeldBy(p) : holding[o].to <= today)
  <2>1. CASE UpdateOwner(v, p)
    <3> PICK status, version : status = visit[v].writes /\ version = owner[p].version + 1
      OBVIOUS
    <3> PICK row : row = [owner[p] EXCEPT !.status = status, !.version = version]
      OBVIOUS
    <3>1. owner' = [owner EXCEPT ![p] = row]
      BY <2>1 DEF UpdateOwner, InterestInv, InterestTyped
    <3>2. OwnerRow(row) /\ row.deleted = owner[p].deleted
      BY <1>3 DEF OwnerRow
    <3> QED BY <3>1, <3>2
  <2>2. CASE MarkOwnerArchived(v, p)
    <3> PICK version : version = owner[p].version + 1
      OBVIOUS
    <3> PICK row : row = [status |-> "ARCHIVED", deleted |-> TRUE, version |-> version]
      OBVIOUS
    <3>1. owner' = [owner EXCEPT ![p] = row]
      BY <2>2 DEF MarkOwnerArchived
    <3>2. OwnerRow(row)
      BY DEF OwnerRow
    <3>3. \A o \in HeldBy(p) : holding[o].to <= today
      BY <2>2 DEF MarkOwnerArchived, WritesRow, InterestInv, VisitFits
    <3> QED BY <3>1, <3>2, <3>3
  <2> QED BY <2>1, <2>2
<1>5. /\ owner' = [q \in Owners |-> owner'[q]] /\ owner'[p] = row
      /\ \A q \in Owners : q # p => owner'[q] = owner[q]
  BY <1>4 DEF InterestInv, InterestTyped
<1>6. ArchivedIdle'
  BY <1>2, <1>4, <1>5 DEF InterestInv, ArchivedIdle, HeldBy
<1>7. InterestTyped'
  BY <1>2, <1>4, <1>5 DEF InterestInv, InterestTyped
<1>8. OneManager' /\ OneInterest'
  BY <1>2 DEF InterestInv, OneManager, OneInterest, Active, Managed
<1> QED BY <1>1, <1>6, <1>7, <1>8 DEF InterestInv

LEMMA CreateOwnerKeeps ==
  ASSUME InterestInv, NEW p \in Owners, CreateOwner(p)
  PROVE  InterestInv'
<1> PICK row : row = [status |-> "ACTIVE", deleted |-> FALSE, version |-> 1]
  OBVIOUS
<1>1. owner' = [owner EXCEPT ![p] = row] /\ owner[p] = NoOwner
      /\ UNCHANGED <<holding, agreement, today, visit>>
  BY DEF CreateOwner
<1>2. OwnerRow(row) /\ ~row.deleted /\ row # NoOwner
  BY DEF OwnerRow, NoOwner
<1>3. /\ owner' = [q \in Owners |-> owner'[q]] /\ owner'[p] = row
      /\ \A q \in Owners : q # p => owner'[q] = owner[q]
  BY <1>1 DEF InterestInv, InterestTyped
<1>4. ASSUME NEW w, Admitted(w) PROVE Admitted(w)'
  BY <1>1, <1>2, <1>3, <1>4 DEF Admitted, Concurrent, HoldingRow
<1>5. OneVisit' /\ \A u \in Visits : VisitFits(visit[u])'
  BY <1>1, <1>4 DEF InterestInv, OneVisit, VisitFits, HeldBy, Uncovered
<1>6. ArchivedIdle'
  BY <1>1, <1>2, <1>3 DEF InterestInv, ArchivedIdle, HeldBy
<1>7. InterestTyped'
  BY <1>1, <1>2, <1>3 DEF InterestInv, InterestTyped
<1>8. OneManager' /\ OneInterest'
  BY <1>1 DEF InterestInv, OneManager, OneInterest, Active, Managed
<1> QED BY <1>5, <1>6, <1>7, <1>8 DEF InterestInv

LEMMA TimeKeeps ==
  ASSUME InterestInv,
         \/ Midnight \/ UNCHANGED interestVars
         \/ \E v \in Visits, g \in Grants : InsertGrant(v, g) \/ UpdateGrant(v, g)
  PROVE  InterestInv'
<1>1. UNCHANGED <<owner, holding, agreement>> /\ today' \in {today, today + 1}
  BY DEF Midnight, interestVars, InsertGrant, UpdateGrant
<1>2. today \in Int /\ \A o \in Holdings : HoldingRow(holding[o])
  BY DEF InterestInv, InterestTyped
<1>3. \A p \in Owners : \A o \in HeldBy(p) : holding[o].to \in Int
  BY <1>2 DEF HeldBy, HoldingRow
<1>4. \A p \in Owners : \A o \in HeldBy(p) : holding[o].to <= today => holding[o].to <= today'
  BY <1>1, <1>2, <1>3
<1>5. InterestTyped'
  BY <1>1, <1>2 DEF InterestInv, InterestTyped
<1>6. ArchivedIdle' /\ OneManager' /\ OneInterest'
  BY <1>1, <1>4 DEF InterestInv, ArchivedIdle, OneManager, OneInterest, Active, Managed, HeldBy
<1>7. OneVisit' /\ \A u \in Visits : VisitFits(visit[u])'
  <2>1. CASE UNCHANGED visit
    BY <1>1, <1>4, <2>1 DEF InterestInv, OneVisit, VisitFits, HeldBy, Uncovered, Admitted,
       Concurrent, HoldingRow
  <2>2. CASE \E v \in Visits, g \in Grants : InsertGrant(v, g) \/ UpdateGrant(v, g)
    BY <2>2, WriteEnds DEF InsertGrant, UpdateGrant
  <2> QED BY <2>1, <2>2 DEF Midnight, interestVars
<1> QED BY <1>5, <1>6, <1>7 DEF InterestInv

\* An ownership is inserted: the owner has no other interest in its days.
LEMMA InsertOwnershipKeeps ==
  ASSUME InterestAssumption, InterestInv, NEW v \in Visits, NEW o \in Holdings, InsertOwnership(v, o)
  PROVE  InterestInv'
<1> PICK w : w = visit[v].writes
  OBVIOUS
<1>1. /\ holding' = [holding EXCEPT ![o] = w] /\ UNCHANGED <<owner, agreement, today>>
      /\ WritesRow(v, "own", o)
  BY DEF InsertOwnership
<1>2. OneVisit' /\ \A u \in Visits : VisitFits(visit[u])'
  BY <1>1, WriteEnds
<1>3. holding[o] = NoHolding /\ Admitted(w)
  BY <1>1 DEF WritesRow, InterestInv, VisitFits
<1>4. /\ holding' = [q \in Holdings |-> holding'[q]] /\ holding'[o] = w
      /\ \A q \in Holdings : q # o => holding'[q] = holding[q]
  BY <1>1 DEF InterestInv, InterestTyped
<1>5. HoldingRow(w) /\ w.status = "ACTIVE" /\ w.of \in Owners /\ ~owner[w.of].deleted
      /\ w.from \in Int /\ w.to \in Int
  BY <1>3 DEF Admitted, HoldingRow
<1>6. InterestTyped'
  BY <1>1, <1>4, <1>5 DEF InterestInv, InterestTyped
<1>7. ArchivedIdle'
  <2> SUFFICES ASSUME NEW p \in Owners, owner[p].deleted, NEW q \in Holdings,
                      holding'[q].status = "ACTIVE", holding'[q].of = p
               PROVE  holding'[q].to <= today
    BY <1>1 DEF ArchivedIdle, HeldBy
  <2>1. q # o
    BY <1>4, <1>5
  <2> QED BY <1>4, <2>1 DEF InterestInv, ArchivedIdle, HeldBy
<1>8. ASSUME NEW q \in Holdings, q # o, holding[q].status = "ACTIVE", holding[q].estate = w.estate,
             holding[q].of = w.of, NEW d \in Days, Runs(holding[q], d), Runs(w, d)
      PROVE  FALSE
  <2>1. d \in Int /\ holding[q].from \in Int /\ holding[q].to \in Int
    BY <1>8 DEF Days, InterestInv, InterestTyped, HoldingRow, InterestAssumption
  <2>2. Overlaps(holding[q], w.from, w.to)
    BY <1>5, <1>8, <2>1 DEF Overlaps, Runs
  <2>3. q \in Concurrent(w.estate, w.from, w.to)
    BY <1>8, <2>2 DEF Concurrent
  <2> QED BY <1>3, <1>8, <2>3 DEF Admitted
<1>9. OneInterest'
  <2> SUFFICES ASSUME NEW q \in Holdings, NEW r \in Holdings, NEW h \in Estates, NEW d \in Days, q # r,
                      Active(q, h, d)', Active(r, h, d)', holding'[q].of = holding'[r].of
               PROVE  FALSE
    BY DEF OneInterest
  <2>1. CASE q # o /\ r # o
    BY <1>4, <2>1 DEF InterestInv, OneInterest, Active, Runs
  <2>2. CASE q = o
    BY <1>4, <1>8, <2>2 DEF Active, Runs
  <2>3. CASE r = o
    BY <1>4, <1>8, <2>3 DEF Active, Runs
  <2> QED BY <2>1, <2>2, <2>3
<1>10. OneManager'
  BY <1>1 DEF InterestInv, OneManager, Managed
<1> QED BY <1>2, <1>6, <1>7, <1>9, <1>10 DEF InterestInv

LEMMA UpdateOwnershipKeeps ==
  ASSUME InterestInv, NEW v \in Visits, NEW o \in Holdings, UpdateOwnership(v, o)
  PROVE  InterestInv'
<1> PICK to : to = visit[v].writes
  OBVIOUS
<1> PICK row : row = [holding[o] EXCEPT !.status = "ENDED", !.to = to]
  OBVIOUS
<1>1. /\ holding' = [holding EXCEPT ![o] = row] /\ UNCHANGED <<owner, agreement, today>>
      /\ WritesRow(v, "disown", o)
  BY DEF UpdateOwnership, InterestInv, InterestTyped
<1>2. OneVisit' /\ \A u \in Visits : VisitFits(visit[u])'
  BY <1>1, WriteEnds
<1>3. HoldingRow(row) /\ row.status = "ENDED"
  BY DEF InterestInv, InterestTyped, HoldingRow
<1>4. /\ holding' = [q \in Holdings |-> holding'[q]] /\ holding'[o] = row
      /\ \A q \in Holdings : q # o => holding'[q] = holding[q]
  BY <1>1 DEF InterestInv, InterestTyped
<1>5. InterestTyped'
  BY <1>1, <1>3, <1>4 DEF InterestInv, InterestTyped
<1>6. ArchivedIdle'
  BY <1>1, <1>3, <1>4 DEF InterestInv, ArchivedIdle, HeldBy
<1>7. OneInterest'
  <2>1. ASSUME NEW q \in Holdings, NEW h, NEW d, Active(q, h, d)'
        PROVE  Active(q, h, d) /\ holding'[q] = holding[q]
    BY <1>3, <1>4, <2>1 DEF Active, Runs
  <2> QED BY <2>1 DEF InterestInv, OneInterest
<1>8. OneManager'
  BY <1>1 DEF InterestInv, OneManager, Managed
<1> QED BY <1>2, <1>5, <1>6, <1>7, <1>8 DEF InterestInv

\* A row of the agreements changes; it is active only if nothing else manages its days.
LEMMA AgreementMoves ==
  ASSUME InterestInv, NEW a \in Agreements, NEW row, agreement' = [agreement EXCEPT ![a] = row],
         AgreementRow(row), UNCHANGED <<owner, holding, today>>,
         row.status = "ACTIVE" =>
           \A b \in Agreements \ {a}, d \in Days :
             ~(Managed(b, d) /\ Runs(row, d) /\ agreement[b].estate = row.estate)
  PROVE  (InterestTyped /\ ArchivedIdle /\ OneInterest /\ OneManager)'
<1>1. /\ agreement' = [b \in Agreements |-> agreement'[b]] /\ agreement'[a] = row
      /\ \A b \in Agreements : b # a => agreement'[b] = agreement[b]
  BY DEF InterestInv, InterestTyped
<1>2. InterestTyped'
  BY <1>1 DEF InterestInv, InterestTyped
<1>3. ArchivedIdle' /\ OneInterest'
  BY DEF InterestInv, ArchivedIdle, OneInterest, HeldBy, Active, Runs
<1>4. OneManager'
  <2> SUFFICES ASSUME NEW b \in Agreements, NEW c \in Agreements, NEW d \in Days, b # c,
                      Managed(b, d)', Managed(c, d)', agreement'[b].estate = agreement'[c].estate
               PROVE  FALSE
    BY DEF OneManager
  <2>1. CASE b # a /\ c # a
    BY <1>1, <2>1 DEF InterestInv, OneManager, Managed, Runs
  <2>2. CASE b = a
    BY <1>1, <2>2 DEF Managed, Runs
  <2>3. CASE c = a
    BY <1>1, <2>3 DEF Managed, Runs
  <2> QED BY <2>1, <2>2, <2>3
<1> QED BY <1>2, <1>3, <1>4

LEMMA CreateAgreementKeeps ==
  ASSUME InterestAssumption, InterestInv, NEW m, NEW h, NEW a \in Agreements, NEW from \in Days,
         NEW to \in Ends,
         CreateAgreement(m, h, a, from, to)
  PROVE  InterestInv'
<1> PICK row : row = [status |-> "DRAFT", estate |-> h, from |-> from, to |-> to, version |-> 1]
  OBVIOUS
<1>1. /\ agreement' = [agreement EXCEPT ![a] = row] /\ agreement[a] = NoAgreement
      /\ UNCHANGED <<owner, holding, today, visit>>
  BY DEF CreateAgreement
<1>2. AgreementRow(row) /\ row.status = "DRAFT"
  <2>1. from \in Int /\ to \in Int
    BY DEF Days, Ends, Forever, InterestAssumption
  <2> QED BY <2>1 DEF AgreementRow
<1>3. /\ agreement'[a] = row /\ \A b \in Agreements : b # a => agreement'[b] = agreement[b]
  BY <1>1 DEF InterestInv, InterestTyped
<1>4. agreement[a].status = "NONE"
  BY <1>1 DEF NoAgreement
<1>5. ASSUME NEW b \in Agreements, NEW from2, Uncovered(b, from2), b # a PROVE Uncovered(b, from2)'
  BY <1>2, <1>3, <1>5 DEF Uncovered
<1>6. OneVisit' /\ \A u \in Visits : VisitFits(visit[u])'
  BY <1>1, <1>3, <1>4, <1>5 DEF InterestInv, OneVisit, VisitFits, HeldBy, Admitted, Concurrent
<1> QED BY <1>1, <1>2, <1>6, AgreementMoves DEF InterestInv

LEMMA AgreementWritesKeep ==
  ASSUME InterestAssumption, InterestInv, NEW v \in Visits, NEW a \in Agreements,
         UpdateAgreement(v, a) \/ MarkActive(v, a) \/ MarkTerminated(v, a)
  PROVE  InterestInv'
<1> PICK w : w = visit[v].writes
  OBVIOUS
<1> PICK r, version : r = agreement[a] /\ version = r.version + 1
  OBVIOUS
<1>1. OneVisit' /\ \A u \in Visits : VisitFits(visit[u])'
  BY WriteEnds DEF UpdateAgreement, MarkActive, MarkTerminated
<1>2. AgreementRow(r) /\ UNCHANGED <<owner, holding, today>>
  BY DEF InterestInv, InterestTyped, UpdateAgreement, MarkActive, MarkTerminated
<1>3. CASE UpdateAgreement(v, a)
  <2> PICK from, to : from = w.from /\ to = w.to
    OBVIOUS
  <2> PICK row : row = [r EXCEPT !.from = from, !.to = to, !.version = version]
    OBVIOUS
  <2>1. agreement' = [agreement EXCEPT ![a] = row] /\ WritesRow(v, "patch", a)
    <3>1. row = [agreement[a] EXCEPT !.from = visit[v].writes.from, !.to = visit[v].writes.to, !.version = agreement[a].version + 1]
      OBVIOUS
    <3>2. agreement' = [agreement EXCEPT ![a].from = visit[v].writes.from, ![a].to = visit[v].writes.to,
                                         ![a].version = @ + 1]
      BY <1>3, Zenon DEF UpdateAgreement
    <3>4. agreement' = [agreement EXCEPT ![a] = row]
      BY <3>1, <3>2 DEF InterestInv, InterestTyped, AgreementRow
    <3>3. WritesRow(v, "patch", a)
      BY <1>3, Zenon DEF UpdateAgreement
    <3> QED BY <3>3, <3>4
  <2>2. from \in Int /\ to \in Int /\ r.status \notin {"NONE", "ACTIVE"}
    BY <2>1 DEF WritesRow, InterestInv, VisitFits
  <2>3. AgreementRow(row) /\ row.status = r.status
    BY <1>2, <2>2 DEF AgreementRow
  <2> QED BY <1>1, <1>2, <2>1, <2>2, <2>3, AgreementMoves DEF InterestInv
<1>4. CASE MarkTerminated(v, a)
  <2> PICK row : row = [r EXCEPT !.status = "TERMINATED", !.to = w, !.version = version]
    OBVIOUS
  <2>1. agreement' = [agreement EXCEPT ![a] = row] /\ WritesRow(v, "terminate", a)
    <3>1. row = [agreement[a] EXCEPT !.status = "TERMINATED", !.to = visit[v].writes, !.version = agreement[a].version + 1]
      OBVIOUS
    <3>2. agreement' = [agreement EXCEPT ![a].status = "TERMINATED", ![a].to = visit[v].writes,
                                         ![a].version = @ + 1]
      BY <1>4, Zenon DEF MarkTerminated
    <3>4. agreement' = [agreement EXCEPT ![a] = row]
      BY <3>1, <3>2 DEF InterestInv, InterestTyped, AgreementRow
    <3>3. WritesRow(v, "terminate", a)
      BY <1>4, Zenon DEF MarkTerminated
    <3> QED BY <3>3, <3>4
  <2>2. w \in Int /\ r.status # "NONE"
    BY <2>1 DEF WritesRow, InterestInv, VisitFits
  <2>3. AgreementRow(row) /\ row.status = "TERMINATED"
    BY <1>2, <2>2 DEF AgreementRow
  <2> QED BY <1>1, <1>2, <2>1, <2>3, AgreementMoves DEF InterestInv
<1>5. CASE MarkActive(v, a)
  <2> PICK row : row = [r EXCEPT !.status = "ACTIVE", !.from = w, !.version = version]
    OBVIOUS
  <2>1. agreement' = [agreement EXCEPT ![a] = row] /\ WritesRow(v, "activate", a)
    <3>1. row = [agreement[a] EXCEPT !.status = "ACTIVE", !.from = visit[v].writes, !.version = agreement[a].version + 1]
      OBVIOUS
    <3>2. agreement' = [agreement EXCEPT ![a].status = "ACTIVE", ![a].from = visit[v].writes,
                                         ![a].version = @ + 1]
      BY <1>5, Zenon DEF MarkActive
    <3>4. agreement' = [agreement EXCEPT ![a] = row]
      BY <3>1, <3>2 DEF InterestInv, InterestTyped, AgreementRow
    <3>3. WritesRow(v, "activate", a)
      BY <1>5, Zenon DEF MarkActive
    <3> QED BY <3>3, <3>4
  <2>2. w \in Int /\ r.status = "DRAFT" /\ Uncovered(a, w)
    BY <2>1 DEF WritesRow, InterestInv, VisitFits
  <2>3. AgreementRow(row) /\ row.from = w /\ row.to = r.to /\ row.estate = r.estate
        /\ r.to \in Int
    BY <1>2, <2>2 DEF AgreementRow
  <2>4. ASSUME NEW b \in Agreements \ {a}, NEW d \in Days, Managed(b, d), Runs(row, d),
               agreement[b].estate = row.estate
        PROVE  FALSE
    <3>1. agreement[b].status = "ACTIVE" /\ agreement[b].from <= d /\ d < agreement[b].to
          /\ w <= d /\ d < r.to
      BY <2>3, <2>4 DEF Managed, Runs
    <3>2. d \in Int /\ agreement[b].from \in Int /\ agreement[b].to \in Int
      BY <3>1 DEF Days, InterestInv, InterestTyped, AgreementRow, InterestAssumption
    <3>3. agreement[b].from <= r.to /\ agreement[b].to > w
      BY <2>2, <2>3, <3>1, <3>2
    <3> QED BY <2>2, <2>3, <2>4, <3>1, <3>3 DEF Uncovered
  <2> QED BY <1>1, <1>2, <2>1, <2>3, <2>4, AgreementMoves DEF InterestInv
<1> QED BY <1>3, <1>4, <1>5

LEMMA InterestStep ==
  InterestAssumption /\ ~Overlapping /\ InterestInv /\ [InterestNext]_interestVars => InterestInv'
<1> SUFFICES ASSUME InterestAssumption, ~Overlapping, InterestInv, [InterestNext]_interestVars
             PROVE  InterestInv'
  OBVIOUS
<1>1. CASE Midnight \/ UNCHANGED interestVars
  BY <1>1, TimeKeeps
<1>2. ASSUME NEW p \in Owners, OwnerNext(p) PROVE InterestInv'
  BY <1>2, CreateOwnerKeeps, OwnerReadsKeep, OwnerWritesKeep DEF OwnerNext
<1>3. ASSUME NEW o \in Holdings, OwnershipNext(o) PROVE InterestInv'
  BY <1>3, OwnershipReadKeeps, OwnerReadsKeep, InsertOwnershipKeeps, UpdateOwnershipKeeps DEF
     OwnershipNext
<1>4. ASSUME NEW a \in Agreements, AgreementNext(a) PROVE InterestInv'
  <2>1. CASE \E m \in Members, h \in Estates, from \in Days, to \in Ends : CreateAgreement(m, h, a, from, to)
    BY <2>1, CreateAgreementKeeps
  <2>2. ASSUME NEW v \in Visits,
               \/ \E m \in Members, from \in Days, to \in Ends : PatchAgreement(v, m, a, from, to)
               \/ \E m \in Members, from \in Days : ActivateAgreement(v, m, a, from)
               \/ \E m \in Members, to \in Days : TerminateAgreement(v, m, a, to)
        PROVE  InterestInv'
    BY <2>2, AgreementReadsKeep
  <2>3. ASSUME NEW v \in Visits, UpdateAgreement(v, a) \/ MarkActive(v, a) \/ MarkTerminated(v, a)
        PROVE  InterestInv'
    BY <2>3, AgreementWritesKeep
  <2> QED BY <1>4, <2>1, <2>2, <2>3 DEF AgreementNext
<1>5. ASSUME NEW g \in Grants, GrantNext(g) PROVE InterestInv'
  BY <1>5, OwnerReadsKeep, TimeKeeps DEF GrantNext
<1> QED BY <1>1, <1>2, <1>3, <1>4, <1>5 DEF InterestNext

-----------------------------------------------------------------------------
(***************************************************************************)
(* Paging.                                                                 *)
(*                                                                         *)
(* For tables, pages and walks of any size.                                *)
(***************************************************************************)

PageRow == [there : BOOLEAN, match : BOOLEAN, rank : Ranks]

PageTyped ==
  /\ listing \in ListsWalked /\ steady \subseteq RowIds
  /\ rows \in [RowIds -> PageRow]
  /\ walk \in [shown : [RowIds -> Nat], done : BOOLEAN, after : RowIds \cup {0}]

\* The row of the cursor is one the client may rely on.
Reliable == cut => listing.cursor = "id"

\* Row x comes after the cursor.
Ahead(x) == walk.after = 0 \/ Precedes(walk.after, x)

\* A client on its way has been shown the steady rows up to its cursor, each once,
\* and none ahead of it; at the end all of them, each once.
Progress ==
  Reliable => \A x \in steady : walk.shown[x] = IF ~walk.done /\ Ahead(x) THEN 0 ELSE 1

PageInv ==
  /\ PageTyped
  /\ steady \subseteq Matching
  /\ walk.after # 0 /\ ~cut => walk.after \in Matching
  /\ Progress

\* The cursor of a keyset list goes with its order.
LEMMA CursorAndOrder ==
  ASSUME NEW l \in KeysetLists
  PROVE  \/ l.cursor = "id" /\ l.sorted = "id"
         \/ l.cursor \in {"key", "row", "position"} /\ l.sorted = "rank"
<1>1. \A v : /\ ById(v).cursor = "id" /\ ById(v).sorted = "id"
             /\ ByKey(v).cursor = "key" /\ ByKey(v).sorted = "rank"
             /\ ByRow(v).cursor = "row" /\ ByRow(v).sorted = "rank"
  BY DEF ById, ByKey, ByRow, Listing
<1>2. ListBuildings.cursor = "id" /\ ListRoles.cursor = "id"
  BY DEF ListBuildings, ListRoles, Listing
<1>3. GetInvoiceAging.cursor = "position" /\ GetInvoiceAging.sorted = "rank"
  BY DEF GetInvoiceAging, Listing
<1>4. \/ \E v : l = ById(v) \/ l = ByKey(v) \/ l = ByRow(v)
      \/ l \in {ListBuildings, ListRoles, GetInvoiceAging}
  BY Zenon DEF KeysetLists, AllLists, ListProperties, ListUnits, ListUnitsOrgWide,
     ListAvailability, ListBeds,
     ListAmenities, ListResidents, ListLeases, ListDocuments, ListOwners, ListOwnerships,
     ListAgreements, ListMembers, ListInvitations, ListGrants, GetHistory, ListOccupancyEvents,
     ListOperations, ListEntries, ListInvoices, ListCreditNotes, ListLedgerEntries,
     ListBillingRuns, ListMeters, ListDeposits, ListPayments, ListArrears, ListPeriods, ListRuns,
     ListItems
<1>5. l.cursor = "id" => l.sorted = "id"
  BY DEF KeysetLists
<1> QED BY <1>1, <1>2, <1>3, <1>4, <1>5

\* The order of a list is a strict total order of its rows.
LEMMA PrecedesOrders ==
  ASSUME PageTyped, NEW x \in RowIds, NEW y \in RowIds, NEW z \in RowIds
  PROVE  /\ x = y \/ Precedes(x, y) \/ Precedes(y, x)
         /\ ~(Precedes(x, y) /\ Precedes(y, x)) /\ ~Precedes(x, x)
         /\ Precedes(x, y) /\ Precedes(y, z) => Precedes(x, z)
<1>1. x \in Nat /\ y \in Nat /\ z \in Nat
  BY PagingAssumption DEF RowIds
<1>2. rows[x].rank \in Nat /\ rows[y].rank \in Nat /\ rows[z].rank \in Nat
  BY PagingAssumption DEF PageTyped, PageRow, Ranks
<1> QED BY <1>1, <1>2 DEF Precedes

\* A page is an initial part of what is still to be shown, all of it if that fits.
LEMMA PageIsFirst ==
  ASSUME PageTyped, NEW rest \in SUBSET RowIds
  PROVE  /\ FirstOf(rest) \subseteq rest
         /\ \A x \in FirstOf(rest), y \in rest : Precedes(y, x) => y \in FirstOf(rest)
         /\ ~(Cardinality(rest) > Limit) => FirstOf(rest) = rest
<1>1. NumRows \in Nat /\ Limit \in Nat
  BY PagingAssumption
<1>2. IsFiniteSet(rest)
  <2>1. IsFiniteSet(1..NumRows)
    BY <1>1, FS_Interval
  <2> QED BY <2>1, FS_Subset DEF RowIds
<1>3. ASSUME NEW x \in rest, NEW y \in rest, Precedes(y, x),
             Cardinality({z \in rest : Precedes(z, x)}) < Limit
      PROVE  Cardinality({z \in rest : Precedes(z, y)}) < Limit
  <2> DEFINE S == {z \in rest : Precedes(z, x)}
             T == {z \in rest : Precedes(z, y)}
  <2>1. T \subseteq S /\ S \subseteq rest
    BY <1>3, PrecedesOrders
  <2>2. IsFiniteSet(S)
    BY <1>2, <2>1, FS_Subset
  <2>3. Cardinality(T) <= Cardinality(S) /\ Cardinality(S) \in Nat /\ Cardinality(T) \in Nat
    <3> HIDE DEF S, T
    <3> QED BY <2>1, <2>2, FS_Subset, FS_CardinalityType
  <2> QED BY <1>1, <1>3, <2>3
<1>4. ASSUME NEW x \in rest, ~(Cardinality(rest) > Limit)
      PROVE  Cardinality({z \in rest : Precedes(z, x)}) < Limit
  <2> DEFINE S == {z \in rest : Precedes(z, x)}
  <2>1. S \subseteq rest /\ S # rest
    BY PrecedesOrders
  <2>2. /\ Cardinality(S) < Cardinality(rest)
        /\ Cardinality(S) \in Nat /\ Cardinality(rest) \in Nat
    <3> HIDE DEF S
    <3> QED BY <1>2, <2>1, FS_Subset, FS_CardinalityType
  <2> QED BY <1>1, <1>4, <2>2
<1> QED BY <1>3, <1>4 DEF FirstOf

\* What is still to be shown are the rows that match and are ahead of the cursor.
LEMMA RestIsAhead ==
  ASSUME ListsWalked \subseteq KeysetLists, PageInv, Reliable
  PROVE  Rest(walk.after) = {x \in Matching : Ahead(x)}
<1>1. PageTyped /\ Matching \subseteq RowIds /\ walk.after \in RowIds \cup {0}
  BY DEF PageInv, PageTyped, Matching
<1>2. \/ listing.cursor = "id" /\ listing.sorted = "id"
      \/ listing.cursor \in {"key", "row", "position"} /\ listing.sorted = "rank"
  BY <1>1, CursorAndOrder DEF PageTyped
<1>3. CASE walk.after = 0
  BY <1>3 DEF Rest, Ahead
<1>4. CASE walk.after # 0 /\ listing.cursor = "id"
  <2>1. Rest(walk.after) = {x \in Matching : x > walk.after}
    BY <1>4 DEF Rest
  <2>2. \A x \in Matching : Ahead(x) <=> x > walk.after
    <3>1. \A x, y \in Nat : x > y <=> y < x
      OBVIOUS
    <3>2. RowIds \subseteq Nat
      BY PagingAssumption DEF RowIds
    <3> QED BY <1>1, <1>2, <1>4, <3>1, <3>2 DEF Ahead, Precedes
  <2> QED BY <2>1, <2>2
<1>5. CASE walk.after # 0 /\ listing.cursor = "key"
  <2>1. Rest(walk.after) = {x \in Matching : Precedes(walk.after, x)}
    BY <1>5 DEF Rest
  <2> QED BY <1>5, <2>1 DEF Ahead
<1>6. CASE walk.after # 0 /\ listing.cursor \in {"row", "position"}
  <2>1. walk.after \in Matching
    BY <1>6 DEF PageInv, Reliable
  <2>2. CASE listing.cursor = "row"
    <3> DEFINE from == {x \in Matching : x = walk.after \/ Precedes(walk.after, x)}
    <3>1. Rest(walk.after) = {x \in from : \E y \in from : Precedes(y, x)}
      BY <1>6, <2>2 DEF Rest
    <3>2. walk.after \in from /\ \A y \in from : ~Precedes(y, walk.after)
      BY <1>1, <2>1, PrecedesOrders
    <3>3. \A x \in Matching : (x \in from /\ \E y \in from : Precedes(y, x)) <=> Precedes(walk.after, x)
      BY <1>1, <3>2
    <3> QED BY <1>6, <3>1, <3>3 DEF Ahead
  <2>3. CASE listing.cursor = "position"
    <3>1. Rest(walk.after) = {x \in Matching : walk.after \notin Matching \/ Precedes(walk.after, x)}
      BY <1>6, <2>3 DEF Rest
    <3> QED BY <1>6, <2>1, <3>1 DEF Ahead
  <2> QED BY <1>6, <2>2, <2>3
<1> QED BY <1>2, <1>3, <1>4, <1>5, <1>6

LEMMA PageInit ==
  ASSUME PagingInit PROVE PageInv
<1>1. PageTyped
  BY DEF PagingInit, PageTyped, PageRow
<1>2. steady \subseteq Matching /\ walk.after = 0 /\ \A x \in steady : walk.shown[x] = 0
  BY DEF PagingInit, Matching
<1>3. walk.done = FALSE
  BY DEF PagingInit
<1> QED BY <1>1, <1>2, <1>3 DEF PageInv, Progress, Ahead

LEMMA RowChangeKeeps ==
  ASSUME ListsWalked \subseteq KeysetLists, PageInv, NEW x \in RowIds, NEW row \in PageRow,
         Changed(x, row)
  PROVE  PageInv'
<1>1. /\ PageTyped /\ ~walk.done /\ steady' = steady \ {x} /\ rows' = [rows EXCEPT ![x] = row]
      /\ cut' = (cut \/ x = walk.after) /\ listing' = listing /\ walk' = walk
  BY DEF PageInv, Changed
<1>2. PageTyped'
  BY <1>1 DEF PageTyped
<1>3. \A y \in RowIds \ {x} : rows'[y] = rows[y]
  BY <1>1 DEF PageTyped
<1>4. steady' \subseteq Matching'
  BY <1>1, <1>3 DEF PageInv, Matching
<1>5. walk'.after # 0 /\ ~cut' => walk'.after \in Matching'
  BY <1>1, <1>3 DEF PageInv, Matching
<1>6. ASSUME Reliable', NEW y \in steady' PROVE walk'.shown[y] = IF ~walk'.done /\ Ahead(y)' THEN 0 ELSE 1
  <2>1. Reliable /\ y \in steady /\ y \in RowIds /\ y # x
    BY <1>1, <1>6 DEF Reliable, PageTyped
  <2>2. walk.shown[y] = IF ~walk.done /\ Ahead(y) THEN 0 ELSE 1
    BY <2>1 DEF PageInv, Progress
  <2>3. Ahead(y)' <=> Ahead(y)
    <3>1. CASE listing.cursor = "id"
      <4>1. listing.sorted = "id"
        BY <1>1, <3>1, CursorAndOrder DEF PageTyped
      <4> QED BY <1>1, <4>1 DEF Ahead, Precedes
    <3>2. CASE listing.cursor # "id"
      <4>1. x # walk.after
        BY <1>1, <1>6, <3>2 DEF Reliable
      <4>2. rows'[y] = rows[y] /\ (walk.after # 0 => rows'[walk.after] = rows[walk.after])
        BY <1>1, <1>3, <2>1, <4>1 DEF PageTyped
      <4> QED BY <1>1, <4>2 DEF Ahead, Precedes
    <3> QED BY <3>1, <3>2
  <2> QED BY <1>1, <2>2, <2>3
<1> QED BY <1>2, <1>4, <1>5, <1>6 DEF PageInv, Progress

LEMMA PageKeeps ==
  ASSUME ListsWalked \subseteq KeysetLists, PageInv, NextPage
  PROVE  PageInv'
<1>0. PICK rest, page, shown :
        /\ rest = Rest(walk.after) /\ page = FirstOf(rest)
        /\ shown = [x \in RowIds |-> walk.shown[x] + (IF x \in page THEN 1 ELSE 0)]
  OBVIOUS
<1>1. /\ PageTyped /\ ~walk.done /\ listing' = listing /\ rows' = rows /\ steady' = steady
      /\ cut' = cut
      /\ IF Cardinality(rest) > Limit
         THEN \E last \in page : /\ IsLast(last, page)
                                 /\ walk' = [shown |-> shown, done |-> FALSE, after |-> last]
         ELSE walk' = [shown |-> shown, done |-> TRUE, after |-> walk.after]
  BY <1>0 DEF PageInv, NextPage
<1>2. rest \subseteq Matching /\ Matching \subseteq RowIds /\ Matching' = Matching
  <2>1. listing.cursor \in {"id", "key", "row", "position"}
    BY <1>1, CursorAndOrder DEF PageTyped
  <2>2. rest \subseteq Matching
    <3>1. CASE walk.after = 0
      BY <1>0, <3>1 DEF Rest
    <3>2. CASE walk.after # 0 /\ listing.cursor = "id"
      BY <1>0, <3>2 DEF Rest
    <3>3. CASE walk.after # 0 /\ listing.cursor = "key"
      BY <1>0, <3>3 DEF Rest
    <3>4. CASE walk.after # 0 /\ listing.cursor = "row"
      BY <1>0, <3>4 DEF Rest
    <3>5. CASE walk.after # 0 /\ listing.cursor = "position"
      BY <1>0, <3>5 DEF Rest
    <3> QED BY <2>1, <3>1, <3>2, <3>3, <3>4, <3>5
  <2> QED BY <1>1, <2>2 DEF Matching
<1>3. /\ page \subseteq rest /\ \A x \in page, y \in rest : Precedes(y, x) => y \in page
      /\ ~(Cardinality(rest) > Limit) => page = rest
  BY <1>0, <1>1, <1>2, PageIsFirst
<1>4. shown \in [RowIds -> Nat]
  BY <1>0, <1>1 DEF PageTyped
<1>5. \A x \in steady : x \in RowIds /\ x \in Matching
  BY <1>1 DEF PageInv, PageTyped
<1>6. Reliable' <=> Reliable
  BY <1>1 DEF Reliable
<1>7. ASSUME Reliable, NEW x \in steady
      PROVE  /\ x \in rest <=> Ahead(x)
             /\ shown[x] = IF Ahead(x) /\ x \notin page THEN 0 ELSE 1
  <2>1. x \in rest <=> Ahead(x)
    BY <1>0, <1>5, <1>7, RestIsAhead
  <2>2. walk.shown[x] = IF Ahead(x) THEN 0 ELSE 1
    BY <1>1, <1>7 DEF PageInv, Progress
  <2> QED BY <1>0, <1>3, <1>5, <2>1, <2>2
<1>8. CASE ~(Cardinality(rest) > Limit)
  <2>1. walk' = [shown |-> shown, done |-> TRUE, after |-> walk.after]
    BY <1>1, <1>8
  <2>2. PageTyped'
    BY <1>1, <1>4, <2>1 DEF PageTyped
  <2>3. Progress'
    BY <1>1, <1>3, <1>6, <1>7, <1>8, <2>1 DEF Progress
  <2> QED BY <1>1, <1>2, <2>1, <2>2, <2>3 DEF PageInv
<1>9. CASE Cardinality(rest) > Limit
  <2>1. PICK last \in page : /\ IsLast(last, page)
                             /\ walk' = [shown |-> shown, done |-> FALSE, after |-> last]
    BY <1>1, <1>9
  <2>2. last \in rest /\ last \in Matching /\ last \in RowIds /\ last # 0
    BY <1>2, <1>3, PagingAssumption DEF RowIds
  <2>3. PageTyped'
    BY <1>1, <1>4, <2>1, <2>2 DEF PageTyped
  <2>4. ASSUME Reliable, NEW x \in steady
        PROVE  Precedes(last, x) <=> Ahead(x) /\ x \notin page
    <3>1. CASE x \in page
      <4>1. x = last \/ Precedes(x, last)
        BY <2>1, <3>1 DEF IsLast
      <4> QED BY <1>1, <1>5, <2>2, <3>1, <4>1, PrecedesOrders
    <3>2. CASE x \notin page /\ Ahead(x)
      <4>1. x \in rest /\ x # last /\ ~Precedes(x, last)
        BY <1>3, <1>7, <2>4, <3>2
      <4> QED BY <1>1, <1>5, <2>2, <3>2, <4>1, PrecedesOrders
    <3>3. CASE ~Ahead(x)
      <4>1. walk.after # 0 /\ walk.after \in RowIds /\ ~Precedes(walk.after, x)
        BY <1>1, <3>3 DEF Ahead, PageTyped
      <4>2. Precedes(walk.after, last)
        BY <1>0, <2>2, <2>4, <4>1, RestIsAhead DEF Ahead
      <4> QED BY <1>1, <1>5, <2>2, <3>3, <4>1, <4>2, PrecedesOrders
    <3> QED BY <3>1, <3>2, <3>3
  <2>5. \A x \in steady : Ahead(x)' <=> Precedes(last, x)
    BY <1>1, <2>1, <2>2 DEF Ahead, Precedes
  <2>6. Progress'
    BY <1>1, <1>6, <1>7, <2>1, <2>4, <2>5 DEF Progress
  <2> QED BY <1>1, <1>2, <2>1, <2>2, <2>3, <2>6 DEF PageInv
<1> QED BY <1>8, <1>9

LEMMA PagingStep ==
  ASSUME ListsWalked \subseteq KeysetLists, PageInv, [PagingNext]_pageVars
  PROVE  PageInv'
<1>1. CASE NextPage
  BY <1>1, PageKeeps
<1>2. ASSUME NEW x \in RowIds, ChangeMatch(x) PROVE PageInv'
  <2>1. [rows[x] EXCEPT !.match = ~@] \in PageRow
    BY DEF PageInv, PageTyped, PageRow
  <2> QED BY <1>2, <2>1, RowChangeKeeps DEF ChangeMatch
<1>3. ASSUME NEW x \in RowIds, NEW rank \in Ranks, InsertRow(x, rank) PROVE PageInv'
  <2>1. [there |-> TRUE, match |-> TRUE, rank |-> rank] \in PageRow
    BY DEF PageRow
  <2> QED BY <1>3, <2>1, RowChangeKeeps DEF InsertRow
<1>4. ASSUME NEW x \in RowIds, NEW rank \in Ranks, ChangeRank(x, rank) PROVE PageInv'
  <2>1. [rows[x] EXCEPT !.rank = rank] \in PageRow
    BY DEF PageInv, PageTyped, PageRow
  <2> QED BY <1>4, <2>1, RowChangeKeeps DEF ChangeRank
<1>5. CASE UNCHANGED pageVars
  BY <1>5 DEF pageVars, PageInv, PageTyped, Matching, Progress, Reliable, Ahead, Precedes
<1> QED BY <1>1, <1>2, <1>3, <1>4, <1>5 DEF PagingNext

\* WalkComplete (the list operations): a client that walks a list whose cursor goes with
\* its order sees every row that stays as it is, exactly once, whatever happens to the others,
\* for any number of rows, limit and number of changes meanwhile.
THEOREM WalksAreComplete ==
  ASSUME ListsWalked \subseteq KeysetLists PROVE PagingSpec => []WalkComplete
<1>1. PageInv /\ [PagingNext]_pageVars => PageInv'
  BY PagingStep
<1>2. PageInv => WalkComplete
  BY DEF PageInv, Progress, Reliable, WalkComplete, ShownOnce
<1> QED BY <1>1, <1>2, PageInit, PTL DEF PagingSpec

-----------------------------------------------------------------------------
(***************************************************************************)
(* The tables.  What the invariants above leave open of them.              *)
(***************************************************************************)

\* An open upload knows its document, and a link its target.
UploadKnows(r) ==
  /\ r.op # "closed" => r.document \in Documents
  /\ r.op = "link" => r.target \in Targets

DocumentRows ==
  /\ document \in [Documents -> DocumentRow]
  /\ object \in [Documents -> {"missing", "partial", "whole"}]
  /\ \A row \in links : row[1] \in Documents /\ row[2] \in Targets
  /\ site \in [Residents \cup Tenancies -> Sites \cup {NoSite}]
  /\ upload = [u \in Uploads |-> upload[u]]
  /\ \A u \in Uploads : /\ upload[u] = [field \in DOMAIN upload[u] |-> upload[u][field]]
                        /\ "op" \in DOMAIN upload[u] /\ UploadKnows(upload[u])

LEMMA UploadRow ==
  ASSUME DocumentRows, NEW u \in Uploads, NEW r, upload' = [upload EXCEPT ![u] = r],
         r = [field \in DOMAIN r |-> r[field]], "op" \in DOMAIN r, UploadKnows(r)
  PROVE  /\ upload' = [v \in Uploads |-> upload'[v]]
         /\ \A v \in Uploads : /\ upload'[v] = [field \in DOMAIN upload'[v] |-> upload'[v][field]]
                               /\ "op" \in DOMAIN upload'[v] /\ UploadKnows(upload'[v])
BY DEF DocumentRows

LEMMA UploadEnds ==
  ASSUME DocumentRows, NEW u \in Uploads, Closes(u)
  PROVE  /\ upload' = [v \in Uploads |-> upload'[v]]
         /\ \A v \in Uploads : /\ upload'[v] = [field \in DOMAIN upload'[v] |-> upload'[v][field]]
                               /\ "op" \in DOMAIN upload'[v] /\ UploadKnows(upload'[v])
<1>1. NoUpload = [field \in DOMAIN NoUpload |-> NoUpload[field]] /\ "op" \in DOMAIN NoUpload
      /\ UploadKnows(NoUpload)
  BY DEF NoUpload, UploadKnows
<1> QED BY <1>1, UploadRow DEF Closes

LEMMA DocumentRowsStep ==
  ASSUME DocumentRows, [DocumentNext]_documentVars
  PROVE  DocumentRows'
<1>1. CASE UNCHANGED documentVars
  BY <1>1 DEF documentVars, DocumentRows
<1>2. ASSUME NEW d \in Documents, ChangeHold(d) PROVE DocumentRows'
  <2>1. [document[d] EXCEPT !.hold = ~@] \in DocumentRow
    BY <1>2 DEF DocumentRows, DocumentRow
  <2>2. document' = [document EXCEPT ![d] = [document[d] EXCEPT !.hold = ~@]]
    BY <1>2 DEF ChangeHold, DocumentRows
  <2> QED BY <1>2, <2>1, <2>2 DEF ChangeHold, DocumentRows
<1>3. ASSUME NEW d \in Documents, NEW withBytes \in BOOLEAN, NEW targets \in SUBSET Targets,
             CreateUploadIntent(d, withBytes, targets)
      PROVE  DocumentRows'
  <2> PICK row : row = [NoDocument EXCEPT !.status = "UPLOADING", !.scan = "UPLOADING"]
    OBVIOUS
  <2>1. row \in DocumentRow
    BY DEF NoDocument, DocumentRow
  <2>2. document' = [document EXCEPT ![d] = row]
    BY <1>3 DEF CreateUploadIntent, DocumentRows
  <2>3. document' \in [Documents -> DocumentRow] /\ object' \in [Documents -> {"missing", "partial", "whole"}]
    BY <1>3, <2>1, <2>2 DEF CreateUploadIntent, DocumentRows
  <2>4. \A link \in links' : link[1] \in Documents /\ link[2] \in Targets
    BY <1>3 DEF CreateUploadIntent, DocumentRows
  <2> QED BY <1>3, <2>3, <2>4 DEF CreateUploadIntent, DocumentRows
<1>4. ASSUME NEW u \in Uploads, NEW r, Opens(u, r), UNCHANGED <<document, object, links, site>>,
             r = [field \in DOMAIN r |-> r[field]], "op" \in DOMAIN r, UploadKnows(r)
      PROVE  DocumentRows'
  BY <1>4, UploadRow DEF Opens, DocumentRows
<1>5. ASSUME NEW d \in Documents, NEW u \in Uploads,
             \/ DeleteRead(u, d)
             \/ \E withBytes \in BOOLEAN : CompleteRead(u, d, withBytes)
             \/ \E x \in Targets : LinkRead(u, d, x)
      PROVE  DocumentRows'
  <2>1. CASE DeleteRead(u, d)
    <3> PICK r : r = [op |-> "delete", document |-> d]
      OBVIOUS
    <3>1. r = [field \in DOMAIN r |-> r[field]] /\ "op" \in DOMAIN r /\ UploadKnows(r)
      BY DEF UploadKnows
    <3> QED BY <1>4, <2>1, <3>1 DEF DeleteRead
  <2>2. ASSUME NEW withBytes \in BOOLEAN, CompleteRead(u, d, withBytes) PROVE DocumentRows'
    <3> PICK op : op = IF withBytes THEN "put" ELSE "get"
      OBVIOUS
    <3> PICK r : r = [op |-> op, document |-> d]
      OBVIOUS
    <3>1. r = [field \in DOMAIN r |-> r[field]] /\ "op" \in DOMAIN r /\ UploadKnows(r)
      BY DEF UploadKnows
    <3> QED BY <1>4, <2>2, <3>1 DEF CompleteRead
  <2>3. ASSUME NEW x \in Targets, LinkRead(u, d, x) PROVE DocumentRows'
    <3> PICK r : r = [op |-> "link", document |-> d, target |-> x]
      OBVIOUS
    <3>1. r = [field \in DOMAIN r |-> r[field]] /\ "op" \in DOMAIN r /\ UploadKnows(r)
      BY DEF UploadKnows
    <3> QED BY <1>4, <2>3, <3>1 DEF LinkRead
  <2> QED BY <1>5, <2>1, <2>2, <2>3
<1>6. ASSUME NEW u \in Uploads, CompletePut(u) \/ CompleteGet(u) PROVE DocumentRows'
  <2> PICK row : row = upload[u]
    OBVIOUS
  <2>1. row = [field \in DOMAIN row |-> row[field]] /\ "op" \in DOMAIN row /\ UploadKnows(row)
        /\ row.op \in {"put", "write", "get"}
    BY <1>6 DEF DocumentRows, CompletePut, CompleteGet
  <2>2. PICK op \in {"write", "get", "complete"} : upload' = [upload EXCEPT ![u].op = op]
    BY <1>6 DEF CompletePut, CompleteGet
  <2> PICK r : r = [row EXCEPT !.op = op]
    OBVIOUS
  <2>3. upload' = [upload EXCEPT ![u] = r]
    BY <2>2 DEF DocumentRows
  <2>4. r = [field \in DOMAIN r |-> r[field]] /\ "op" \in DOMAIN r /\ UploadKnows(r)
    BY <2>1 DEF UploadKnows
  <2>5. object' \in [Documents -> {"missing", "partial", "whole"}]
    BY <1>6 DEF CompletePut, CompleteGet, DocumentRows
  <2>6. UNCHANGED <<document, links, site>>
    BY <1>6 DEF CompletePut, CompleteGet
  <2>7. /\ upload' = [v \in Uploads |-> upload'[v]]
        /\ \A v \in Uploads : /\ upload'[v] = [field \in DOMAIN upload'[v] |-> upload'[v][field]]
                              /\ "op" \in DOMAIN upload'[v] /\ UploadKnows(upload'[v])
    BY <2>3, <2>4, UploadRow
  <2> QED BY <2>5, <2>6, <2>7 DEF DocumentRows, UploadKnows
<1>7. ASSUME NEW u \in Uploads, CompleteWrite(u) \/ DeleteWrite(u) \/ LeaveUpload(u) PROVE DocumentRows'
  <2>1. document' \in [Documents -> DocumentRow]
    BY <1>7 DEF CompleteWrite, DeleteWrite, LeaveUpload, DocumentRows, DocumentRow
  <2> QED BY <1>7, <2>1, UploadEnds DEF CompleteWrite, DeleteWrite, LeaveUpload, DocumentRows
<1>8. ASSUME NEW u \in Uploads, LinkWrite(u) PROVE DocumentRows'
  <2>1. upload[u].document \in Documents /\ upload[u].target \in Targets
    BY <1>8 DEF LinkWrite, DocumentRows, UploadKnows
  <2>2. \A row \in links' : row[1] \in Documents /\ row[2] \in Targets
    BY <1>8, <2>1 DEF LinkWrite, DocumentRows
  <2> QED BY <1>8, <2>2, UploadEnds DEF LinkWrite, DocumentRows
<1>9. ASSUME NEW x \in Residents \cup Tenancies, NEW estate \in Sites \cup {NoSite}, ChangePlace(x, estate)
      PROVE  DocumentRows'
  BY <1>9 DEF ChangePlace, DocumentRows
<1> QED BY <1>1, <1>2, <1>3, <1>5, <1>6, <1>7, <1>8, <1>9 DEF DocumentNext

\* Rows fit their tables, for any documents and uploads, in either store.
THEOREM DocumentsFit == DocumentSpec => []DocumentTypeOK
<1>1. DocumentInit => DocumentRows
  <2> SUFFICES ASSUME DocumentInit PROVE DocumentRows
    OBVIOUS
  <2>1. NoDocument \in DocumentRow
    BY DEF NoDocument, DocumentRow
  <2>2. NoUpload = [field \in DOMAIN NoUpload |-> NoUpload[field]] /\ "op" \in DOMAIN NoUpload
        /\ UploadKnows(NoUpload)
    BY DEF NoUpload, UploadKnows
  <2> QED BY <2>1, <2>2 DEF DocumentInit, DocumentRows
<1>2. DocumentRows /\ [DocumentNext]_documentVars => DocumentRows'
  BY DocumentRowsStep
<1>3. DocumentRows => DocumentTypeOK
  BY DEF DocumentRows, DocumentRow, DocumentTypeOK
<1> QED BY <1>1, <1>2, <1>3, PTL DEF DocumentSpec

PlaceRow ==
  [status : {"NONE", "ACTIVE", "INACTIVE", "ARCHIVED"}, deleted : BOOLEAN, version : Nat,
   parent : Places \cup {Organization}, code : Codes \cup {"none"},
   building : Buildings \cup {NoBuilding}, mode : Modes]

\* What a call will set is what the columns of the table may hold.
ColumnsFit(s) ==
  /\ DOMAIN s \subseteq PlaceFields \ {"version"}
  /\ "status" \in DOMAIN s => s["status"] \in {"NONE", "ACTIVE", "INACTIVE", "ARCHIVED"}
  /\ "deleted" \in DOMAIN s => s["deleted"] \in BOOLEAN
  /\ "parent" \in DOMAIN s => s["parent"] \in Places \cup {Organization}
  /\ "code" \in DOMAIN s => s["code"] \in Codes \cup {"none"}
  /\ "building" \in DOMAIN s => s["building"] \in Buildings \cup {NoBuilding}
  /\ "mode" \in DOMAIN s => s["mode"] \in Modes

InventoryRows ==
  /\ place \in [Places -> PlaceRow]
  /\ edit = [c \in Editors |-> edit[c]]
  /\ \A c \in Editors : edit[c] # NoCall => edit[c].target \in Places /\ ColumnsFit(edit[c].set)

LEMMA EditOpens ==
  ASSUME InventoryRows, NEW c \in Editors, NEW op, NEW x \in Places, NEW columns, ColumnsFit(columns),
         Opened(c, op, x, columns)
  PROVE  InventoryRows'
<1> PICK version : version = IF op = "patch" THEN place[x].version ELSE 0
  OBVIOUS
<1> PICK e : e = [op |-> op, target |-> x, set |-> columns, version |-> version]
  OBVIOUS
<1>1. edit' = [edit EXCEPT ![c] = e] /\ UNCHANGED place
  BY DEF Opened
<1>2. e.target \in Places /\ ColumnsFit(e.set)
  OBVIOUS
<1> QED BY <1>1, <1>2 DEF InventoryRows

LEMMA InsertFits ==
  ASSUME InventoryRows, NEW c \in Editors, NEW code \in Codes,
         \/ \E p \in Properties : CreateProperty(c, p, code)
         \/ \E p \in Properties, b \in Buildings : CreateBuilding(c, b, p, code)
         \/ \E p \in Properties, u \in Units, mode \in Modes, b \in Buildings \cup {NoBuilding} :
              CreateUnit(c, u, p, code, mode, b)
         \/ \E u \in Units, b \in Beds : CreateBed(c, b, u, code)
  PROVE  InventoryRows'
<1>1. Properties \subseteq Places /\ Buildings \subseteq Places /\ Units \subseteq Places /\ Beds \subseteq Places
  BY DEF Places
<1>2. ASSUME NEW x \in Places,
             NEW parent \in Places \cup {Organization}, Opened(c, "create", x, New(parent, code))
      PROVE  InventoryRows'
  <2>1. PICK columns : columns = New(parent, code)
    OBVIOUS
  <2>2. DOMAIN columns = {"status", "parent", "code"} /\ columns["status"] = "ACTIVE"
        /\ columns["parent"] = parent /\ columns["code"] = code
    BY <2>1 DEF New
  <2>3. ColumnsFit(columns)
    BY <2>2 DEF ColumnsFit, PlaceFields
  <2> QED BY <1>2, <2>1, <2>3, EditOpens
<1>3. ASSUME NEW p \in Properties, NEW u \in Units, NEW mode \in Modes, NEW b \in Buildings \cup {NoBuilding},
             CreateUnit(c, u, p, code, mode, b)
      PROVE  InventoryRows'
  <2>1. PICK columns : columns = NewUnit(p, code, mode, b)
    OBVIOUS
  <2>2. DOMAIN columns = {"status", "parent", "code", "mode", "building"}
        /\ columns["status"] = "ACTIVE" /\ columns["parent"] = p /\ columns["code"] = code
        /\ columns["mode"] = mode /\ columns["building"] = b
    BY <2>1 DEF NewUnit
  <2>3. ColumnsFit(columns)
    BY <1>1, <2>2 DEF ColumnsFit, PlaceFields
  <2> QED BY <1>1, <1>3, <2>1, <2>3, EditOpens DEF CreateUnit
<1> QED BY <1>1, <1>2, <1>3 DEF CreateProperty, CreateBuilding, CreateBed

LEMMA ChangeFits ==
  ASSUME NEW columns,
         \/ columns \in Columns({"ACTIVE", "INACTIVE", "ARCHIVED"}, Codes)
         \/ columns \in Columns({"ACTIVE", "ARCHIVED"}, Codes) \/ columns \in Columns({}, Codes)
         \/ columns \in {[mode |-> m] : m \in Modes}
         \/ columns \in {[building |-> b] : b \in Buildings}
         \/ columns = [status |-> "ARCHIVED", deleted |-> TRUE] \/ columns = Restored
  PROVE  ColumnsFit(columns)
<1>1. CASE columns = <<>>
  BY <1>1 DEF ColumnsFit
<1>2. ASSUME NEW k \in Codes, columns = [code |-> k] PROVE ColumnsFit(columns)
  BY <1>2 DEF ColumnsFit, PlaceFields
<1>3. ASSUME NEW k \in Modes, columns = [mode |-> k] PROVE ColumnsFit(columns)
  BY <1>3 DEF ColumnsFit, PlaceFields
<1>4. ASSUME NEW k \in Buildings, columns = [building |-> k] PROVE ColumnsFit(columns)
  BY <1>4 DEF ColumnsFit, PlaceFields
<1>5. ASSUME NEW s \in {"ACTIVE", "INACTIVE", "ARCHIVED"}, columns = [status |-> s] PROVE ColumnsFit(columns)
  BY <1>5 DEF ColumnsFit, PlaceFields
<1>6. ASSUME NEW s \in {"ACTIVE", "ARCHIVED"}, NEW d \in BOOLEAN, columns = [status |-> s, deleted |-> d]
      PROVE  ColumnsFit(columns)
  BY <1>6 DEF ColumnsFit, PlaceFields
<1> QED BY <1>1, <1>2, <1>3, <1>4, <1>5, <1>6 DEF Columns, Restored

LEMMA CommitFits ==
  ASSUME InventoryRows, NEW c \in Editors, Commit(c)
  PROVE  InventoryRows'
<1> PICK e : e = edit[c]
  OBVIOUS
<1> PICK x : x = e.target
  OBVIOUS
<1> PICK old : old = place[x]
  OBVIOUS
<1> PICK s : s = e.set
  OBVIOUS
<1>1. x \in Places /\ old \in PlaceRow /\ ColumnsFit(s)
  BY DEF Commit, InventoryRows
<1> PICK u : u = Updated(old, s)
  OBVIOUS
<1>2. DOMAIN old = PlaceFields
  BY <1>1 DEF PlaceRow, PlaceFields
<1>3. u = [f \in PlaceFields |-> IF f \in DOMAIN s THEN s[f] ELSE old[f]]
  BY <1>2 DEF Updated
<1> PICK r : r = [u EXCEPT !.version = u.version + 1]
  OBVIOUS
<1>4. r = [f \in PlaceFields |-> IF f = "version" THEN u["version"] + 1 ELSE u[f]]
  BY <1>3 DEF PlaceFields
<1>5. /\ r["status"] \in {"NONE", "ACTIVE", "INACTIVE", "ARCHIVED"} /\ r["deleted"] \in BOOLEAN
      /\ r["parent"] \in Places \cup {Organization} /\ r["code"] \in Codes \cup {"none"}
      /\ r["building"] \in Buildings \cup {NoBuilding} /\ r["mode"] \in Modes
  BY <1>1, <1>3, <1>4 DEF PlaceRow, ColumnsFit, PlaceFields
<1>6. r["version"] \in Nat
  BY <1>1, <1>3, <1>4 DEF PlaceRow, ColumnsFit, PlaceFields
<1>7. r \in PlaceRow
  BY <1>4, <1>5, <1>6 DEF PlaceRow, PlaceFields
<1>8. place' = [place EXCEPT ![x] = r] /\ edit' = [edit EXCEPT ![c] = NoCall]
  BY DEF Commit
<1> QED BY <1>1, <1>7, <1>8 DEF InventoryRows

LEMMA InventoryRowsStep ==
  ASSUME InventoryAssumption, InventoryRows, [InventoryNext]_inventoryVars
  PROVE  InventoryRows'
<1>1. Properties \subseteq Places /\ Buildings \subseteq Places /\ Units \subseteq Places /\ Beds \subseteq Places
  BY DEF Places
<1>2. CASE UNCHANGED inventoryVars
  BY <1>2 DEF inventoryVars, InventoryRows
<1>3. ASSUME NEW c \in Editors, Abandon(c) PROVE InventoryRows'
  BY <1>3 DEF Abandon, InventoryRows
<1>4. ASSUME NEW c \in Editors, NEW op, NEW x \in Places, NEW columns, Opened(c, op, x, columns),
             \/ columns \in Columns({"ACTIVE", "INACTIVE", "ARCHIVED"}, Codes)
             \/ columns \in Columns({"ACTIVE", "ARCHIVED"}, Codes) \/ columns \in Columns({}, Codes)
             \/ columns \in {[mode |-> m] : m \in Modes}
             \/ columns \in {[building |-> b] : b \in Buildings}
             \/ columns = [status |-> "ARCHIVED", deleted |-> TRUE] \/ columns = Restored
      PROVE  InventoryRows'
  BY <1>4, ChangeFits, EditOpens
<1>5. ASSUME NEW c \in Editors, NEW x \in Places, Archive(c, x) PROVE InventoryRows'
  BY <1>4, <1>5 DEF Archive
<1>6. ASSUME NEW c \in Editors, NEW p \in Properties,
             \/ ArchiveProperty(c, p) \/ RestoreProperty(c, p)
             \/ \E columns \in Columns({"ACTIVE", "INACTIVE", "ARCHIVED"}, Codes) : Patch(c, p, columns)
      PROVE  InventoryRows'
  BY <1>1, <1>4, <1>5, <1>6 DEF ArchiveProperty, RestoreProperty, Patch
<1>7. ASSUME NEW c \in Editors, NEW b \in Buildings,
             ArchiveBuilding(c, b) \/ \E columns \in Columns({}, Codes) : Patch(c, b, columns)
      PROVE  InventoryRows'
  BY <1>1, <1>4, <1>5, <1>7 DEF ArchiveBuilding, Patch
<1>8. ASSUME NEW c \in Editors, NEW u \in Units,
             \/ Archive(c, u) \/ RestoreUnit(c, u)
             \/ \E columns \in Columns({"ACTIVE", "ARCHIVED"}, Codes) \cup {[mode |-> m] : m \in Modes}
                                 \cup {[building |-> b] : b \in Buildings} : PatchUnit(c, u, columns)
      PROVE  InventoryRows'
  <2>1. ASSUME NEW columns \in Columns({"ACTIVE", "ARCHIVED"}, Codes) \cup {[mode |-> m] : m \in Modes}
                                 \cup {[building |-> b] : b \in Buildings}, PatchUnit(c, u, columns)
        PROVE  InventoryRows'
    <3>1. Opened(c, "patch", u, columns)
      BY <2>1 DEF PatchUnit, Patch
    <3> QED BY <1>1, <1>4, <2>1, <3>1
  <2>2. RestoreUnit(c, u) => InventoryRows'
    BY <1>1, <1>4 DEF RestoreUnit
  <2> QED BY <1>1, <1>5, <1>8, <2>1, <2>2
<1>9. ASSUME NEW c \in Editors, NEW b \in Beds,
             Archive(c, b) \/ \E columns \in Columns({"ACTIVE", "ARCHIVED"}, Codes) : Patch(c, b, columns)
      PROVE  InventoryRows'
  BY <1>1, <1>4, <1>5, <1>9 DEF Patch
<1> QED BY <1>2, <1>3, <1>6, <1>7, <1>8, <1>9, InsertFits, CommitFits DEF InventoryNext

\* Rows fit their tables and hang under rows of the right ones, for any properties,
\* buildings, units and beds.
THEOREM PlacesTyped == InventorySpec => []InventoryTypeOK
<1>1. InventoryInit => InventoryRows
  <2>1. NoPlace \in PlaceRow
    BY DEF NoPlace, PlaceRow, Modes
  <2> QED BY <2>1 DEF InventoryInit, InventoryRows
<1>2. InventoryAssumption /\ InventoryRows /\ [InventoryNext]_inventoryVars => InventoryRows'
  BY InventoryRowsStep
<1>3. InventoryInv /\ InventoryRows => InventoryTypeOK
  <2> SUFFICES ASSUME InventoryInv, InventoryRows PROVE InventoryTypeOK
    OBVIOUS
  <2>1. \A x \in Beds : place[x] # NoPlace => place[x].parent \in Units
    BY DEF InventoryInv, RowFits, ParentFits, Places
  <2>2. place \in [Places -> PlaceRow]
    BY DEF InventoryRows
  <2> QED BY <2>1, <2>2 DEF InventoryTypeOK, PlaceRow
<1> QED BY <1>1, <1>2, <1>3, InventoryAssumption, InventoryStart, InventoryStep, PTL DEF InventorySpec

\* The cursor of any list is used in one of the four ways.
LEMMA CursorKinds ==
  ASSUME NEW l \in AllLists
  PROVE  l.cursor \in {"id", "key", "row", "position"}
<1>1. \A v : ById(v).cursor = "id" /\ ByKey(v).cursor = "key" /\ ByRow(v).cursor = "row"
  BY DEF ById, ByKey, ByRow, Listing
<1>2. ListBuildings.cursor = "id" /\ ListRoles.cursor = "id" /\ GetInvoiceAging.cursor = "position"
  BY DEF ListBuildings, ListRoles, GetInvoiceAging, Listing
<1>3. \/ \E v : l = ById(v) \/ l = ByKey(v) \/ l = ByRow(v)
      \/ l \in {ListBuildings, ListRoles, GetInvoiceAging}
  BY Zenon DEF AllLists, ListProperties, ListUnits, ListUnitsOrgWide, ListAvailability, ListBeds,
     ListAmenities, ListResidents, ListLeases, ListDocuments, ListOwners, ListOwnerships,
     ListAgreements, ListMembers, ListInvitations, ListGrants, GetHistory, ListOccupancyEvents,
     ListOperations, ListEntries, ListInvoices, ListCreditNotes, ListLedgerEntries,
     ListBillingRuns, ListMeters, ListDeposits, ListPayments, ListArrears, ListPeriods, ListRuns,
     ListItems
<1> QED BY <1>1, <1>2, <1>3

WalkTyped == PageTyped /\ changes \in 0..MaxChanges

\* A page of any list is one of rows of the table.
LEMMA PageTypes ==
  ASSUME WalkTyped, NextPage
  PROVE  WalkTyped'
<1>0. PICK rest, page, shown :
        /\ rest = Rest(walk.after) /\ page = FirstOf(rest)
        /\ shown = [x \in RowIds |-> walk.shown[x] + (IF x \in page THEN 1 ELSE 0)]
  OBVIOUS
<1>1. PageTyped /\ UNCHANGED <<listing, rows, steady, changes>>
  BY DEF WalkTyped, NextPage
<1>2. listing.cursor \in {"id", "key", "row", "position"}
  BY <1>1, ListAssumption, CursorKinds DEF PageTyped
<1>3. rest \subseteq Matching
  <2>1. CASE walk.after = 0
    BY <1>0, <2>1 DEF Rest
  <2>2. CASE walk.after # 0 /\ listing.cursor = "id"
    BY <1>0, <2>2 DEF Rest
  <2>3. CASE walk.after # 0 /\ listing.cursor = "key"
    BY <1>0, <2>3 DEF Rest
  <2>4. CASE walk.after # 0 /\ listing.cursor = "row"
    BY <1>0, <2>4 DEF Rest
  <2>5. CASE walk.after # 0 /\ listing.cursor = "position"
    BY <1>0, <2>5 DEF Rest
  <2> QED BY <1>2, <2>1, <2>2, <2>3, <2>4, <2>5
<1>4. page \subseteq RowIds
  BY <1>0, <1>3 DEF FirstOf, Matching
<1>5. shown \in [RowIds -> Nat]
  BY <1>0, <1>1 DEF PageTyped
<1>6. \/ walk' = [shown |-> shown, done |-> TRUE, after |-> walk.after]
      \/ \E last \in page : walk' = [shown |-> shown, done |-> FALSE, after |-> last]
  BY <1>0 DEF NextPage
<1>7. walk' \in [shown : [RowIds -> Nat], done : BOOLEAN, after : RowIds \cup {0}]
  <2>1. walk.after \in RowIds \cup {0}
    BY <1>1 DEF PageTyped
  <2>2. \A after \in RowIds \cup {0}, done \in BOOLEAN :
          [shown |-> shown, done |-> done, after |-> after]
            \in [shown : [RowIds -> Nat], done : BOOLEAN, after : RowIds \cup {0}]
    BY <1>5
  <2>3. page \subseteq RowIds \cup {0}
    BY <1>4
  <2> QED BY <1>6, <2>1, <2>2, <2>3
<1> QED BY <1>1, <1>7 DEF WalkTyped, PageTyped

\* Walks fit, of any list and over tables of any size.
THEOREM WalksTyped == PagingSpec => []PagingTypeOK
<1>1. PagingInit => WalkTyped
  <2> SUFFICES ASSUME PagingInit PROVE WalkTyped
    OBVIOUS
  <2>1. PageTyped
    BY PageInit DEF PageInv
  <2>2. changes \in 0..MaxChanges
    BY PagingAssumption DEF PagingInit
  <2> QED BY <2>1, <2>2 DEF WalkTyped
<1>2. ASSUME WalkTyped, [PagingNext]_pageVars PROVE WalkTyped'
  <2>1. ASSUME NEW x \in RowIds, NEW row \in PageRow, Changed(x, row) PROVE WalkTyped'
    BY <1>2, <2>1, PagingAssumption DEF Changed, WalkTyped, PageTyped
  <2>2. ASSUME NEW x \in RowIds, ChangeMatch(x) PROVE WalkTyped'
    <3>1. [rows[x] EXCEPT !.match = ~@] \in PageRow
      BY <1>2 DEF WalkTyped, PageTyped, PageRow
    <3> QED BY <2>1, <2>2, <3>1 DEF ChangeMatch
  <2>3. ASSUME NEW x \in RowIds, NEW rank \in Ranks, InsertRow(x, rank) \/ ChangeRank(x, rank)
        PROVE  WalkTyped'
    <3>1. [there |-> TRUE, match |-> TRUE, rank |-> rank] \in PageRow
          /\ [rows[x] EXCEPT !.rank = rank] \in PageRow
      BY <1>2 DEF WalkTyped, PageTyped, PageRow
    <3> QED BY <2>1, <2>3, <3>1 DEF InsertRow, ChangeRank
  <2>4. CASE UNCHANGED pageVars
    BY <1>2, <2>4 DEF pageVars, WalkTyped, PageTyped
  <2> QED BY <1>2, <2>2, <2>3, <2>4, PageTypes DEF PagingNext
<1>3. WalkTyped => PagingTypeOK
  BY DEF WalkTyped, PageTyped, PageRow, PagingTypeOK
<1> QED BY <1>1, <1>2, <1>3, PTL DEF PagingSpec

ProfileRow ==
  [status : ProfileStatuses \cup {"NONE"}, deleted : BOOLEAN, home : Homes \cup {NoHome}, version : Nat,
   contacts : SUBSET ContactValues, ids : SUBSET Identifiers]
EntryRow == [status : EntryStatuses \cup {"NONE"}, home : Homes \cup {NoHome}, version : Nat]
DraftLease == [status : {"DRAFT", "ACTIVE"}, version : 1..3]

\* What a call will insert or update is what a profile may hold.
DeskKnows(r) ==
  /\ r.op = "create" /\ r.at = "insert" =>
       r.saw[1] \in Homes /\ r.saw[2] \subseteq ContactValues /\ r.saw[3] \subseteq Identifiers
  /\ r.op = "patch" /\ r.at = "update" => r.saw \in Homes

DesksKnow == \A d \in Desks : DeskKnows(desk[d])

ResidentRows ==
  /\ profile \in [Persons -> ProfileRow]
  /\ entry \in [Entries -> EntryRow]
  /\ draft \in [Drafts -> DraftLease]
  /\ \A l \in Drafts : draft[l].status = "DRAFT" => draft[l].version \in 1..2
  /\ DesksKnow

LEMMA DeskTurns ==
  ASSUME ResidentInv, ResidentRows, NEW d \in Desks, NEW r, desk' = [desk EXCEPT ![d] = r], DeskKnows(r)
  PROVE  DesksKnow'
BY DEF ResidentInv, FlagsTyped, ResidentRows, DesksKnow, DeskKnows

LEMMA DeskGoesOn ==
  ASSUME ResidentInv, ResidentRows, NEW d \in Desks,
         \/ HangUp(d)
         \/ \E op, at, s, x, saw : op # "create" /\ op # "patch" /\ CallAt(d, op, at, s, x, saw)
         \/ \E at, saw : at \notin {"insert", "update"} /\ OnStep(d, at, saw)
         \/ desk' = [desk EXCEPT ![d] = [Vacant EXCEPT !.op = "join", !.at = "done"]]
  PROVE  DesksKnow'
<1> PICK old : old = desk[d]
  OBVIOUS
<1>0. CallRow(old)
  BY DEF ResidentInv, FlagsTyped
<1>1. CASE HangUp(d)
  <2> PICK r : r = [old EXCEPT !.at = "done", !.saw = {}]
    OBVIOUS
  <2>1. desk' = [desk EXCEPT ![d] = r]
    BY <1>1 DEF HangUp
  <2>2. r.at = "done"
    BY <1>0 DEF CallRow
  <2> QED BY <2>1, <2>2, DeskTurns DEF DeskKnows
<1>2. ASSUME NEW op, NEW at, NEW s, NEW x, NEW saw, op # "create", op # "patch", CallAt(d, op, at, s, x, saw)
      PROVE  DesksKnow'
  <2> PICK r : r = [op |-> op, at |-> at, by |-> {s}, on |-> {x}, saw |-> saw]
    OBVIOUS
  <2>1. desk' = [desk EXCEPT ![d] = r] /\ r.op = op
    BY <1>2 DEF CallAt
  <2> QED BY <1>2, <2>1, DeskTurns DEF DeskKnows
<1>3. ASSUME NEW at, NEW saw, at \notin {"insert", "update"}, OnStep(d, at, saw) PROVE DesksKnow'
  <2> PICK r : r = [old EXCEPT !.at = at, !.saw = saw]
    OBVIOUS
  <2>1. desk' = [desk EXCEPT ![d] = r]
    BY <1>3 DEF OnStep, ResidentInv, FlagsTyped
  <2>2. r.at = at
    BY <1>0 DEF CallRow
  <2> QED BY <1>3, <2>1, <2>2, DeskTurns DEF DeskKnows
<1>4. CASE desk' = [desk EXCEPT ![d] = [Vacant EXCEPT !.op = "join", !.at = "done"]]
  <2> PICK r : r = [Vacant EXCEPT !.op = "join", !.at = "done"]
    OBVIOUS
  <2>1. r.op = "join"
    BY DEF Vacant
  <2> QED BY <1>4, <2>1, DeskTurns DEF DeskKnows
<1> QED BY <1>1, <1>2, <1>3, <1>4

LEMMA ProfileEdits ==
  ASSUME NEW r \in ProfileRow, NEW home \in Homes, NEW status \in ProfileStatuses,
         NEW cs \in SUBSET ContactValues
  PROVE  [r EXCEPT !.home = home, !.status = status, !.contacts = cs, !.version = @ + 1] \in ProfileRow
<1>1. r.version + 1 \in Nat
  BY DEF ProfileRow
<1>3. \A s \in ProfileRow : [s EXCEPT !.home = home] \in ProfileRow
  BY DEF ProfileRow
<1>4. \A s \in ProfileRow : [s EXCEPT !.status = status] \in ProfileRow
  BY DEF ProfileRow
<1>5. \A s \in ProfileRow : [s EXCEPT !.contacts = cs] \in ProfileRow
  BY DEF ProfileRow
<1>6. \A v \in Nat : [r EXCEPT !.home = home, !.status = status, !.contacts = cs, !.version = v] \in ProfileRow
  <2>1. \A v \in Nat, s \in ProfileRow : [s EXCEPT !.version = v] \in ProfileRow
    BY DEF ProfileRow
  <2> QED BY <1>3, <1>4, <1>5, <2>1, Zenon
<1> QED BY <1>1, <1>6, Zenon

LEMMA ProfileArchives ==
  ASSUME NEW r \in ProfileRow
  PROVE  [r EXCEPT !.status = "ARCHIVED", !.deleted = TRUE, !.version = @ + 1] \in ProfileRow
<1>1. r.version + 1 \in Nat
  BY DEF ProfileRow
<1>2. \A v \in Nat : [r EXCEPT !.status = "ARCHIVED", !.deleted = TRUE, !.version = v] \in ProfileRow
  BY DEF ProfileRow, ProfileStatuses
<1> QED BY <1>1, <1>2, Zenon

LEMMA EntryEdits ==
  ASSUME NEW r \in EntryRow, NEW status \in EntryStatuses
  PROVE  [r EXCEPT !.status = status, !.version = @ + 1] \in EntryRow
<1>1. r.version + 1 \in Nat
  BY DEF EntryRow
<1>2. \A v \in Nat : [r EXCEPT !.status = status, !.version = v] \in EntryRow
  BY DEF EntryRow
<1> QED BY <1>1, <1>2, Zenon

LEMMA ProfileRowsKeep ==
  ASSUME ResidentInv, ResidentRows, NEW d \in Desks, NEW p \in Persons, ProfileStep(d, p)
  PROVE  ResidentRows'
<1>0. ASSUME NEW row \in ProfileRow, profile' = profile \/ profile' = [profile EXCEPT ![p] = row],
             UNCHANGED <<entry, draft>>, DesksKnow'
      PROVE  ResidentRows'
  BY <1>0 DEF ResidentRows
<1> PICK old \in ProfileRow : old = profile[p]
  BY DEF ResidentRows
<1>1. ASSUME NEW s \in Staff, NEW home \in Homes, NEW cs \in SUBSET ContactValues,
             NEW is \in SUBSET Identifiers,
             NEW confirm \in BOOLEAN, CreateResident(d, s, p, home, cs, is, confirm)
      PROVE  ResidentRows'
  <2> PICK r : r = [op |-> "create", at |-> "insert", by |-> {s}, on |-> {p}, saw |-> <<home, cs, is>>]
    OBVIOUS
  <2>1. desk' = [desk EXCEPT ![d] = r]
    BY <1>1 DEF CreateResident, CallAt
  <2>2. DeskKnows(r)
    BY DEF DeskKnows
  <2>3. DesksKnow'
    BY <2>1, <2>2, DeskTurns
  <2> QED BY <1>0, <1>1, <2>3 DEF CreateResident
<1>2. ASSUME NEW status \in ProfileStatuses, InsertResident(d, p, status) PROVE ResidentRows'
  <2> PICK new : new = desk[d].saw
    OBVIOUS
  <2>1. new[1] \in Homes /\ new[2] \subseteq ContactValues /\ new[3] \subseteq Identifiers
    BY <1>2 DEF InsertResident, Doing, ResidentRows, DesksKnow, DeskKnows
  <2> PICK row : row = [status |-> status, deleted |-> FALSE, home |-> new[1], version |-> 1,
                        contacts |-> new[2], ids |-> new[3]]
    OBVIOUS
  <2>2. row \in ProfileRow
    BY <2>1 DEF ProfileRow
  <2>3. profile' = profile \/ profile' = [profile EXCEPT ![p] = row]
    BY <1>2 DEF InsertResident
  <2> QED BY <1>0, <1>2, <2>2, <2>3, DeskGoesOn DEF InsertResident
<1>3. ASSUME NEW s \in Staff, NEW home \in Homes, PatchResident(d, s, p, home) PROVE ResidentRows'
  <2> PICK r : r = [op |-> "patch", at |-> "update", by |-> {s}, on |-> {p}, saw |-> home]
    OBVIOUS
  <2>1. desk' = [desk EXCEPT ![d] = r]
    BY <1>3 DEF PatchResident, CallAt
  <2>2. DeskKnows(r)
    BY DEF DeskKnows
  <2>3. DesksKnow'
    BY <2>1, <2>2, DeskTurns
  <2> QED BY <1>0, <1>3, <2>3 DEF PatchResident
<1>4. ASSUME NEW status \in ProfileStatuses, NEW cs \in SUBSET ContactValues, UpdateResident(d, p, status, cs)
      PROVE  ResidentRows'
  <2> PICK home : home = desk[d].saw
    OBVIOUS
  <2>1. home \in Homes
    BY <1>4 DEF UpdateResident, Doing, ResidentRows, DesksKnow, DeskKnows
  <2> PICK row : row = [profile[p] EXCEPT !.home = desk[d].saw, !.status = status, !.contacts = cs, !.version = @ + 1]
    OBVIOUS
  <2>2. row \in ProfileRow
    BY <2>1, ProfileEdits, Zenon
  <2>3. profile' = [profile EXCEPT ![p] = row]
    BY <1>4 DEF UpdateResident
  <2> QED BY <1>0, <1>4, <2>2, <2>3, DeskGoesOn DEF UpdateResident
<1>5. ASSUME NEW s \in Staff, ArchiveResident(d, s, p) PROVE ResidentRows'
  <2>1. DesksKnow'
    BY <1>5, DeskGoesOn DEF ArchiveResident
  <2> QED BY <1>0, <1>5, <2>1 DEF ArchiveResident
<1>6. CASE MarkArchived(d, p)
  <2> PICK row : row = [profile[p] EXCEPT !.status = "ARCHIVED", !.deleted = TRUE, !.version = @ + 1]
    OBVIOUS
  <2>1. row \in ProfileRow
    BY ProfileArchives, Zenon
  <2>2. profile' = [profile EXCEPT ![p] = row]
    BY <1>6 DEF MarkArchived
  <2> QED BY <1>0, <1>6, <2>1, <2>2, DeskGoesOn DEF MarkArchived
<1> QED BY <1>1, <1>2, <1>3, <1>4, <1>5, <1>6 DEF ProfileStep

LEMMA FlagRowsKeep ==
  ASSUME ResidentInv, ResidentRows, NEW d \in Desks, NEW p \in Persons, FlagStep(d, p)
  PROVE  ResidentRows'
<1>1. UNCHANGED <<profile, entry, draft>>
  BY DEF FlagStep, DoNotRent, SeeFlags, SupersedeFlags, RaiseFlag, ClearFlags
<1>2. \/ HangUp(d)
      \/ \E op, at, s, x, saw : op # "create" /\ op # "patch" /\ CallAt(d, op, at, s, x, saw)
      \/ \E at, saw : at \notin {"insert", "update"} /\ OnStep(d, at, saw)
  BY DEF FlagStep, DoNotRent, SeeFlags, SupersedeFlags, RaiseFlag, ClearFlags
<1> QED BY <1>1, <1>2, DeskGoesOn DEF ResidentRows

LEMMA DraftRowsKeep ==
  ASSUME ResidentInv, ResidentRows, NEW d \in Desks, NEW l \in Drafts, LeaseStep(d, l)
  PROVE  ResidentRows'
<1>0. ASSUME NEW row \in DraftLease, row.status = "DRAFT" => row.version \in 1..2,
             draft' = draft \/ draft' = [draft EXCEPT ![l] = row], UNCHANGED <<profile, entry>>, DesksKnow'
      PROVE  ResidentRows'
  BY <1>0 DEF ResidentRows
<1> PICK old \in DraftLease : old = draft[l] /\ (old.status = "DRAFT" => old.version \in 1..2)
  BY DEF ResidentRows
<1>1. CASE EditDraft(l)
  <2> PICK row : row = [old EXCEPT !.version = 2]
    OBVIOUS
  <2>1. row \in DraftLease /\ row.version \in 1..2
    BY DEF DraftLease
  <2>2. draft' = [draft EXCEPT ![l] = row] /\ UNCHANGED <<profile, entry, desk>>
    BY <1>1 DEF EditDraft, ResidentRows
  <2>3. DesksKnow'
    BY <2>2 DEF ResidentRows, DesksKnow, DeskKnows
  <2> QED BY <1>0, <2>1, <2>2, <2>3
<1>2. ASSUME NEW s \in Staff, NEW override \in BOOLEAN, ActivateDraft(d, s, l, override) PROVE ResidentRows'
  <2> PICK op \in {"activate", "override"} : op = IF override THEN "override" ELSE "activate"
    OBVIOUS
  <2>1. CallAt(d, op, "screen", s, l, draft[l].version) /\ UNCHANGED <<profile, entry, draft>>
    BY <1>2 DEF ActivateDraft
  <2>2. DesksKnow'
    BY <2>1, DeskGoesOn
  <2> QED BY <1>0, <2>1, <2>2
<1>3. CASE Screen(d, l)
  <2>1. DesksKnow'
    BY <1>3, DeskGoesOn DEF Screen
  <2> QED BY <1>0, <1>3, <2>1 DEF Screen
<1>4. CASE ClaimDraft(d, l)
  <2>1. CASE draft' = draft
    <3>1. DesksKnow' /\ UNCHANGED <<profile, entry>>
      BY <1>4, DeskGoesOn DEF ClaimDraft
    <3> QED BY <1>0, <2>1, <3>1
  <2>2. CASE draft' # draft
    <3> PICK row : row = [status |-> "ACTIVE", version |-> old.version + 1]
      OBVIOUS
    <3>1. old.status = "DRAFT" /\ draft' = [draft EXCEPT ![l] = row]
      BY <1>4, <2>2 DEF ClaimDraft
    <3>2. row \in DraftLease /\ row.status # "DRAFT"
      BY <3>1 DEF DraftLease
    <3>3. DesksKnow' /\ UNCHANGED <<profile, entry>>
      BY <1>4, DeskGoesOn DEF ClaimDraft
    <3> QED BY <1>0, <3>1, <3>2, <3>3
  <2> QED BY <2>1, <2>2
<1> QED BY <1>1, <1>2, <1>3, <1>4 DEF LeaseStep

LEMMA EntryRowsKeep ==
  ASSUME ResidentInv, ResidentRows, NEW d \in Desks, NEW e \in Entries, EntryStep(d, e)
  PROVE  ResidentRows'
<1>0. ASSUME NEW row \in EntryRow, entry' = entry \/ entry' = [entry EXCEPT ![e] = row],
             UNCHANGED <<profile, draft>>
      PROVE  ResidentRows'
  <2>1. DesksKnow'
    <3>1. CASE HangUp(d)
      BY <3>1, DeskGoesOn
    <3>2. ASSUME NEW op, NEW s, op # "create", op # "patch", CallAt(d, op, "update", s, e, {})
          PROVE  DesksKnow'
      BY <3>2, DeskGoesOn
    <3>3. CASE desk' = [desk EXCEPT ![d] = [Vacant EXCEPT !.op = "join", !.at = "done"]]
      BY <3>3, DeskGoesOn
    <3>4. ASSUME NEW s \in Staff, PatchEntry(d, s, e) \/ RemoveEntry(d, s, e) PROVE DesksKnow'
      BY <3>2, <3>4 DEF PatchEntry, RemoveEntry
    <3>5. ASSUME NEW s \in Staff, NEW p \in Persons, NEW home \in Homes, CreateEntry(d, s, e, p, home)
          PROVE  DesksKnow'
      BY <3>3, <3>5 DEF CreateEntry
    <3>6. ASSUME NEW status \in EntryStatuses, UpdateEntry(d, e, status)
          PROVE  DesksKnow'
      BY <3>1, <3>6 DEF UpdateEntry
    <3>7. MarkRemoved(d, e) => DesksKnow'
      BY <3>1 DEF MarkRemoved
    <3> QED BY <3>4, <3>5, <3>6, <3>7 DEF EntryStep
  <2> QED BY <1>0, <2>1 DEF ResidentRows
<1> PICK old \in EntryRow : old = entry[e]
  BY DEF ResidentRows
<1>1. ASSUME NEW s \in Staff, NEW p \in Persons, NEW home \in Homes, CreateEntry(d, s, e, p, home)
      PROVE  ResidentRows'
  <2>1. [status |-> "OPEN", home |-> home, version |-> 1] \in EntryRow
    BY DEF EntryRow, EntryStatuses
  <2> QED BY <1>0, <1>1, <2>1 DEF CreateEntry
<1>2. ASSUME NEW status \in EntryStatuses, UpdateEntry(d, e, status) PROVE ResidentRows'
  <2> PICK row : row = [entry[e] EXCEPT !.status = status, !.version = @ + 1]
    OBVIOUS
  <2>1. row \in EntryRow
    BY EntryEdits, Zenon
  <2>2. entry' = [entry EXCEPT ![e] = row]
    BY <1>2 DEF UpdateEntry
  <2> QED BY <1>0, <1>2, <2>1, <2>2 DEF UpdateEntry
<1>3. CASE MarkRemoved(d, e)
  <2> PICK row : row = [entry[e] EXCEPT !.status = "REMOVED", !.version = @ + 1]
    OBVIOUS
  <2>1. row \in EntryRow
    <3>1. "REMOVED" \in EntryStatuses
      BY DEF EntryStatuses
    <3> QED BY <3>1, EntryEdits, Zenon
  <2>2. entry' = [entry EXCEPT ![e] = row]
    BY <1>3 DEF MarkRemoved
  <2> QED BY <1>0, <1>3, <2>1, <2>2 DEF MarkRemoved
<1>4. ASSUME NEW s \in Staff, PatchEntry(d, s, e) \/ RemoveEntry(d, s, e) PROVE ResidentRows'
  BY <1>0, <1>4 DEF PatchEntry, RemoveEntry
<1> QED BY <1>1, <1>2, <1>3, <1>4 DEF EntryStep

\* Rows fit their tables, for any persons, leases, entries, flags and calls.
THEOREM ResidentsTyped == ResidentSpec => []ResidentTypeOK
<1>1. ResidentInit => ResidentRows
  <2> SUFFICES ASSUME ResidentInit PROVE ResidentRows
    OBVIOUS
  <2>1. NoProfile \in ProfileRow /\ NoEntry \in EntryRow
    BY DEF NoProfile, ProfileRow, NoEntry, EntryRow
  <2>2. draft \in [Drafts -> DraftLease] /\ \A l \in Drafts : draft[l].version = 1
    BY DEF ResidentInit, DraftLease
  <2>3. DesksKnow
    BY DEF ResidentInit, DesksKnow, DeskKnows, Vacant
  <2> QED BY <2>1, <2>2, <2>3 DEF ResidentInit, ResidentRows
<1>2. ResidentInv /\ ResidentRows /\ [ResidentNext]_residentVars => ResidentRows'
  <2>1. ResidentRows /\ UNCHANGED residentVars => ResidentRows'
    BY DEF residentVars, ResidentRows, DesksKnow, DeskKnows
  <2> QED BY <2>1, ProfileRowsKeep, FlagRowsKeep, DraftRowsKeep, EntryRowsKeep DEF ResidentNext
<1>3. ResidentInv /\ ResidentRows => ResidentTypeOK
  <2> SUFFICES ASSUME ResidentInv, ResidentRows PROVE ResidentTypeOK
    OBVIOUS
  <2>1. \A p \in Persons : profile[p] \in ProfileRow
    BY DEF ResidentRows
  <2>2. \A e \in Entries : entry[e] \in EntryRow
    BY DEF ResidentRows
  <2>3. \A l \in Drafts : draft[l] \in DraftLease
    BY DEF ResidentRows
  <2>4. \A f \in Flags : flag[f] \in FlagRow
    BY DEF ResidentInv, FlagsTyped
  <2> QED BY <2>1, <2>2, <2>3, <2>4 DEF ProfileRow, EntryRow, DraftLease, FlagRow, ResidentTypeOK
<1> QED BY <1>1, <1>2, <1>3, ResidentsStart, ResidentStep, PTL DEF ResidentSpec

OwnerRec == [status : {"NONE", "ACTIVE", "ARCHIVED"}, deleted : BOOLEAN, version : Nat]
HoldingRec == [status : {"ACTIVE", "ENDED"}, estate : Estates, of : Owners, share : Shares,
               from : Days, to : 1..Forever]
GrantRec == [for : Members, estate : Estates \cup {AllEstates}, from : Days, to : 1..Forever]

HoldingsTyped ==
  /\ holding = [o \in Holdings |-> holding[o]]
  /\ \A o \in Holdings : holding[o] = NoHolding \/ holding[o] \in HoldingRec

GrantsTyped ==
  /\ grant = [g \in Grants |-> grant[g]]
  /\ \A g \in Grants : grant[g] = NoGrant \/ grant[g] \in GrantRec

AgreementsTyped ==
  /\ agreement = [a \in Agreements |-> agreement[a]]
  /\ \A a \in Agreements :
       /\ agreement[a] = [field \in DOMAIN agreement[a] |-> agreement[a][field]]
       /\ "status" \in DOMAIN agreement[a]
       /\ agreement[a].status \in {"NONE", "DRAFT", "ACTIVE", "TERMINATED"}

\* What an operation will write is what its row may hold, and the row an end is
\* written to is there: a row is never taken away.
VisitKnows(r) ==
  r.at = "write" =>
    /\ r.op = "patchOwner" => r.writes = "ACTIVE"
    /\ r.op = "own" => r.writes \in HoldingRec
    /\ r.op = "disown" =>
         r.writes \in 1..Forever /\ \A o \in Holdings : r.id = <<o>> => holding[o] # NoHolding
    /\ r.op = "grant" => r.writes \in GrantRec
    /\ r.op = "endGrant" =>
         r.writes \in 1..Forever /\ \A g \in Grants : r.id = <<g>> => grant[g] # NoGrant

VisitsTyped ==
  /\ visit = [v \in Visits |-> visit[v]]
  /\ \A v \in Visits : visit[v].at \in {"start", "write", "done"} /\ VisitKnows(visit[v])

InterestRows ==
  /\ today \in Days /\ owner \in [Owners -> OwnerRec]
  /\ HoldingsTyped /\ GrantsTyped /\ AgreementsTyped /\ VisitsTyped

LEMMA InterestDays == Days \subseteq 1..Forever /\ Ends \subseteq 1..Forever /\ 1 \in Days
BY InterestAssumption DEF Days, Ends, Forever

LEMMA VisitBegins ==
  ASSUME InterestRows, NEW v \in Visits, NEW op, NEW id, NEW writes, Decide(v, op, id, writes),
         /\ op = "patchOwner" => writes = "ACTIVE"
         /\ op = "own" => writes \in HoldingRec
         /\ op = "disown" => writes \in 1..Forever /\ id \in Holdings /\ holding[id] # NoHolding
         /\ op = "grant" => writes \in GrantRec
         /\ op = "endGrant" => writes \in 1..Forever /\ id \in Grants /\ grant[id] # NoGrant
  PROVE  InterestRows'
<1> PICK r : r = [at |-> "write", op |-> op, id |-> <<id>>, writes |-> writes]
  OBVIOUS
<1>1. visit' = [visit EXCEPT ![v] = r] /\ UNCHANGED <<owner, holding, agreement, grant, today>>
  BY DEF Decide
<1>2. r.at = "write" /\ VisitKnows(r)
  BY DEF VisitKnows
<1>3. VisitsTyped'
  BY <1>1, <1>2 DEF InterestRows, VisitsTyped, VisitKnows
<1> QED BY <1>1, <1>3 DEF InterestRows, HoldingsTyped, GrantsTyped, AgreementsTyped

\* The rest stays typed when an operation is done, as long as no row has gone.
LEMMA VisitEnds ==
  ASSUME InterestRows, NEW v \in Visits, NEW op, NEW id, WritesRow(v, op, id),
         \A o \in Holdings : holding[o] # NoHolding => holding'[o] # NoHolding,
         \A g \in Grants : grant[g] # NoGrant => grant'[g] # NoGrant
  PROVE  VisitsTyped'
<1> PICK r : r = [NoVisit EXCEPT !.at = "done"]
  OBVIOUS
<1>1. visit' = [visit EXCEPT ![v] = r]
  BY DEF WritesRow
<1>2. r.at = "done"
  BY DEF NoVisit
<1>3. \A u \in Visits : VisitKnows(visit[u]) => VisitKnows(visit[u])'  \/ u = v
  BY <1>1 DEF InterestRows, VisitsTyped, VisitKnows
<1> QED BY <1>1, <1>2, <1>3 DEF InterestRows, VisitsTyped, VisitKnows

LEMMA VisitOn ==
  ASSUME InterestRows, NEW v \in Visits, NEW op, NEW id, WritesRow(v, op, id)
  PROVE  /\ op = "patchOwner" => visit[v].writes = "ACTIVE"
         /\ op = "own" => visit[v].writes \in HoldingRec
         /\ op = "disown" =>
              visit[v].writes \in 1..Forever /\ (id \in Holdings => holding[id] # NoHolding)
         /\ op = "grant" => visit[v].writes \in GrantRec
         /\ op = "endGrant" => visit[v].writes \in 1..Forever /\ (id \in Grants => grant[id] # NoGrant)
BY DEF InterestRows, VisitsTyped, VisitKnows, WritesRow

LEMMA OwnerRowsKeep ==
  ASSUME InterestRows, NEW p \in Owners, OwnerNext(p)
  PROVE  InterestRows'
<1>1. ASSUME NEW row \in OwnerRec, owner' = [owner EXCEPT ![p] = row],
             UNCHANGED <<holding, agreement, grant, today>>, VisitsTyped'
      PROVE  InterestRows'
  BY <1>1 DEF InterestRows, HoldingsTyped, GrantsTyped, AgreementsTyped
<1>2. CASE CreateOwner(p)
  <2>1. [status |-> "ACTIVE", deleted |-> FALSE, version |-> 1] \in OwnerRec
    BY DEF OwnerRec
  <2>2. VisitsTyped'
    BY <1>2 DEF CreateOwner, InterestRows, VisitsTyped, VisitKnows
  <2> QED BY <1>1, <1>2, <2>1, <2>2 DEF CreateOwner
<1>3. ASSUME NEW v \in Visits, PatchOwner(v, p) \/ ArchiveOwner(v, p) PROVE InterestRows'
  BY <1>3, VisitBegins DEF PatchOwner, ArchiveOwner
<1>4. PICK version \in Nat : version = owner[p].version + 1
  BY DEF InterestRows, OwnerRec
<1>5. ASSUME NEW v \in Visits, UpdateOwner(v, p) PROVE InterestRows'
  <2> PICK row : row = [owner[p] EXCEPT !.status = "ACTIVE", !.version = version]
    OBVIOUS
  <2>1. row \in OwnerRec
    BY DEF InterestRows, OwnerRec
  <2>2. visit[v].writes = "ACTIVE" /\ WritesRow(v, "patchOwner", p)
    BY <1>5, VisitOn DEF UpdateOwner
  <2>3. owner' = [owner EXCEPT ![p] = row]
    BY <1>4, <1>5, <2>2 DEF UpdateOwner, InterestRows
  <2>4. UNCHANGED <<holding, agreement, grant, today>>
    BY <1>5 DEF UpdateOwner
  <2>5. VisitsTyped'
    BY <2>2, <2>4, VisitEnds
  <2> QED BY <1>1, <2>1, <2>3, <2>4, <2>5
<1>6. ASSUME NEW v \in Visits, MarkOwnerArchived(v, p) PROVE InterestRows'
  <2> PICK row : row = [status |-> "ARCHIVED", deleted |-> TRUE, version |-> owner[p].version + 1]
    OBVIOUS
  <2>1. row \in OwnerRec
    BY <1>4 DEF OwnerRec
  <2>2. owner' = [owner EXCEPT ![p] = row] /\ WritesRow(v, "archiveOwner", p)
    BY <1>6 DEF MarkOwnerArchived
  <2>3. UNCHANGED <<holding, agreement, grant, today>>
    BY <1>6 DEF MarkOwnerArchived
  <2>4. VisitsTyped'
    BY <2>2, <2>3, VisitEnds
  <2> QED BY <1>1, <2>1, <2>2, <2>3, <2>4
<1> QED BY <1>2, <1>3, <1>5, <1>6 DEF OwnerNext

LEMMA HoldingThere == \A r \in HoldingRec : r # NoHolding
BY DEF HoldingRec, NoHolding

LEMMA HoldingRowsKeep ==
  ASSUME InterestRows, NEW o \in Holdings, OwnershipNext(o)
  PROVE  InterestRows'
<1>1. ASSUME NEW row \in HoldingRec, NEW v \in Visits, NEW op, WritesRow(v, op, o),
             holding' = [holding EXCEPT ![o] = row], UNCHANGED <<owner, agreement, grant, today>>
      PROVE  InterestRows'
  <2>1. HoldingsTyped' /\ \A q \in Holdings : holding[q] # NoHolding => holding'[q] # NoHolding
    BY <1>1, HoldingThere DEF InterestRows, HoldingsTyped
  <2>2. VisitsTyped'
    BY <1>1, <2>1, VisitEnds
  <2> QED BY <1>1, <2>1, <2>2 DEF InterestRows, GrantsTyped, AgreementsTyped
<1>2. ASSUME NEW v \in Visits, NEW m \in Members, NEW h \in Estates, NEW p \in Owners, NEW share \in Shares,
             NEW from \in Days, NEW to \in Ends, CreateOwnership(v, m, h, o, p, share, from, to)
      PROVE  InterestRows'
  <2> PICK row : row = [status |-> "ACTIVE", estate |-> h, of |-> p, share |-> share,
                        from |-> from, to |-> to]
    OBVIOUS
  <2>1. row \in HoldingRec
    BY InterestDays DEF HoldingRec
  <2>2. Decide(v, "own", o, row)
    BY <1>2 DEF CreateOwnership
  <2> QED BY <2>1, <2>2, VisitBegins
<1>3. ASSUME NEW v \in Visits, InsertOwnership(v, o) PROVE InterestRows'
  <2>1. visit[v].writes \in HoldingRec
    BY <1>3, VisitOn DEF InsertOwnership
  <2> QED BY <1>1, <1>3, <2>1 DEF InsertOwnership
<1>4. ASSUME NEW v \in Visits, NEW m \in Members, NEW to \in Ends \ {Forever}, EndOwnership(v, m, o, to)
      PROVE  InterestRows'
  BY <1>4, VisitBegins, InterestDays DEF EndOwnership
<1>5. ASSUME NEW v \in Visits, UpdateOwnership(v, o) PROVE InterestRows'
  <2>1. WritesRow(v, "disown", o) /\ UNCHANGED <<owner, agreement, grant, today>>
    BY <1>5 DEF UpdateOwnership
  <2> PICK to \in 1..Forever : to = visit[v].writes
    BY <2>1, VisitOn
  <2>2. holding[o] \in HoldingRec
    BY <2>1, VisitOn DEF InterestRows, HoldingsTyped
  <2> PICK row : row = [holding[o] EXCEPT !.status = "ENDED", !.to = to]
    OBVIOUS
  <2>3. row \in HoldingRec
    BY <2>2 DEF HoldingRec
  <2>4. holding' = [holding EXCEPT ![o] = row]
    BY <1>5 DEF UpdateOwnership, InterestRows, HoldingsTyped
  <2> QED BY <1>1, <2>1, <2>3, <2>4
<1> QED BY <1>2, <1>3, <1>4, <1>5 DEF OwnershipNext

LEMMA GrantThere == \A r \in GrantRec : "estate" \in DOMAIN r
BY DEF GrantRec

LEMMA GrantRowsKeep ==
  ASSUME InterestRows, NEW g \in Grants, GrantNext(g)
  PROVE  InterestRows'
<1>0. \A r \in GrantRec : r # NoGrant
  <2>1. "estate" \notin DOMAIN NoGrant
    BY DEF NoGrant
  <2> QED BY <2>1, GrantThere
<1>1. ASSUME NEW row \in GrantRec, NEW v \in Visits, NEW op, WritesRow(v, op, g),
             grant' = [grant EXCEPT ![g] = row], UNCHANGED <<owner, holding, agreement, today>>
      PROVE  InterestRows'
  <2>1. GrantsTyped' /\ \A f \in Grants : grant[f] # NoGrant => grant'[f] # NoGrant
    BY <1>0, <1>1 DEF InterestRows, GrantsTyped
  <2>2. VisitsTyped'
    BY <1>1, <2>1, VisitEnds
  <2> QED BY <1>1, <2>1, <2>2 DEF InterestRows, HoldingsTyped, AgreementsTyped
<1>2. ASSUME NEW v \in Visits, NEW m \in Members, NEW h \in Estates \cup {AllEstates}, NEW from \in Days,
             NEW to \in Ends, CreateGrant(v, g, m, h, from, to)
      PROVE  InterestRows'
  <2> PICK row : row = [for |-> m, estate |-> h, from |-> from, to |-> to]
    OBVIOUS
  <2>1. row \in GrantRec
    BY InterestDays DEF GrantRec
  <2>2. Decide(v, "grant", g, row)
    BY <1>2 DEF CreateGrant
  <2> QED BY <2>1, <2>2, VisitBegins
<1>3. ASSUME NEW v \in Visits, InsertGrant(v, g) PROVE InterestRows'
  <2>1. visit[v].writes \in GrantRec
    BY <1>3, VisitOn DEF InsertGrant
  <2> QED BY <1>1, <1>3, <2>1 DEF InsertGrant
<1>4. ASSUME NEW v \in Visits, NEW to \in Days, EndGrant(v, g, to) PROVE InterestRows'
  BY <1>4, VisitBegins, InterestDays DEF EndGrant
<1>5. ASSUME NEW v \in Visits, UpdateGrant(v, g) PROVE InterestRows'
  <2>1. WritesRow(v, "endGrant", g) /\ UNCHANGED <<owner, holding, agreement, today>>
    BY <1>5 DEF UpdateGrant
  <2> PICK to \in 1..Forever : to = visit[v].writes
    BY <2>1, VisitOn
  <2>2. grant[g] \in GrantRec
    BY <2>1, VisitOn DEF InterestRows, GrantsTyped
  <2> PICK row : row = [grant[g] EXCEPT !.to = to]
    OBVIOUS
  <2>3. row \in GrantRec
    BY <2>2 DEF GrantRec
  <2>4. grant' = [grant EXCEPT ![g] = row]
    BY <1>5 DEF UpdateGrant, InterestRows, GrantsTyped
  <2> QED BY <1>1, <2>1, <2>3, <2>4
<1> QED BY <1>2, <1>3, <1>4, <1>5 DEF GrantNext

LEMMA AgreementRowsKeep ==
  ASSUME InterestRows, NEW a \in Agreements, AgreementNext(a)
  PROVE  InterestRows'
<1> DEFINE Fits(r) == /\ r = [field \in DOMAIN r |-> r[field]] /\ "status" \in DOMAIN r
                      /\ r.status \in {"NONE", "DRAFT", "ACTIVE", "TERMINATED"}
<1>0. PICK old : old = agreement[a] /\ Fits(old)
  BY DEF InterestRows, AgreementsTyped
<1>1. ASSUME NEW row, Fits(row), agreement' = [agreement EXCEPT ![a] = row],
             UNCHANGED <<owner, holding, grant, today>>, VisitsTyped'
      PROVE  InterestRows'
  BY <1>1 DEF InterestRows, HoldingsTyped, GrantsTyped, AgreementsTyped
<1>2. ASSUME NEW m \in Members, NEW h \in Estates, NEW from \in Days, NEW to \in Ends,
             CreateAgreement(m, h, a, from, to)
      PROVE  InterestRows'
  <2> PICK row : row = [status |-> "DRAFT", estate |-> h, from |-> from, to |-> to, version |-> 1]
    OBVIOUS
  <2>1. Fits(row)
    OBVIOUS
  <2>2. VisitsTyped'
    BY <1>2 DEF CreateAgreement, InterestRows, VisitsTyped, VisitKnows
  <2> QED BY <1>1, <1>2, <2>1, <2>2 DEF CreateAgreement
<1>3. ASSUME NEW v \in Visits, NEW op,
             NEW writes, op \in {"patch", "activate", "terminate"}, Decide(v, op, a, writes)
      PROVE  InterestRows'
  BY <1>3, VisitBegins
<1>4. ASSUME NEW v \in Visits, NEW op, WritesRow(v, op, a), UNCHANGED <<owner, holding, grant, today>>,
             NEW row, Fits(row), agreement' = [agreement EXCEPT ![a] = row]
      PROVE  InterestRows'
  <2>1. VisitsTyped'
    BY <1>4, VisitEnds
  <2> QED BY <1>1, <1>4, <2>1
<1>5. ASSUME NEW v \in Visits, NEW from, NEW to, NEW m, PatchAgreement(v, m, a, from, to)
      PROVE  InterestRows'
  BY <1>3, <1>5 DEF PatchAgreement
<1>6. ASSUME NEW v \in Visits, NEW from,
             NEW m, ActivateAgreement(v, m, a, from) \/ TerminateAgreement(v, m, a, from)
      PROVE  InterestRows'
  BY <1>3, <1>6 DEF ActivateAgreement, TerminateAgreement
<1>7. ASSUME NEW v \in Visits, UpdateAgreement(v, a) PROVE InterestRows'
  <2> PICK from, to, version : from = visit[v].writes.from /\ to = visit[v].writes.to
                               /\ version = old.version + 1
    OBVIOUS
  <2> PICK row : row = [old EXCEPT !.from = from, !.to = to, !.version = version]
    OBVIOUS
  <2>1. Fits(row)
    BY <1>0
  <2>2. agreement' = [agreement EXCEPT ![a] = row]
    BY <1>0, <1>7 DEF UpdateAgreement, InterestRows, AgreementsTyped
  <2>3. WritesRow(v, "patch", a) /\ UNCHANGED <<owner, holding, grant, today>>
    BY <1>7 DEF UpdateAgreement
  <2> HIDE DEF Fits
  <2> QED BY <1>4, <2>1, <2>2, <2>3
<1>8. ASSUME NEW v \in Visits, MarkActive(v, a) PROVE InterestRows'
  <2> PICK from, version : from = visit[v].writes /\ version = old.version + 1
    OBVIOUS
  <2> PICK row : row = [old EXCEPT !.status = "ACTIVE", !.from = from, !.version = version]
    OBVIOUS
  <2>1. Fits(row)
    BY <1>0
  <2>2. agreement' = [agreement EXCEPT ![a] = row]
    BY <1>0, <1>8 DEF MarkActive, InterestRows, AgreementsTyped
  <2>3. WritesRow(v, "activate", a) /\ UNCHANGED <<owner, holding, grant, today>>
    BY <1>8 DEF MarkActive
  <2> HIDE DEF Fits
  <2> QED BY <1>4, <2>1, <2>2, <2>3
<1>9. ASSUME NEW v \in Visits, MarkTerminated(v, a) PROVE InterestRows'
  <2> PICK to, version : to = visit[v].writes /\ version = old.version + 1
    OBVIOUS
  <2> PICK row : row = [old EXCEPT !.status = "TERMINATED", !.to = to, !.version = version]
    OBVIOUS
  <2>1. Fits(row)
    BY <1>0
  <2>2. agreement' = [agreement EXCEPT ![a] = row]
    BY <1>0, <1>9 DEF MarkTerminated, InterestRows, AgreementsTyped
  <2>3. WritesRow(v, "terminate", a) /\ UNCHANGED <<owner, holding, grant, today>>
    BY <1>9 DEF MarkTerminated
  <2> HIDE DEF Fits
  <2> QED BY <1>4, <2>1, <2>2, <2>3
<1> QED BY <1>2, <1>5, <1>6, <1>7, <1>8, <1>9 DEF AgreementNext

LEMMA InterestRowsStart == InterestInit => InterestRows
<1> SUFFICES ASSUME InterestInit PROVE InterestRows
  OBVIOUS
<1>1. NoOwner \in OwnerRec
  BY DEF NoOwner, OwnerRec
<1>2. VisitsTyped
  BY DEF InterestInit, VisitsTyped, VisitKnows, NoVisit
<1>3. HoldingsTyped /\ GrantsTyped
  BY DEF InterestInit, HoldingsTyped, GrantsTyped
<1>4. AgreementsTyped
  BY DEF InterestInit, AgreementsTyped, NoAgreement
<1> QED BY <1>1, <1>2, <1>3, <1>4, InterestDays DEF InterestInit, InterestRows

LEMMA InterestRowsStep == InterestRows /\ [InterestNext]_interestVars => InterestRows'
<1>1. InterestRows /\ UNCHANGED interestVars => InterestRows'
  BY DEF interestVars, InterestRows, HoldingsTyped, GrantsTyped, AgreementsTyped, VisitsTyped, VisitKnows
<1>2. ASSUME InterestRows, Midnight PROVE InterestRows'
  <2>1. today' \in Days
    BY <1>2, InterestAssumption DEF Midnight, InterestRows, Days
  <2> QED BY <1>2, <2>1 DEF Midnight, InterestRows, HoldingsTyped, GrantsTyped, AgreementsTyped, VisitsTyped,
                             VisitKnows
<1> QED BY <1>1, <1>2, OwnerRowsKeep, HoldingRowsKeep, AgreementRowsKeep, GrantRowsKeep DEF InterestNext

\* Rows fit their tables, for any owners, ownerships, agreements, grants and days,
\* whether operations overlap or not.
THEOREM InterestsTyped == InterestSpec => []InterestTypeOK
<1>1. InterestRows => InterestTypeOK
  <2> SUFFICES ASSUME InterestRows PROVE InterestTypeOK
    OBVIOUS
  <2>1. \A p \in Owners : owner[p] \in OwnerRec
    BY DEF InterestRows
  <2> QED BY <2>1 DEF InterestRows, HoldingsTyped, GrantsTyped, AgreementsTyped, VisitsTyped, OwnerRec,
                      HoldingRec, GrantRec, InterestTypeOK
<1> QED BY <1>1, InterestRowsStart, InterestRowsStep, PTL DEF InterestSpec

-----------------------------------------------------------------------------
(***************************************************************************)
(* Shares.  One operation at a time, no property is owned more than once   *)
(* over.                                                                   *)
(***************************************************************************)

SharesIn(h, S) == MapThenSumSet(LAMBDA o : h[o].share, S)

\* The model's sum of shares over a set of ownerships is the sum just defined.
LEMMA ShareSums ==
  ASSUME NEW U, IsFiniteSet(U), NEW f \in [U -> Nat], NEW g \in [SUBSET U -> Nat], IsSum(g, f, U),
         NEW S \in SUBSET U, NEW h, \A o \in S : h[o].share = f[o]
  PROVE  SharesIn(h, S) = g[S]
<1> DEFINE Iterates(k) ==
             k = [s \in SUBSET S |-> IF s = {} THEN 0 ELSE h[CHOOSE x \in s : TRUE].share
                                                           + k[s \ {CHOOSE x \in s : TRUE}]]
           iter == CHOOSE k : Iterates(k)
<1>1. ASSUME NEW k PROVE Iterates(k) <=> IsSum(k, f, S)
  <2>1. ASSUME NEW s \in SUBSET S, s # {} PROVE h[Some(s)].share = f[Some(s)]
    BY <2>1 DEF Some
  <2>2. [s \in SUBSET S |-> IF s = {} THEN 0 ELSE h[Some(s)].share + k[s \ {Some(s)}]]
        = [s \in SUBSET S |-> IF s = {} THEN 0 ELSE f[Some(s)] + k[s \ {Some(s)}]]
    BY <2>1
  <2> QED BY <2>2 DEF IsSum, Some
<1>2. \E k : Iterates(k)
  <2> DEFINE k == [s \in SUBSET S |-> g[s]]
  <2>1. \A s \in SUBSET S : g[s] = IF s = {} THEN 0 ELSE f[Some(s)] + g[s \ {Some(s)}]
    BY DEF IsSum
  <2>2. ASSUME NEW s \in SUBSET S PROVE k[s] = IF s = {} THEN 0 ELSE f[Some(s)] + k[s \ {Some(s)}]
    BY <2>1
  <2>3. IsSum(k, f, S)
    BY <2>2 DEF IsSum
  <2>4. Iterates(k)
    <3> HIDE DEF k, Iterates
    <3> QED BY <1>1, <2>3
  <2> HIDE DEF k, Iterates
  <2> QED BY <2>4
<1>3. Iterates(iter)
  BY <1>2
<1>4. iter[S] = g[S]
  <2>1. IsFiniteSet(S)
    BY FS_Subset
  <2>2. IsSum(iter, f, S)
    BY <1>1, <1>3
  <2> HIDE DEF iter
  <2> QED BY <2>1, <2>2, SumAgrees
<1>5. SharesIn(h, S) = iter[S]
  BY DEF SharesIn, MapThenSumSet, MapThenFoldSet
<1> QED BY <1>4, <1>5

Real(h) == {o \in Holdings : h[o] \in HoldingRec}

\* There are sums of the shares of the rows that are there.
LEMMA SharesSummed ==
  ASSUME NEW h, NEW f \in [Holdings -> Nat], \A o \in Real(h) : f[o] = h[o].share
  PROVE  \E g \in [SUBSET Holdings -> Nat] :
           IsSum(g, f, Holdings) /\ \A S \in SUBSET Real(h) : SharesIn(h, S) = g[S]
<1>1. PICK g \in [SUBSET Holdings -> Nat] : IsSum(g, f, Holdings)
  BY InterestAssumption, SumExists
<1>2. ASSUME NEW S \in SUBSET Real(h) PROVE SharesIn(h, S) = g[S]
  <2>1. S \in SUBSET Holdings /\ \A o \in S : h[o].share = f[o]
    BY DEF Real
  <2> QED BY <1>1, <2>1, InterestAssumption, ShareSums
<1> QED BY <1>1, <1>2

\* The shares of some of the rows are at most those of all.
LEMMA SharesOfSome ==
  ASSUME NEW h, NEW T \in SUBSET Real(h), NEW S \in SUBSET T
  PROVE  SharesIn(h, S) \in Nat /\ SharesIn(h, T) \in Nat /\ SharesIn(h, S) <= SharesIn(h, T)
<1> DEFINE f == [o \in Holdings |-> IF o \in Real(h) THEN h[o].share ELSE 0]
<1>1. f \in [Holdings -> Nat] /\ \A o \in Real(h) : f[o] = h[o].share
  BY InterestAssumption DEF Real, HoldingRec
<1> HIDE DEF f
<1>2. PICK g \in [SUBSET Holdings -> Nat] :
        IsSum(g, f, Holdings) /\ \A R \in SUBSET Real(h) : SharesIn(h, R) = g[R]
  BY <1>1, SharesSummed
<1>3. S \in SUBSET Real(h) /\ T \in SUBSET Holdings /\ S \in SUBSET Holdings
  BY DEF Real
<1>4. g[S] <= g[T]
  BY <1>1, <1>2, <1>3, InterestAssumption, SumMonotone
<1> QED BY <1>2, <1>3, <1>4

\* They are the same when the rows are.
LEMMA SharesKept ==
  ASSUME NEW h, NEW k, NEW S \in SUBSET Real(h), \A o \in S : k[o] = h[o]
  PROVE  SharesIn(k, S) = SharesIn(h, S)
<1> DEFINE f == [o \in Holdings |-> IF o \in Real(h) THEN h[o].share ELSE 0]
           e == [o \in Holdings |-> IF o \in Real(k) THEN k[o].share ELSE 0]
<1>1. f \in [Holdings -> Nat] /\ \A o \in Real(h) : f[o] = h[o].share
  BY InterestAssumption DEF Real, HoldingRec
<1>2. e \in [Holdings -> Nat] /\ \A o \in Real(k) : e[o] = k[o].share
  BY InterestAssumption DEF Real, HoldingRec
<1>3. S \in SUBSET Real(k) /\ \A o \in S : f[o] = e[o]
  BY DEF Real
<1> HIDE DEF f, e
<1>4. PICK g \in [SUBSET Holdings -> Nat] :
        IsSum(g, f, Holdings) /\ \A R \in SUBSET Real(h) : SharesIn(h, R) = g[R]
  BY <1>1, SharesSummed
<1>5. PICK d \in [SUBSET Holdings -> Nat] :
        IsSum(d, e, Holdings) /\ \A R \in SUBSET Real(k) : SharesIn(k, R) = d[R]
  BY <1>2, SharesSummed
<1>6. S \in SUBSET Holdings /\ IsFiniteSet(S)
  BY InterestAssumption, FS_Subset DEF Real
<1>7. g[S] = d[S]
  BY <1>3, <1>4, <1>5, <1>6, SumAgrees
<1> QED BY <1>3, <1>4, <1>5, <1>7

\* One more row adds its share.
LEMMA ShareAdded ==
  ASSUME NEW h, NEW o \in Real(h), NEW S \in SUBSET Real(h), o \notin S
  PROVE  SharesIn(h, S \cup {o}) = h[o].share + SharesIn(h, S) /\ h[o].share \in Nat
<1> DEFINE f == [q \in Holdings |-> IF q \in Real(h) THEN h[q].share ELSE 0]
<1>1. f \in [Holdings -> Nat] /\ \A q \in Real(h) : f[q] = h[q].share
  BY InterestAssumption DEF Real, HoldingRec
<1> HIDE DEF f
<1>2. PICK g \in [SUBSET Holdings -> Nat] :
        IsSum(g, f, Holdings) /\ \A R \in SUBSET Real(h) : SharesIn(h, R) = g[R]
  BY <1>1, SharesSummed
<1>3. /\ S \cup {o} \in SUBSET Real(h) /\ S \cup {o} \in SUBSET Holdings
      /\ o \in S \cup {o} /\ (S \cup {o}) \ {o} = S /\ h[o].share \in Nat
  BY InterestAssumption DEF Real, HoldingRec
<1>4. g[{}] = 0 /\ \A R \in SUBSET Holdings : \A x \in R : g[R] = f[x] + g[R \ {x}]
  BY <1>1, <1>2, InterestAssumption, SumStep
<1>5. g[S \cup {o}] = f[o] + g[S]
  BY <1>3, <1>4
<1> QED BY <1>1, <1>2, <1>3, <1>5

Standing(h, d) == {o \in Holdings : Active(o, h, d)}

\* The share about to be inserted fits beside those it overlaps.
AdmitsShare(r) ==
  r.at = "write" /\ r.op = "own" /\ r.writes.share # NoShare =>
    SharesIn(holding, Concurrent(r.writes.estate, r.writes.from, r.writes.to)) + r.writes.share <= Tolerated

SharesInv ==
  /\ \A h \in Estates, d \in Days : SharesIn(holding, Standing(h, d)) <= Tolerated
  /\ \A v \in Visits : AdmitsShare(visit[v])

LEMMA SharesRead == \A S : SharesOf(S) = SharesIn(holding, S)
BY DEF SharesOf, SharesIn

\* What is standing, or overlaps, is there.
LEMMA StandingReal ==
  ASSUME InterestRows
  PROVE  /\ \A h, d : Standing(h, d) \in SUBSET Real(holding)
         /\ \A h, from, to : Concurrent(h, from, to) \in SUBSET Real(holding)
BY DEF InterestRows, HoldingsTyped, Standing, Active, Concurrent, NoHolding, Real

\* Days, decisions and the other tables leave the shares as they are.
LEMMA SharesRest ==
  ASSUME InterestRows, SharesInv, UNCHANGED holding,
         \A v \in Visits : visit'[v] = visit[v] \/ AdmitsShare(visit'[v])
  PROVE  SharesInv'
<1>1. \A r : AdmitsShare(r) => AdmitsShare(r)'
  BY DEF AdmitsShare, Concurrent, Overlaps
<1>2. \A h, d : Standing(h, d)' = Standing(h, d)
  BY DEF Standing, Active, Runs
<1>3. \A v \in Visits : AdmitsShare(visit[v])'
  BY <1>1 DEF SharesInv
<1> QED BY <1>2, <1>3 DEF SharesInv

LEMMA SharesDecided ==
  ASSUME InterestRows, SharesInv, NEW v \in Visits, NEW op, NEW id, NEW writes, Decide(v, op, id, writes),
         op = "own" /\ writes.share # NoShare =>
           SharesIn(holding, Concurrent(writes.estate, writes.from, writes.to)) + writes.share <= Tolerated
  PROVE  SharesInv'
<1> PICK r : r = [at |-> "write", op |-> op, id |-> <<id>>, writes |-> writes]
  OBVIOUS
<1>1. visit' = [visit EXCEPT ![v] = r] /\ UNCHANGED holding
  BY DEF Decide
<1>2. AdmitsShare(r)
  BY DEF AdmitsShare
<1>3. \A u \in Visits : visit'[u] = visit[u] \/ AdmitsShare(visit'[u])
  BY <1>1, <1>2 DEF InterestRows, VisitsTyped
<1> QED BY <1>1, <1>3, SharesRest

\* Nobody is left about to insert when an operation is done.
LEMMA SharesDone ==
  ASSUME InterestInv, NEW v \in Visits, NEW op, NEW id, WritesRow(v, op, id)
  PROVE  \A u \in Visits : visit'[u].at # "write"
BY DEF InterestInv, OneVisit, WritesRow, NoVisit

LEMMA SharesWritten ==
  ASSUME InterestInv, InterestRows, SharesInv, UNCHANGED holding,
         NEW v \in Visits, NEW op, NEW id, WritesRow(v, op, id)
  PROVE  SharesInv'
<1>1. \A u \in Visits : AdmitsShare(visit'[u])
  BY SharesDone DEF AdmitsShare
<1> QED BY <1>1, SharesRest

LEMMA SharesInserted ==
  ASSUME InterestInv, InterestRows, SharesInv, NEW v \in Visits, NEW o \in Holdings, InsertOwnership(v, o)
  PROVE  SharesInv'
<1> PICK row \in HoldingRec : row = visit[v].writes
  BY VisitOn DEF InsertOwnership
<1>1. holding' = [holding EXCEPT ![o] = row] /\ WritesRow(v, "own", o)
  BY DEF InsertOwnership
<1>2. holding[o] = NoHolding /\ row.status = "ACTIVE"
  BY <1>1 DEF WritesRow, InterestInv, VisitFits, Admitted
<1>3. holding'[o] = row /\ \A q \in Holdings \ {o} : holding'[q] = holding[q]
  BY <1>1 DEF InterestRows, HoldingsTyped
<1>4. row.share # NoShare => SharesIn(holding, Concurrent(row.estate, row.from, row.to)) + row.share <= Tolerated
  BY <1>1 DEF SharesInv, AdmitsShare, WritesRow
<1>5. ASSUME NEW h \in Estates, NEW d \in Days PROVE SharesIn(holding', Standing(h, d)') <= Tolerated
  <2> PICK S : S = Standing(h, d)
    OBVIOUS
  <2>1. S \in SUBSET Real(holding) /\ o \notin S /\ S \in SUBSET Real(holding')
    <3>1. S \in SUBSET Real(holding)
      BY StandingReal
    <3>2. o \notin S
      BY <1>2 DEF Standing, Active, NoHolding
    <3> QED BY <1>3, <3>1, <3>2 DEF Real
  <2>2. SharesIn(holding', S) = SharesIn(holding, S)
    BY <1>3, <2>1, SharesKept DEF Real
  <2>3. SharesIn(holding, S) <= Tolerated
    BY DEF SharesInv
  <2>4. CASE row.estate = h /\ Runs(row, d)
    <3>1. Standing(h, d)' = S \cup {o}
      BY <1>2, <1>3, <2>4 DEF Standing, Active, Runs
    <3>2. o \in Real(holding')
      BY <1>3 DEF Real
    <3>3. SharesIn(holding', S \cup {o}) = row.share + SharesIn(holding', S) /\ row.share \in Nat
      BY <1>3, <2>1, <3>2, ShareAdded
    <3>4. S \in SUBSET Concurrent(h, row.from, row.to)
      <4>1. \A q \in S : holding[q] \in HoldingRec
        BY <2>1 DEF Real
      <4>2. \A q \in S : Overlaps(holding[q], row.from, row.to)
        BY <2>4, <4>1, InterestDays DEF Standing, Active, Runs, Overlaps, HoldingRec, Forever, Days
      <4> QED BY <4>2 DEF Standing, Active, Concurrent
    <3>5. /\ SharesIn(holding, S) \in Nat
          /\ SharesIn(holding, Concurrent(h, row.from, row.to)) \in Nat
          /\ SharesIn(holding, S) <= SharesIn(holding, Concurrent(h, row.from, row.to))
      BY <3>4, StandingReal, SharesOfSome
    <3> QED BY <1>4, <2>2, <2>3, <2>4, <3>1, <3>3, <3>5 DEF NoShare, Tolerated
  <2>5. CASE ~(row.estate = h /\ Runs(row, d))
    <3>1. Standing(h, d)' = S
      BY <1>2, <1>3, <2>1, <2>5 DEF Standing, Active, Runs
    <3> QED BY <2>2, <2>3, <3>1
  <2> QED BY <2>4, <2>5
<1>6. \A u \in Visits : AdmitsShare(visit[u])'
  BY <1>1, SharesDone DEF AdmitsShare
<1> QED BY <1>5, <1>6 DEF SharesInv

LEMMA SharesEnded ==
  ASSUME InterestInv, InterestRows, SharesInv, NEW v \in Visits, NEW o \in Holdings, UpdateOwnership(v, o)
  PROVE  SharesInv'
<1>1. WritesRow(v, "disown", o)
  BY DEF UpdateOwnership
<1>2. holding'[o].status = "ENDED" /\ \A q \in Holdings \ {o} : holding'[q] = holding[q]
  <2>1. holding[o] \in HoldingRec
    BY <1>1, VisitOn DEF InterestRows, HoldingsTyped
  <2> QED BY <2>1 DEF UpdateOwnership, InterestRows, HoldingsTyped, HoldingRec
<1>3. ASSUME NEW h \in Estates, NEW d \in Days PROVE SharesIn(holding', Standing(h, d)') <= Tolerated
  <2> PICK S, R : S = Standing(h, d) /\ R = Standing(h, d)'
    OBVIOUS
  <2>1. R \in SUBSET S /\ o \notin R
    BY <1>2 DEF Standing, Active, Runs
  <2>2. S \in SUBSET Real(holding) /\ R \in SUBSET Real(holding)
    BY <2>1, StandingReal
  <2>3. SharesIn(holding', R) = SharesIn(holding, R)
    BY <1>2, <2>1, <2>2, SharesKept DEF Real
  <2>4. SharesIn(holding, R) \in Nat /\ SharesIn(holding, S) \in Nat
        /\ SharesIn(holding, R) <= SharesIn(holding, S)
    BY <2>1, <2>2, SharesOfSome
  <2> QED BY <2>3, <2>4 DEF SharesInv, Tolerated
<1>4. \A u \in Visits : AdmitsShare(visit[u])'
  BY <1>1, SharesDone DEF AdmitsShare
<1> QED BY <1>3, <1>4 DEF SharesInv

LEMMA SharesStep ==
  ASSUME InterestInv, InterestRows, SharesInv, [InterestNext]_interestVars
  PROVE  SharesInv'
<1>1. CASE Midnight \/ UNCHANGED interestVars
  BY <1>1, SharesRest DEF Midnight, interestVars
<1>2. ASSUME NEW p \in Owners, OwnerNext(p) PROVE SharesInv'
  <2>1. CASE CreateOwner(p)
    BY <2>1, SharesRest DEF CreateOwner
  <2>2. ASSUME NEW v \in Visits, PatchOwner(v, p) \/ ArchiveOwner(v, p) PROVE SharesInv'
    BY <2>2, SharesDecided DEF PatchOwner, ArchiveOwner
  <2>3. ASSUME NEW v \in Visits, UpdateOwner(v, p) \/ MarkOwnerArchived(v, p) PROVE SharesInv'
    BY <2>3, SharesWritten DEF UpdateOwner, MarkOwnerArchived
  <2> QED BY <1>2, <2>1, <2>2, <2>3 DEF OwnerNext
<1>3. ASSUME NEW o \in Holdings, OwnershipNext(o) PROVE SharesInv'
  <2>1. ASSUME NEW v \in Visits, NEW m, NEW h, NEW p, NEW share, NEW from, NEW to,
               CreateOwnership(v, m, h, o, p, share, from, to)
        PROVE  SharesInv'
    <3> PICK row : row = [status |-> "ACTIVE", estate |-> h, of |-> p, share |-> share,
                          from |-> from, to |-> to]
      OBVIOUS
    <3>1. Decide(v, "own", o, row)
      BY <2>1 DEF CreateOwnership
    <3>2. share # NoShare => SharesIn(holding, Concurrent(h, from, to)) + share <= Tolerated
      BY <2>1, SharesRead DEF CreateOwnership, Admissible
    <3> QED BY <3>1, <3>2, SharesDecided
  <2>2. ASSUME NEW v \in Visits, NEW m, NEW to, EndOwnership(v, m, o, to) PROVE SharesInv'
    BY <2>2, SharesDecided DEF EndOwnership
  <2> QED BY <1>3, <2>1, <2>2, SharesInserted, SharesEnded DEF OwnershipNext
<1>4. ASSUME NEW a \in Agreements, AgreementNext(a) PROVE SharesInv'
  <2>1. ASSUME NEW v \in Visits, NEW op, NEW writes, op # "own", Decide(v, op, a, writes) PROVE SharesInv'
    BY <2>1, SharesDecided
  <2>2. ASSUME NEW m, NEW h, NEW from, NEW to, CreateAgreement(m, h, a, from, to) PROVE SharesInv'
    BY <2>2, SharesRest DEF CreateAgreement
  <2>3. ASSUME NEW v \in Visits, UpdateAgreement(v, a) \/ MarkActive(v, a) \/ MarkTerminated(v, a)
        PROVE  SharesInv'
    BY <2>3, SharesWritten DEF UpdateAgreement, MarkActive, MarkTerminated
  <2>4. ASSUME NEW v \in Visits, NEW m, NEW from, NEW to,
               \/ PatchAgreement(v, m, a, from, to)
               \/ ActivateAgreement(v, m, a, from)
               \/ TerminateAgreement(v, m, a, to)
        PROVE  SharesInv'
    BY <2>1, <2>4 DEF PatchAgreement, ActivateAgreement, TerminateAgreement
  <2> QED BY <1>4, <2>2, <2>3, <2>4 DEF AgreementNext
<1>5. ASSUME NEW g \in Grants, GrantNext(g) PROVE SharesInv'
  <2>1. ASSUME NEW v \in Visits, NEW m, NEW h, NEW from, NEW to,
               CreateGrant(v, g, m, h, from, to) \/ EndGrant(v, g, to)
        PROVE  SharesInv'
    <3>1. \E op, writes : op # "own" /\ Decide(v, op, g, writes)
      BY <2>1 DEF CreateGrant, EndGrant
    <3> QED BY <3>1, SharesDecided
  <2>2. ASSUME NEW v \in Visits, InsertGrant(v, g) \/ UpdateGrant(v, g) PROVE SharesInv'
    BY <2>2, SharesWritten DEF InsertGrant, UpdateGrant
  <2> QED BY <1>5, <2>1, <2>2 DEF GrantNext
<1> QED BY <1>1, <1>2, <1>3, <1>4, <1>5 DEF InterestNext

\* SharesWithinTolerance for any properties, ownerships, shares and days, when operations
\* do not overlap: what createOwnership's sum over the interests that share a day with
\* the new one is for.  Overlapping, two of them can admit each other's excess.
THEOREM SharesStayTolerated == ASSUME ~Overlapping PROVE InterestSpec => []SharesWithinTolerance
<1>1. InterestInit => SharesInv
  <2> SUFFICES ASSUME InterestInit PROVE SharesInv
    OBVIOUS
  <2>1. \A h, d : Standing(h, d) = {}
    BY DEF InterestInit, Standing, Active, NoHolding
  <2>2. SharesIn(holding, {}) <= Tolerated
    <3> DEFINE f == [o \in Holdings |-> 0]
    <3>1. Real(holding) = {}
      BY DEF InterestInit, Real, HoldingRec, NoHolding
    <3>2. PICK g \in [SUBSET Holdings -> Nat] :
            IsSum(g, f, Holdings) /\ \A S \in SUBSET Real(holding) : SharesIn(holding, S) = g[S]
      BY <3>1, SharesSummed
    <3>3. g[{}] = 0 /\ SharesIn(holding, {}) = g[{}]
      BY <3>2 DEF IsSum
    <3> QED BY <3>3 DEF Tolerated
  <2>3. \A v \in Visits : AdmitsShare(visit[v])
    BY DEF InterestInit, NoVisit, AdmitsShare
  <2> QED BY <2>1, <2>2, <2>3 DEF SharesInv
<1>2. InterestInv /\ InterestRows /\ SharesInv /\ [InterestNext]_interestVars => SharesInv'
  BY SharesStep
<1>3. SharesInv => SharesWithinTolerance
  BY SharesRead DEF SharesInv, SharesWithinTolerance, Owned, Standing
<1>4. InterestSpec => []InterestInv
  BY InterestAssumption, InterestStart, InterestStep, PTL DEF InterestSpec
<1>5. InterestSpec => []InterestRows
  BY InterestRowsStart, InterestRowsStep, PTL DEF InterestSpec
<1> QED BY <1>1, <1>2, <1>3, <1>4, <1>5, PTL DEF InterestSpec

\* InterestsFit for any owners, ownerships, agreements and grants, when operations do
\* not overlap: what archiveOwner, createOwnership and activateAgreement check before
\* they write keeps a property's shares within the tolerance, an archived owner idle, a
\* property under one manager a day, and an owner to one interest in it, over any
\* sequence of edits, endings and days.
THEOREM InterestsStayFit == ASSUME ~Overlapping PROVE InterestSpec => []InterestsFit
<1>1. InterestInv /\ SharesWithinTolerance => InterestsFit
  BY DEF InterestInv, InterestsFit, ArchivedIdle, OneManager, OneInterest
<1>2. InterestInv /\ [InterestNext]_interestVars => InterestInv'
  BY InterestAssumption, InterestStep
<1> QED BY <1>1, <1>2, SharesStayTolerated, InterestStart, PTL DEF InterestSpec

-----------------------------------------------------------------------------
(***************************************************************************)
(* The parts together.  Each step of the run is a step of one part and a   *)
(* stutter of the others, so the run keeps all that is proved of a part.   *)
(***************************************************************************)

\* The specification TLC runs implements that of every part: what is proved of a
\* part holds of their sum.
THEOREM PartsRun ==
  Spec => /\ LifeSpec /\ DocumentSpec /\ InventorySpec /\ MembershipSpec /\ SessionSpec
          /\ PagingSpec /\ ResidentSpec /\ InterestSpec /\ GateSpec
<1>1. Init => /\ LifeInit /\ DocumentInit /\ InventoryInit /\ MembershipInit /\ SessionInit
              /\ PagingInit /\ ResidentInit /\ InterestInit /\ GateInit
  BY DEF Init
<1>2. [Next]_<<active, partVars>> =>
        /\ [LifeNext]_lifeVars /\ [DocumentNext]_documentVars /\ [InventoryNext]_inventoryVars
        /\ [MembershipNext]_membershipVars /\ [SessionNext]_sessionVars /\ [PagingNext]_pageVars
        /\ [ResidentNext]_residentVars /\ [InterestNext]_interestVars /\ [GateNext]_gateVars
  BY DEF Next, partVars
<1> QED BY <1>1, <1>2, PTL DEF Spec, LifeSpec, DocumentSpec, InventorySpec, MembershipSpec, SessionSpec,
                               PagingSpec, ResidentSpec, InterestSpec, GateSpec

\* Every row of every part fits its table, whatever leases, documents, places,
\* people, sessions, lists, calls, owners and requests there are.
THEOREM TenancyTyped == Spec => []TenancyTypeOK
<1>1. Init => active \in Parts
  BY DEF Init
<1>2. active \in Parts /\ [Next]_<<active, partVars>> => (active \in Parts)'
  BY DEF Next
<1>3. Spec => [](active \in Parts)
  BY <1>1, <1>2, PTL DEF Spec
<1>4. /\ active \in Parts
      /\ LifeTypeOK /\ DocumentTypeOK /\ InventoryTypeOK /\ MembershipTypeOK /\ SessionTypeOK
      /\ PagingTypeOK /\ ResidentTypeOK /\ InterestTypeOK /\ GateTypeOK
      => TenancyTypeOK
  BY DEF TenancyTypeOK
<1> QED BY <1>3, <1>4, PartsRun, LeasesTyped, DocumentsFit, PlacesTyped, MembersFit, SessionsTyped,
           WalksTyped, ResidentsTyped, InterestsTyped, GateTyped, PTL

=============================================================================
