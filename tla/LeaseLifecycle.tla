---------------------------- MODULE LeaseLifecycle ----------------------------
(***************************************************************************)
(* The life of a lease after it has been drafted: activation, move-in,     *)
(* notice, renewal, transfer, the move-out checkout with its checklist and *)
(* keys, and termination (apps/api/src/modules/leasing).                   *)
(*                                                                         *)
(* Every operation reads the lease outside its transaction, decides from   *)
(* what it read, and then claims the row with an updateMany whose WHERE    *)
(* names the version it read and part of what it decided from.  A claim of *)
(* no row rolls the transaction back.  The claim locks the row, so the     *)
(* rest of the transaction is one step with it.                            *)
(*                                                                         *)
(* Dates, terms, parties, places and the idempotency key are left out      *)
(* (places are in Booking, keys of requests in Idempotency).               *)
(***************************************************************************)
EXTENDS Naturals, Sequences, FiniteSets

CONSTANTS
  Leases,           \* ids a lease may get
  AssetKeys,        \* keys that may be handed out for a lease
  Items,            \* items of the move-out checklist
  Requests,         \* API requests that are between their read and their claim
  Nobody,           \* SQL NULL of leases.renewed_from_lease_id
  MaxVersion,       \* bound on the changes of each lease
  SequencedOutbox   \* outbox events of one aggregate get distinct sequences

ASSUME LifecycleAssumption ==
  MaxVersion \in [Leases -> Nat] /\ Nobody \notin Leases /\ SequencedOutbox \in BOOLEAN

VARIABLES
  lease,    \* rows of leases
  loans,    \* asset_keys of each lease
  history,  \* lease_status_history of each lease: pairs of statuses
  events,   \* leases that have an event in the outbox
  request   \* what each request has read

lifeVars == <<lease, loans, history, events, request>>

Current  == {"ACTIVE", "NOTICE"}
Statuses == {"NONE", "DRAFT", "ENDED", "CANCELLED"} \cup Current
KeyStatuses == {"NONE", "ISSUED", "RETURNED", "LOST", "DAMAGED"}
\* A checklist: the items it has and those of them that are completed.
Checklists == {c \in [items : SUBSET Items, completed : SUBSET Items] : c.completed \subseteq c.items}

NoList  == [items |-> {}, completed |-> {}]
Absent  == [status |-> "NONE", occupancy |-> "NOT_MOVED_IN", moveOut |-> "NONE",
            checklist |-> NoList, version |-> 0, renewedFrom |-> Nobody]
NoRead  == [lease |-> Nobody]

LifeInit ==
  /\ lease = [l \in Leases |-> Absent]
  /\ loans = [l \in Leases |-> [k \in AssetKeys |-> "NONE"]]
  /\ history = [l \in Leases |-> <<>>]
  /\ events = {}
  /\ request = [q \in Requests |-> NoRead]

(***************************************************************************)
(* Reading and claiming.                                                   *)
(***************************************************************************)

Issued(l) == {k \in AssetKeys : loans[l][k] = "ISSUED"}

\* requireLease; completeMoveOut also counts the keys before its transaction.
Read(q, l) ==
  /\ request[q] = NoRead /\ lease[l].status # "NONE"
  /\ request' = [request EXCEPT ![q] =
                   [lease |-> l, row |-> lease[l], openKeys |-> Issued(l) # {}]]
  /\ UNCHANGED <<lease, loans, history, events>>

\* A refusal, a lost claim, or an error of the database.
GiveUp(q) ==
  /\ request[q] # NoRead
  /\ request' = [request EXCEPT ![q] = NoRead]
  /\ UNCHANGED <<lease, loans, history, events>>

\* A faulty variant of Claimable: the version is compared with what was read
\* only, not in the WHERE of the claim.
ClaimableByStatus(q, statuses) ==
  LET l == request[q].lease IN
  /\ request[q] # NoRead
  /\ lease[l].status \in statuses
  /\ lease[l].version < MaxVersion[l]

\* The claim of request q finds its row.
Claimable(q, statuses) ==
  LET l == request[q].lease IN
  /\ request[q] # NoRead
  /\ lease[l].status \in statuses
  /\ lease[l].version = request[q].row.version
  /\ lease[l].version < MaxVersion[l]

\* The row of lease l after the claim, and the end of the request.
Claim(q, l, row) ==
  /\ lease' = [lease EXCEPT ![l] = [row EXCEPT !.version = @ + 1]]
  /\ request' = [request EXCEPT ![q] = NoRead]

\* The unique index on (aggregate_type, aggregate_id, sequence).
EventAdded(l) == (SequencedOutbox \/ l \notin events) /\ events' = events \cup {l}

Recorded(l, from, to) == [history EXCEPT ![l] = Append(@, <<from, to>>)]

(***************************************************************************)
(* Drafts.                                                                 *)
(***************************************************************************)

Draft(prior) == [Absent EXCEPT !.status = "DRAFT", !.version = 1, !.renewedFrom = prior]

CreateLease(l) ==
  /\ lease[l] = Absent
  /\ lease' = [lease EXCEPT ![l] = Draft(Nobody)]
  /\ history' = Recorded(l, "NONE", "DRAFT")
  /\ UNCHANGED <<loans, events, request>>

\* patchLease and setAllocation leave a draft a draft with a new version.
Amend(q) ==
  LET r == request[q]  l == r.lease IN
  /\ Claimable(q, {"DRAFT"})
  /\ Claim(q, l, lease[l])
  /\ UNCHANGED <<loans, history, events>>

ActivateLease(q) ==
  LET r == request[q]  l == r.lease IN
  /\ Claimable(q, {"DRAFT"})
  /\ Claim(q, l, [lease[l] EXCEPT !.status = "ACTIVE"])
  /\ history' = Recorded(l, "DRAFT", "ACTIVE")
  /\ EventAdded(l)
  /\ UNCHANGED loans

(***************************************************************************)
(* Leases in force.                                                        *)
(***************************************************************************)

\* issued: the asset keys checked out with the move-in.
MoveIn(q, issued) ==
  LET r == request[q]  l == r.lease IN
  /\ Claimable(q, Current)
  /\ r.row.status \in Current /\ r.row.occupancy = "NOT_MOVED_IN"
  /\ lease[l].occupancy = "NOT_MOVED_IN"
  /\ Claim(q, l, [lease[l] EXCEPT !.occupancy = "OCCUPIED"])
  /\ loans' = [loans EXCEPT ![l] = [k \in AssetKeys |-> IF k \in issued THEN "ISSUED" ELSE @[k]]]
  /\ EventAdded(l)
  /\ UNCHANGED history

\* A faulty variant of RenewalsOf: a renewal counts until it is activated.
RenewalsDrafted(l) == {m \in Leases : lease[m].renewedFrom = l /\ lease[m].status = "DRAFT"}

\* The successors of lease l that are drafted or in force.
RenewalsOf(l) ==
  {m \in Leases : lease[m].renewedFrom = l /\ lease[m].status \in {"DRAFT"} \cup Current}

\* The prior lease only gets a version; n is the renewal's draft.
Renew(q, n) ==
  LET r == request[q]  l == r.lease IN
  /\ Claimable(q, Current)
  /\ r.row.status \in Current
  /\ RenewalsOf(l) = {}
  /\ lease[n] = Absent
  /\ lease' = [lease EXCEPT ![l].version = @ + 1, ![n] = Draft(l)]
  /\ request' = [request EXCEPT ![q] = NoRead]
  /\ history' = Recorded(n, "NONE", "DRAFT")
  /\ EventAdded(l)
  /\ UNCHANGED loans

\* The lease gets another place.
Transfer(q) ==
  LET r == request[q]  l == r.lease IN
  /\ Claimable(q, Current)
  /\ r.row.status \in Current
  /\ Claim(q, l, lease[l])
  /\ EventAdded(l)
  /\ UNCHANGED <<loans, history>>

\* The history gets the status that was read.
RecordNotice(q) ==
  LET r == request[q]  l == r.lease IN
  /\ Claimable(q, Current)
  /\ r.row.status \in Current
  /\ Claim(q, l, [lease[l] EXCEPT !.status = "NOTICE"])
  /\ history' = Recorded(l, r.row.status, "NOTICE")
  /\ EventAdded(l)
  /\ UNCHANGED loans

(***************************************************************************)
(* The move-out checkout.  Its claims do not look at the lease's status.   *)
(***************************************************************************)

\* Also restarts a checkout in progress, with a checklist that is all open.
StartMoveOut(q) ==
  LET r == request[q]  l == r.lease IN
  /\ Claimable(q, Statuses)
  /\ r.row.occupancy = "OCCUPIED" /\ r.row.moveOut # "COMPLETED"
  /\ lease[l].occupancy = "OCCUPIED"
  /\ Claim(q, l, [lease[l] EXCEPT !.moveOut = "IN_PROGRESS",
                                  !.checklist = [items |-> Items, completed |-> {}]])
  /\ UNCHANGED <<loans, history, events>>

\* The keys of lease l after a patch: all issued keys returned if `all` is set,
\* then the returns that are listed one by one.
KeysAfter(l, all, returns) ==
  [k \in AssetKeys |->
     IF loans[l][k] = "NONE" THEN "NONE"
     ELSE IF k \in DOMAIN returns THEN returns[k]
     ELSE IF all /\ loans[l][k] = "ISSUED" THEN "RETURNED" ELSE loans[l][k]]

\* The request may give a whole new checklist, of any items.
PatchMoveOut(q, checklist, all, returns) ==
  LET r == request[q]  l == r.lease IN
  /\ Claimable(q, Statuses)
  /\ r.row.moveOut = "IN_PROGRESS" /\ lease[l].moveOut = "IN_PROGRESS"
  /\ loans' = [loans EXCEPT ![l] = KeysAfter(l, all, returns)]
  /\ Claim(q, l, [lease[l] EXCEPT !.checklist = checklist])
  /\ UNCHANGED <<history, events>>

\* A faulty variant of Reconciled: an empty checklist will do.
ReconciledKeysOnly(row, openKeys) == row.checklist.completed = row.checklist.items /\ ~openKeys

\* The checks of completeMoveOut on what was read.
Reconciled(row, openKeys) ==
  /\ row.checklist.items # {}
  /\ row.checklist.completed = row.checklist.items
  /\ ~openKeys

CompleteMoveOut(q) ==
  LET r == request[q]  l == r.lease IN
  /\ Claimable(q, Statuses)
  /\ r.row.moveOut = "IN_PROGRESS" /\ lease[l].moveOut = "IN_PROGRESS"
  /\ Reconciled(r.row, r.openKeys)
  /\ Claim(q, l, [lease[l] EXCEPT !.moveOut = "COMPLETED", !.occupancy = "MOVED_OUT"])
  /\ EventAdded(l)
  /\ UNCHANGED <<loans, history>>

\* What the lease becomes, and what goes to the history, follow from what was
\* read.
Terminate(q) ==
  LET r    == request[q]
      l    == r.lease
      last == IF r.row.status = "DRAFT" THEN "CANCELLED" ELSE "ENDED"
  IN
  /\ Claimable(q, {"DRAFT"} \cup Current)
  /\ r.row.status \notin {"ENDED", "CANCELLED"}
  /\ r.row.occupancy = "OCCUPIED" => r.row.moveOut = "COMPLETED"
  /\ Claim(q, l, [lease[l] EXCEPT !.status = last])
  /\ history' = Recorded(l, r.row.status, last)
  /\ EventAdded(l)
  /\ UNCHANGED loans

LifeNext ==
  \/ \E l \in Leases : CreateLease(l)
  \/ \E q \in Requests, l \in Leases : Read(q, l) \/ Renew(q, l)
  \/ \E q \in Requests :
       \/ GiveUp(q) \/ Amend(q) \/ ActivateLease(q) \/ Transfer(q) \/ RecordNotice(q)
       \/ StartMoveOut(q) \/ CompleteMoveOut(q) \/ Terminate(q)
       \/ \E issued \in SUBSET AssetKeys : MoveIn(q, issued)
       \/ \E checklist \in Checklists, all \in BOOLEAN, listed \in SUBSET AssetKeys :
            \E returns \in [listed -> {"RETURNED", "LOST", "DAMAGED"}] :
              PatchMoveOut(q, checklist, all, returns)

LifeSpec == LifeInit /\ [][LifeNext]_lifeVars

(***************************************************************************)
(* Properties.                                                             *)
(***************************************************************************)

LeaseRow ==
  [status : Statuses, occupancy : {"NOT_MOVED_IN", "OCCUPIED", "MOVED_OUT"},
   moveOut : {"NONE", "IN_PROGRESS", "COMPLETED"}, checklist : Checklists,
   version : Nat, renewedFrom : Leases \cup {Nobody}]

\* Every row fits its table, and what was read is a row.
LifeTypeOK ==
  /\ lease \in [Leases -> LeaseRow]
  /\ loans \in [Leases -> [AssetKeys -> KeyStatuses]]
  /\ \A l \in Leases : history[l] \in Seq(Statuses \X Statuses)
  /\ events \subseteq Leases
  /\ request \in [Requests ->
       {NoRead} \cup [lease : Leases, row : LeaseRow, openKeys : BOOLEAN]]

\* Somebody lives under a lease only while it is in force, and a checkout under
\* way is of somebody who still lives there: a termination, a move-in and a
\* checkout decided from stale reads never end a lease under its resident, and
\* no second checkout starts behind a completed one.
OccupiedInForce ==
  \A l \in Leases :
    lease[l].occupancy = "OCCUPIED" \/ lease[l].moveOut = "IN_PROGRESS" =>
      /\ lease[l].status \in Current /\ lease[l].occupancy = "OCCUPIED"
      /\ lease[l].moveOut # "COMPLETED"

\* Whoever has moved out has left no key outstanding and a checklist that was
\* worked through, although keys and checklist were read before the
\* transaction, may be patched meanwhile and may be reopened by a restart.
MovedOutReconciled ==
  \A l \in Leases :
    lease[l].occupancy = "MOVED_OUT" =>
      /\ lease[l].moveOut = "COMPLETED"
      /\ \A k \in AssetKeys : loans[l][k] # "ISSUED"
      /\ lease[l].checklist.items # {} /\ lease[l].checklist.completed = lease[l].checklist.items

\* A lease has at most one successor that is drafted or in force, also when
\* the first is activated before a second renewal is asked for.
OneLiveRenewal == \A l \in Leases : Cardinality({m \in Leases :
  lease[m].renewedFrom = l /\ lease[m].status \in {"DRAFT", "ACTIVE", "NOTICE"}}) <= 1

\* The history of a lease is a chain from its creation to its status, although
\* each operation writes the status it has read.
HistoryChains ==
  \A l \in Leases :
    LET h == history[l] IN
    /\ (h = <<>>) <=> (lease[l].status = "NONE")
    /\ h # <<>> => h[1] = <<"NONE", "DRAFT">> /\ h[Len(h)][2] = lease[l].status
    /\ \A i \in 1..(Len(h) - 1) : h[i][2] = h[i + 1][1]

\* What occupancy, checkout, renewal and history of a lease promise together:
\* the operations decide from rows read before their transactions, and only the
\* version in the claim keeps them apart.
LeasesSafe == OccupiedInForce /\ MovedOutReconciled /\ OneLiveRenewal /\ HistoryChains

=============================================================================
