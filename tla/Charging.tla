------------------------------- MODULE Charging -------------------------------
(***************************************************************************)
(* Recurring charges: billing runs, which charge the rent of the leases in *)
(* force, and utility allocation runs, which split a tariff over them      *)
(* (apps/api/src/modules/billing), for one organization and one period.    *)
(*                                                                         *)
(* A run is previewed, approved (billing runs only) and committed.  A      *)
(* commit reads the run, waits for the advisory lock of the period, then   *)
(* makes and posts an invoice for each line that is not charged yet.       *)
(* Preview and approval read the run and later write it by its id.         *)
(*                                                                         *)
(* An invoice line carries a charge key made of kind, lease and period,    *)
(* which a unique index keeps unique, whatever becomes of the invoice.     *)
(* executeCommit catches the failure of a line and sets the run to FAILED  *)
(* or PARTIAL.  After a failed statement that cannot commit, because       *)
(* PostgreSQL has aborted the transaction; after the errors it throws      *)
(* itself (no lease, no party to bill) it could, but leases are made with  *)
(* a party and neither is ever deleted, so no operation leads there.       *)
(*                                                                         *)
(* Amounts, parties and currencies are left out.  rented are the leases    *)
(* that are ACTIVE or under NOTICE and lived in.                           *)
(***************************************************************************)
EXTENDS Naturals, Sequences, FiniteSets

CONSTANTS
  Leases, BillingRuns, UtilityRuns, ChargeRequests,
  NoRun,            \* no run read
  MaxRunVersion,    \* bound on the changes of one billing run
  SequencedCharges  \* outbox events of one aggregate get distinct sequences

ASSUME ChargingAssumption ==
  /\ IsFiniteSet(Leases) /\ MaxRunVersion \in Nat /\ SequencedCharges \in BOOLEAN
  /\ NoRun \notin BillingRuns \cup UtilityRuns

VARIABLES
  rented,    \* leases in force
  run,       \* billing_runs: status, leases of the previewPayload, version
  utility,   \* utility_allocation_runs: status, leases of the previewPayload
  bill,      \* invoices in the order of their creation
  events,    \* billing runs with an event in the outbox
  charging   \* the lines each open request has read, or means to write

chargeVars == <<rented, run, utility, bill, events, charging>>

Kinds == {"RENT", "UTILITY"}
NoRequest  == [op |-> "idle", of |-> NoRun]

ChargeInit ==
  /\ rented \in SUBSET Leases
  /\ run = [r \in BillingRuns |-> [status |-> "NONE", lines |-> {}, version |-> 0]]
  /\ utility = [u \in UtilityRuns |-> [status |-> "NONE", lines |-> {}]]
  /\ bill = <<>>
  /\ events = {}
  /\ charging = [q \in ChargeRequests |-> NoRequest]

(***************************************************************************)
(* Invoices.                                                               *)
(***************************************************************************)

\* The leases charged by invoices of a kind in one of the given statuses.
ChargedIn(kind, statuses) ==
  {l \in Leases : \E i \in DOMAIN bill :
     bill[i].kind = kind /\ bill[i].lease = l /\ bill[i].status \in statuses}

\* A faulty variant: without the unique index of migration 20260729130000.
ChargeKeyTakenNever(kind) == ChargedIn(kind, {})

\* The leases whose charge key the unique index refuses.
ChargeKeyTaken(kind) == ChargedIn(kind, {"POSTED", "PAID", "VOID"})

\* The leases a commit passes over, by the statuses it looks for.
PassedOver(kind) ==
  ChargedIn(kind, IF kind = "RENT" THEN {"POSTED", "PAID"} ELSE {"POSTED"})

\* What a commit has to charge, and whether the database lets it.
ToCharge(kind, lines) == lines \ PassedOver(kind)
Insertable(kind, lines) == ToCharge(kind, lines) \cap ChargeKeyTaken(kind) = {}

\* The invoices after charging `leases`, one by one.
WithCharges(kind, leases, by) ==
  LET order == CHOOSE s \in [1..Cardinality(leases) -> leases] :
                 \A l \in leases : \E i \in DOMAIN s : s[i] = l
  IN bill \o [i \in DOMAIN order |->
       [kind |-> kind, lease |-> order[i], by |-> by, status |-> "POSTED"]]

\* A payment in full, and a void of an unpaid invoice (module Receivables).
Pay(i) ==
  /\ bill[i].status = "POSTED"
  /\ bill' = [bill EXCEPT ![i].status = "PAID"]
  /\ UNCHANGED <<rented, run, utility, events, charging>>

Void(i) ==
  /\ bill[i].status = "POSTED"
  /\ bill' = [bill EXCEPT ![i].status = "VOID"]
  /\ UNCHANGED <<rented, run, utility, events, charging>>

\* A lease comes into force or ends (module LeaseLifecycle).
ChangeRented(l) ==
  /\ rented' = IF l \in rented THEN rented \ {l} ELSE rented \cup {l}
  /\ UNCHANGED <<run, utility, bill, events, charging>>

(***************************************************************************)
(* Billing runs.                                                           *)
(***************************************************************************)

CreateBillingRun(r) ==
  /\ run[r].status = "NONE"
  /\ run' = [run EXCEPT ![r] = [status |-> "DRAFT", lines |-> {}, version |-> 1]]
  /\ UNCHANGED <<rented, utility, bill, events, charging>>

Opened(q, op, of, lines) ==
  /\ charging[q] = NoRequest
  /\ charging' = [charging EXCEPT ![q] = [op |-> op, of |-> of, lines |-> lines]]
  /\ UNCHANGED <<rented, run, utility, bill, events>>

Closed(q) == charging' = [charging EXCEPT ![q] = NoRequest]

GiveUp(q) ==
  /\ charging[q] # NoRequest
  /\ Closed(q)
  /\ UNCHANGED <<rented, run, utility, bill, events>>

\* buildPreview lists the leases in force when the run is read.
PreviewRead(q, r) ==
  /\ run[r].status \notin {"NONE", "COMPLETED", "COMMITTING"}
  /\ run[r].version < MaxRunVersion
  /\ Opened(q, "preview", r, rented)

PreviewWrite(q) ==
  LET r == charging[q].of IN
  /\ charging[q].op = "preview"
  /\ run' = [run EXCEPT ![r] = [status |-> "PREVIEWED", lines |-> charging[q].lines,
                                version |-> @.version + 1]]
  /\ Closed(q)
  /\ UNCHANGED <<rented, utility, bill, events>>

\* The version the approver names is compared with the one read.
ApproveRead(q, r) ==
  /\ run[r].status \in {"PREVIEWED", "APPROVED"}
  /\ run[r].version < MaxRunVersion
  /\ Opened(q, "approve", r, {})

ApproveWrite(q) ==
  LET r == charging[q].of IN
  /\ charging[q].op = "approve"
  /\ run' = [run EXCEPT ![r].status = "APPROVED", ![r].version = @ + 1]
  /\ Closed(q)
  /\ UNCHANGED <<rented, utility, bill, events>>

\* executeCommit reads the run before it waits for the advisory lock.
CommitRead(q, r) ==
  /\ run[r].status \in {"APPROVED", "FAILED", "PARTIAL"}
  /\ run[r].version < MaxRunVersion
  /\ Opened(q, "commit", r, run[r].lines)

\* A payload without lines is built anew under the lock.
CommitLines(q) == IF charging[q].lines = {} THEN rented ELSE charging[q].lines

\* The row keeps its payload unless that was rebuilt.
CommitWrite(q) ==
  LET r == charging[q].of  lines == CommitLines(q) IN
  /\ charging[q].op = "commit"
  /\ Insertable("RENT", lines)
  /\ SequencedCharges \/ r \notin events
  /\ bill' = WithCharges("RENT", ToCharge("RENT", lines), r)
  /\ run' = [run EXCEPT ![r] =
       [status |-> "COMPLETED", version |-> @.version + 2,
        lines |-> IF charging[q].lines = {} THEN lines ELSE @.lines]]
  /\ events' = events \cup {r}
  /\ Closed(q)
  /\ UNCHANGED <<rented, utility>>

\* One line violates the index; with it the whole transaction is lost.
CommitAborts(q) ==
  LET lines == CommitLines(q) IN
  /\ charging[q].op = "commit"
  /\ ~Insertable("RENT", lines)
  /\ Closed(q)
  /\ UNCHANGED <<rented, run, utility, bill, events>>

(***************************************************************************)
(* Utility allocation runs, of one utility type.                           *)
(***************************************************************************)

PreviewUtility(u) ==
  /\ utility[u].status = "NONE"
  /\ utility' = [utility EXCEPT ![u] = [status |-> "PREVIEWED", lines |-> rented]]
  /\ UNCHANGED <<rented, run, bill, events, charging>>

UtilityRead(q, u) ==
  /\ utility[u].status = "PREVIEWED"
  /\ Opened(q, "utility", u, utility[u].lines)

\* A faulty variant of UtilityWrite: lines that cannot be inserted are left out.
UtilityWriteSkipping(q) ==
  LET u == charging[q].of  lines == charging[q].lines IN
  /\ charging[q].op = "utility"
  /\ bill' = IF Insertable("UTILITY", lines)
             THEN WithCharges("UTILITY", ToCharge("UTILITY", lines), u) ELSE bill
  /\ utility' = [utility EXCEPT ![u].status = "COMMITTED"]
  /\ Closed(q)
  /\ UNCHANGED <<rented, run, events>>

\* A failing insert aborts the transaction (GiveUp).
UtilityWrite(q) ==
  LET u == charging[q].of  lines == charging[q].lines IN
  /\ charging[q].op = "utility"
  /\ Insertable("UTILITY", lines)
  /\ bill' = WithCharges("UTILITY", ToCharge("UTILITY", lines), u)
  /\ utility' = [utility EXCEPT ![u].status = "COMMITTED"]
  /\ Closed(q)
  /\ UNCHANGED <<rented, run, events>>

ChargeNext ==
  \/ \E i \in DOMAIN bill : Pay(i) \/ Void(i)
  \/ \E l \in Leases : ChangeRented(l)
  \/ \E r \in BillingRuns :
       CreateBillingRun(r)
       \/ \E q \in ChargeRequests : PreviewRead(q, r) \/ ApproveRead(q, r) \/ CommitRead(q, r)
  \/ \E u \in UtilityRuns : PreviewUtility(u) \/ \E q \in ChargeRequests : UtilityRead(q, u)
  \/ \E q \in ChargeRequests :
       \/ GiveUp(q) \/ PreviewWrite(q) \/ ApproveWrite(q)
       \/ CommitWrite(q) \/ CommitAborts(q) \/ UtilityWrite(q)

ChargeSpec == ChargeInit /\ [][ChargeNext]_chargeVars

(***************************************************************************)
(* Properties.                                                             *)
(***************************************************************************)

RunRow == [status : {"NONE", "DRAFT", "PREVIEWED", "APPROVED", "COMPLETED"},
           lines : SUBSET Leases, version : Nat]
UtilityRow == [status : {"NONE", "PREVIEWED", "COMMITTED"}, lines : SUBSET Leases]

\* Every row fits its table.
ChargeTypeOK ==
  /\ rented \subseteq Leases
  /\ run \in [BillingRuns -> RunRow]
  /\ utility \in [UtilityRuns -> UtilityRow]
  /\ \A i \in DOMAIN bill :
       bill[i] \in [kind : Kinds, lease : Leases, by : BillingRuns \cup UtilityRuns,
                       status : {"POSTED", "PAID", "VOID"}]
  /\ events \subseteq BillingRuns

\* A lease is charged once for a period, whatever runs overlap, repeat or are
\* approved again, and whatever has been paid meanwhile.
ChargedOnce ==
  \A i, j \in DOMAIN bill :
    i # j /\ "VOID" \notin {bill[i].status, bill[j].status} =>
      <<bill[i].kind, bill[i].lease>> # <<bill[j].kind, bill[j].lease>>

\* The utilities of a committed run are charged to every lease it lists.
AllocatedToAll ==
  \A u \in UtilityRuns :
    utility[u].status = "COMMITTED" =>
      utility[u].lines \subseteq ChargedIn("UTILITY", {"POSTED", "PAID", "VOID"})

\* A lease is charged once and nobody is left out: the claims of two runs, their
\* retries and the unique index on charge keys meet in one transaction.
ChargesFit == ChargedOnce /\ AllocatedToAll

=============================================================================
