---------------------------- MODULE Reconciliation ----------------------------
(***************************************************************************)
(* Reconciliation of the payments of a period with the lines of a bank or  *)
(* provider, and the closing of the period                                 *)
(* (apps/api/src/modules/reconciliation).                                  *)
(*                                                                         *)
(* Each operation is a READ COMMITTED transaction that checks statuses     *)
(* without a lock and updates rows by their id.  What is modelled of it:   *)
(* the check (Begin...), the reading of the run's items by                 *)
(* recomputeRunTotals (Sum), and the update of the run, which waits for    *)
(* every other transaction that has updated it, with the commit            *)
(* (Finish...).  An item a transaction has written stays locked from Sum   *)
(* to its end, and nobody else sees it.                                    *)
(*                                                                         *)
(* One currency, one period, a tolerance of zero, one line per ingestion.  *)
(* Statuses PENDING_APPROVAL, CANCELLED and RESOLVED are never assigned.   *)
(***************************************************************************)
EXTENDS Naturals, FiniteSets, Functions

CONSTANTS
  Receipts,         \* payments that may be recorded
  Runs,             \* reconciliation runs
  Items,            \* items of the runs
  Clerks,           \* users
  NoOne,            \* SQL NULL
  ReconAmounts,     \* amounts of payments, lines and control totals
  Transactions,     \* transactions that may overlap
  SequencedRecon    \* outbox events of one aggregate get distinct sequences

ASSUME ReconAssumption ==
  /\ ReconAmounts \subseteq Nat \ {0} /\ SequencedRecon \in BOOLEAN
  /\ IsFiniteSet(Items)
  /\ NoOne \notin Receipts \cup Runs \cup Items \cup Clerks

VARIABLES
  paid,      \* payments: amount, status and reconciliation_status
  recon,     \* reconciliation_runs
  item,      \* reconciliation_items
  period,    \* status of the accounting period
  notified,  \* aggregates with an event in the outbox
  trans      \* what each open transaction has read and will write

reconVars == <<paid, recon, item, period, notified, trans>>

Done      == {"MATCHED", "EXCEPTION_ACCEPTED"}
Unsettled == {"UNMATCHED", "DISPUTED", "SUGGESTED"}
NoControl == 0
NoItem    == [status |-> "NONE", run |-> NoOne, amount |-> 0, payment |-> NoOne]
NoRunYet  == [status |-> "NONE", preparer |-> NoOne, approver |-> NoOne, control |-> NoControl,
              matched |-> 0, unmatched |-> 0, override |-> FALSE]
NoTrans   == [op |-> "none"]

ReconInit ==
  /\ paid = [p \in Receipts |-> [amount |-> 0, status |-> "NONE", recon |-> "UNRECONCILED"]]
  /\ recon = [r \in Runs |-> NoRunYet]
  /\ item = [i \in Items |-> NoItem]
  /\ period = "OPEN"
  /\ notified = {}
  /\ trans = [t \in Transactions |-> NoTrans]

Begun(t, doing) ==
  /\ trans[t] = NoTrans
  /\ trans' = [trans EXCEPT ![t] = doing]
  /\ UNCHANGED <<paid, recon, item, period, notified>>

Ended(t) == trans' = [trans EXCEPT ![t] = NoTrans]

\* A refusal, a deadlock or any other error.
Abort(t) ==
  /\ trans[t] # NoTrans
  /\ Ended(t)
  /\ UNCHANGED <<paid, recon, item, period, notified>>

Notified(a) == (SequencedRecon \/ a \notin notified) /\ notified' = notified \cup {a}

(***************************************************************************)
(* Payments and the period.                                                *)
(***************************************************************************)

\* assertPeriodOpen, on the way to a payment or its reversal.
BeginPost(t, p, amount) ==
  /\ period = "OPEN"
  /\ \/ paid[p].status = "NONE" /\ Begun(t, [op |-> "record", payment |-> p, amount |-> amount])
     \/ paid[p].status = "SETTLED" /\ amount = paid[p].amount
        /\ Begun(t, [op |-> "reverse", payment |-> p, amount |-> amount])

\* The reversal has locked the payment before.
FinishPost(t) ==
  LET p == trans[t].payment IN
  /\ trans[t].op \in {"record", "reverse"}
  /\ paid[p].status = IF trans[t].op = "record" THEN "NONE" ELSE "SETTLED"
  /\ paid' = [paid EXCEPT ![p].amount = trans[t].amount,
                          ![p].status = IF trans[t].op = "record" THEN "SETTLED" ELSE "REVERSED"]
  /\ Ended(t)
  /\ UNCHANGED <<recon, item, period, notified>>

\* Two closings that overlap have the same effect as one.
ClosePeriod ==
  /\ period = "OPEN"
  /\ \A i \in Items : item[i].status \in Unsettled => recon[item[i].run].status = "COMPLETED"
  /\ period' = "CLOSED"
  /\ Notified("period")
  /\ UNCHANGED <<paid, recon, item, trans>>

ReopenPeriod ==
  /\ period = "CLOSED"
  /\ period' = "OPEN"
  /\ UNCHANGED <<paid, recon, item, notified, trans>>

(***************************************************************************)
(* Runs and their totals.                                                  *)
(***************************************************************************)

CreateRun(r, user, control) ==
  /\ recon[r].status = "NONE"
  /\ recon' = [recon EXCEPT ![r] =
       [NoRunYet EXCEPT !.status = "DRAFT", !.preparer = user, !.control = control]]
  /\ UNCHANGED <<paid, item, period, notified, trans>>

TotalOf(rows, r, statuses) ==
  SumFunctionOnSet([i \in Items |-> rows[i].amount],
                   {i \in Items : rows[i].run = r /\ rows[i].status \in statuses})

\* A faulty variant of MatchedStatuses: review item C2 of Sprint 12.
MatchedOrSuggested == {"MATCHED", "EXCEPTION_ACCEPTED", "SUGGESTED"}

MatchedStatuses == {"MATCHED", "EXCEPTION_ACCEPTED"}

\* The items as transaction t sees them, with the one it writes itself.
Seen(t) ==
  IF trans[t].op = "complete" THEN item ELSE [item EXCEPT ![trans[t].item] = trans[t].row]

\* The first half of recomputeRunTotals; an item's writer excludes others.
Sum(t) ==
  LET q == trans[t] IN
  /\ q.op \in {"ingest", "resolve", "complete"} /\ ~q.summed
  /\ q.op = "resolve" => \A s \in Transactions \ {t} :
       ~(trans[s].op = "resolve" /\ trans[s].summed /\ trans[s].item = q.item)
  /\ trans' = [trans EXCEPT ![t] =
       [q EXCEPT !.summed = TRUE,
                 !.matched = TotalOf(Seen(t), q.run, MatchedStatuses),
                 !.unmatched = TotalOf(Seen(t), q.run, Unsettled)]]
  /\ UNCHANGED <<paid, recon, item, period, notified>>

\* The run with the totals transaction t has computed.
Totalled(t) ==
  [recon[trans[t].run] EXCEPT !.matched = trans[t].matched, !.unmatched = trans[t].unmatched]

\* control minus matched, the control being the items' total when there is none.
Variance(rn) ==
  LET control == IF rn.control = NoControl THEN rn.matched + rn.unmatched ELSE rn.control
  IN IF control >= rn.matched THEN control - rn.matched ELSE rn.matched - control

(***************************************************************************)
(* ingestSettlements: a line of which the payment with its reference, if   *)
(* there is one and the amounts agree, is suggested.                       *)
(***************************************************************************)

BeginIngest(t, r, i, amount, p) ==
  LET suggested == p # NoOne /\ paid[p].status = "SETTLED" /\ paid[p].amount = amount IN
  /\ recon[r].status \in {"DRAFT", "IN_PROGRESS"}
  /\ item[i] = NoItem
  /\ \A s \in Transactions : trans[s].op = "ingest" => trans[s].item # i
  /\ p # NoOne => paid[p].status = "SETTLED"
  /\ Begun(t, [op |-> "ingest", run |-> r, item |-> i, summed |-> FALSE, matched |-> 0,
               unmatched |-> 0,
               row |-> [status |-> IF suggested THEN "SUGGESTED" ELSE "UNMATCHED", run |-> r,
                        amount |-> amount, payment |-> IF suggested THEN p ELSE NoOne]])

FinishIngest(t) ==
  LET q == trans[t] IN
  /\ q.op = "ingest" /\ q.summed
  /\ item' = [item EXCEPT ![q.item] = q.row]
  /\ recon' = [recon EXCEPT ![q.run] = [Totalled(t) EXCEPT !.status = "IN_PROGRESS"]]
  /\ Ended(t)
  /\ UNCHANGED <<paid, period, notified>>

(***************************************************************************)
(* resolveItem: MATCH, UNMATCH, EXCEPTION_ACCEPTED or ADJUSTMENT_REQUIRED, *)
(* with the payment of the request or else of the item.  The run's status  *)
(* is not looked at.                                                       *)
(***************************************************************************)

Matchable(p, amount) == p # NoOne /\ paid[p].status # "NONE" /\ paid[p].amount = amount

BeginResolve(t, i, status, p) ==
  LET given == IF p # NoOne THEN p ELSE item[i].payment IN
  /\ item[i].status \in Unsettled
  /\ status = "MATCHED" => Matchable(given, item[i].amount)
  /\ p # NoOne => paid[p].status # "NONE"
  /\ Begun(t, [op |-> "resolve", run |-> item[i].run, item |-> i, summed |-> FALSE,
               matched |-> 0, unmatched |-> 0,
               row |-> [item[i] EXCEPT !.status = status,
                                       !.payment = IF status = "UNMATCHED" THEN NoOne ELSE given]])

\* What happens to the payment.
FinishResolve(t) ==
  LET q == trans[t]  p == q.row.payment IN
  /\ q.op = "resolve" /\ q.summed
  /\ paid' = IF q.row.status = "MATCHED" THEN [paid EXCEPT ![p].recon = "MATCHED"]
             ELSE IF q.row.status = "EXCEPTION_ACCEPTED" /\ p # NoOne
             THEN [paid EXCEPT ![p].recon = "EXCEPTION"] ELSE paid
  /\ item' = [item EXCEPT ![q.item] = q.row]
  /\ recon' = [recon EXCEPT ![q.run] = Totalled(t)]
  /\ Ended(t)
  /\ UNCHANGED <<period, notified>>

(***************************************************************************)
(* completeRun.                                                            *)
(***************************************************************************)

\* user: the caller, or NoOne for one who may not approve; reason: a reason
\* for an override is given.
BeginComplete(t, r, user, reason) ==
  /\ recon[r].status \in {"DRAFT", "IN_PROGRESS"}
  /\ Begun(t, [op |-> "complete", run |-> r, user |-> user,
               reason |-> reason, summed |-> FALSE, matched |-> 0, unmatched |-> 0])

\* A faulty variant of NeedsOverride: open items do not count.
NeedsOverrideIfOff(r, rn) == r \in Runs /\ Variance(rn) > 0

NeedsOverride(r, rn) ==
  Variance(rn) > 0 \/ \E i \in Items : item[i].run = r /\ item[i].status \in Unsettled

FinishComplete(t) ==
  LET q == trans[t]  needed == NeedsOverride(q.run, Totalled(t)) IN
  /\ q.op = "complete" /\ q.summed
  /\ needed => q.reason /\ q.user \notin {NoOne, recon[q.run].preparer}
  /\ recon' = [recon EXCEPT ![q.run] =
       [Totalled(t) EXCEPT !.status = "COMPLETED", !.override = q.reason,
                           !.approver = IF q.user # NoOne THEN q.user ELSE @]]
  /\ Notified(q.run)
  /\ Ended(t)
  /\ UNCHANGED <<paid, item, period>>

ReconNext ==
  \/ ClosePeriod \/ ReopenPeriod
  \/ \E r \in Runs, user \in Clerks, control \in ReconAmounts \cup {NoControl} :
       CreateRun(r, user, control)
  \/ \E t \in Transactions :
       \/ Abort(t) \/ Sum(t)
       \/ FinishPost(t) \/ FinishIngest(t) \/ FinishResolve(t) \/ FinishComplete(t)
       \/ \E p \in Receipts, amount \in ReconAmounts : BeginPost(t, p, amount)
       \/ \E i \in Items, p \in Receipts \cup {NoOne} :
            \/ \E r \in Runs, amount \in ReconAmounts : BeginIngest(t, r, i, amount, p)
            \/ \E status \in {"MATCHED", "UNMATCHED", "EXCEPTION_ACCEPTED", "DISPUTED"} :
                 BeginResolve(t, i, status, p)
       \/ \E r \in Runs, user \in Clerks \cup {NoOne}, reason \in BOOLEAN :
            BeginComplete(t, r, user, reason)

ReconSpec == ReconInit /\ [][ReconNext]_reconVars

(***************************************************************************)
(* Properties.                                                             *)
(***************************************************************************)

\* Rows fit their tables.
ReconTypeOK ==
  /\ paid \in [Receipts -> [amount : ReconAmounts \cup {0}, status : {"NONE", "SETTLED", "REVERSED"},
                            recon : {"UNRECONCILED", "MATCHED", "EXCEPTION"}]]
  /\ recon \in [Runs -> [status : {"NONE", "DRAFT", "IN_PROGRESS", "COMPLETED"},
                         preparer : Clerks \cup {NoOne}, approver : Clerks \cup {NoOne},
                         control : Nat, matched : Nat, unmatched : Nat, override : BOOLEAN]]
  /\ item \in [Items -> [status : {"NONE"} \cup Done \cup Unsettled, run : Runs \cup {NoOne},
                         amount : ReconAmounts \cup {0}, payment : Receipts \cup {NoOne}]]
  /\ period \in {"OPEN", "CLOSED"}

\* docs/reviews/Sprint-12-Review.md, C2: a run that was completed without an
\* override has no open item and no variance, now that it is completed.
CompletedClean ==
  \A r \in Runs :
    recon[r].status = "COMPLETED" /\ ~recon[r].override =>
      /\ \A i \in Items : item[i].run = r => item[i].status \in Done
      /\ recon[r].control \in {NoControl, TotalOf(item, r, Done)}

\* The totals of a run are those of its items, also after it is completed, and
\* a payment is marked as matched only when a settled line names it.
TotalsOfItems ==
  /\ \A r \in Runs : /\ recon[r].matched = TotalOf(item, r, Done)
                     /\ recon[r].unmatched = TotalOf(item, r, Unsettled)
  /\ \A p \in Receipts : paid[p].recon = "MATCHED" =>
       \E i \in Items : item[i].status = "MATCHED" /\ item[i].payment = p
                        /\ item[i].amount = paid[p].amount

\* What the run says and what its items say agree, whichever of ingest, resolve,
\* post, reverse and complete wrote last.
RunsAgree == CompletedClean /\ TotalsOfItems

=============================================================================
