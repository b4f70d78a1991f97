---------------------------- MODULE Receivables ----------------------------
(***************************************************************************)
(* The receivables of one lease: invoices, credit notes, payments and      *)
(* their allocations, refunds and payment reversals, with the general      *)
(* ledger they post to (apps/api/src/modules/billing, payments and         *)
(* reconciliation).                                                        *)
(*                                                                         *)
(* Every operation runs in one PostgreSQL transaction at READ COMMITTED.   *)
(* A handler that locks each row (FOR UPDATE) before it reads it is one    *)
(* atomic action here.  A handler that reads a row it has not locked is    *)
(* split in two: ...Read keeps what was read in the request, ...Write      *)
(* commits.  A unique-index violation aborts the whole transaction, so it  *)
(* disables the commit and leaves RollBack.  A rejected request changes    *)
(* nothing and is not an action.                                           *)
(*                                                                         *)
(* Left out: permissions, periods, currencies, document numbers,           *)
(* If-Match versions (a request may carry the right one) and idempotency   *)
(* keys, which other modules treat.  Money is a number of smallest units   *)
(* (0.0001), what roundMoney keeps.                                        *)
(***************************************************************************)
EXTENDS Totals, FiniteSets

CONSTANTS
  NumInvoices, NumPayments, NumRefunds, NumCreditNotes,  \* table sizes
  MaxAmount,        \* largest amount a request carries
  Users,            \* staff members
  Requests,         \* API requests that hold a transaction open
  None,             \* SQL NULL
  Serial,           \* TRUE: a transaction starts only when none is open
  SequencedOutbox   \* FALSE: OutboxService.append as it is (sequence 1)

ASSUME SizesAssumption ==
  /\ NumInvoices \in Nat /\ NumPayments \in Nat
  /\ NumRefunds \in Nat /\ NumCreditNotes \in Nat
  /\ MaxAmount \in Nat
ASSUME NoneAssumption == None \notin Users
ASSUME ModeAssumption == Serial \in BOOLEAN /\ SequencedOutbox \in BOOLEAN

Invoices    == 1..NumInvoices
Payments    == 1..NumPayments
Refunds     == 1..NumRefunds
CreditNotes == 1..NumCreditNotes
Amounts     == 1..MaxAmount

VARIABLES
  invoice,      \* invoices: status, totalAmount, balanceAmount
  creditNote,   \* credit_notes
  payment,      \* payment_transactions
  alloc,        \* live payment_allocations: amount of payment p on invoice i
  refund,       \* refunds
  ledger,       \* account balances of ledger_entries, debit positive
  posted,       \* posting keys used in ledger_entries
  outbox,       \* aggregates with a row of sequence 1 in outbox_events
  request       \* what each open transaction has read

vars == <<invoice, creditNote, payment, alloc, refund, ledger, posted, outbox, request>>

InvoiceRow    == [status : {"DRAFT", "POSTED", "PARTIALLY_PAID", "PAID", "VOID"},
                  total : Nat, balance : Int]
CreditNoteRow == [status : {"NONE", "DRAFT", "POSTED"}, invoice : Invoices \cup {0}, total : Nat]
PaymentRow    == [status : {"NONE", "SETTLED", "REVERSED"}, amount : Nat, unallocated : Int]
RefundRow     == [status : {"NONE", "PENDING", "APPROVED", "REJECTED", "EXECUTED"},
                  payment : Payments \cup {0}, amount : Nat,
                  requester : Users \cup {None}, approver : Users \cup {None},
                  executor : Users \cup {None}]

Idle         == [op |-> "idle"]
Posting(i)   == [op |-> "post", invoice |-> i]
Drafting(i, x) == [op |-> "draft", invoice |-> i, total |-> x]
Crediting(c) == [op |-> "credit", creditNote |-> c]
Approving(r, u) == [op |-> "approve", refund |-> r, user |-> u]
Reversing(p, b) == [op |-> "reverse", payment |-> p, balance |-> b]

(***************************************************************************)
(* Postgres and the services every handler calls.                          *)
(***************************************************************************)

\* A new transaction may begin.
MayStart == Serial => \A q \in Requests : request[q] = Idle

\* No open transaction holds payment p FOR UPDATE.
PaymentUnlocked(p) ==
  \A q \in Requests : request[q].op = "reverse" => request[q].payment # p

\* The insert of an event of aggregate agg passes the unique index on
\* (aggregate_type, aggregate_id, sequence).
OutboxAccepts(agg) == SequencedOutbox \/ agg \notin outbox

\* The account balances after a journal with these signed lines.
LedgerPlus(ar, cash, unapplied, revenue) ==
  [ar        |-> ledger.ar + ar,
   cash      |-> ledger.cash + cash,
   unapplied |-> ledger.unapplied + unapplied,
   revenue   |-> ledger.revenue + revenue]

\* Faulty variants of PostJournal: without the unique index on posting keys;
\* and without the unapplied-cash line.
PostJournalAgain(key, ar, cash, unapplied, revenue) ==
  /\ posted' = posted \cup {key}
  /\ ledger' = LedgerPlus(ar, cash, unapplied, revenue)
PostJournalAllocatedOnly(key, ar, cash, unapplied, revenue) ==
  /\ key \notin posted
  /\ posted' = posted \cup {key}
  /\ ledger' = LedgerPlus(ar, -ar - revenue, 0, revenue)

\* A journal with these signed lines, whose posting key must be new.
PostJournal(key, ar, cash, unapplied, revenue) ==
  /\ key \notin posted
  /\ posted' = posted \cup {key}
  /\ ledger' = LedgerPlus(ar, cash, unapplied, revenue)

\* A faulty variant of PostFreshJournal: unapplied cash is left as it was.
PostFreshJournalArOnly(ar, cash, unapplied) ==
  /\ ledger' = LedgerPlus(ar, cash, 0, 0)
  /\ UNCHANGED posted

\* A journal whose posting keys hold a fresh batch or reversal id.
PostFreshJournal(ar, cash, unapplied) ==
  /\ ledger' = LedgerPlus(ar, cash, unapplied, 0)
  /\ UNCHANGED posted

\* Faulty variants: every restored invoice is POSTED again; an invoice is
\* PAID only below zero; an invoice takes the status of its payment.
RestoredStatusPosted(newBalance, total) == "POSTED"
ReducedStatusStrict(newBalance) == IF newBalance < 0 THEN "PAID" ELSE "PARTIALLY_PAID"
ReducedStatusSettled(newBalance) == IF newBalance <= 0 THEN "SETTLED" ELSE "PARTIALLY_PAID"

\* The status a restored invoice gets.
RestoredStatus(newBalance, total) == IF newBalance >= total THEN "POSTED" ELSE "PARTIALLY_PAID"
\* The status an invoice gets when an amount is taken off its balance.
ReducedStatus(newBalance) == IF newBalance <= 0 THEN "PAID" ELSE "PARTIALLY_PAID"

Collectable(i) == invoice[i].status \in {"POSTED", "PARTIALLY_PAID"}

Begin(q, what) ==
  /\ MayStart
  /\ request[q] = Idle
  /\ request' = [request EXCEPT ![q] = what]
  /\ UNCHANGED <<invoice, creditNote, payment, alloc, refund, ledger, posted, outbox>>

End(q) == request' = [request EXCEPT ![q] = Idle]

\* The transaction of q fails or its process dies before COMMIT.
RollBack(q) ==
  /\ request[q] # Idle
  /\ End(q)
  /\ UNCHANGED <<invoice, creditNote, payment, alloc, refund, ledger, posted, outbox>>

(***************************************************************************)
(* Invoices.                                                               *)
(***************************************************************************)

\* postInvoice reads the invoice without a lock and finds it DRAFT.
PostInvoiceRead(q, i) ==
  /\ invoice[i].status = "DRAFT"
  /\ Begin(q, Posting(i))

PostInvoiceWrite(q, i) ==
  /\ request[q] = Posting(i)
  /\ OutboxAccepts(<<"invoice", i>>)
  /\ invoice' = [invoice EXCEPT ![i] = [status |-> "POSTED", total |-> invoice[i].total,
                                        balance |-> invoice[i].total]]
  /\ PostJournal(<<"invoice", i>>, invoice[i].total, 0, 0, -invoice[i].total)
  /\ outbox' = outbox \cup {<<"invoice", i>>}
  /\ End(q)
  /\ UNCHANGED <<creditNote, payment, alloc, refund>>

\* A faulty variant of Voidable: any open invoice without credits is voidable.
VoidableIfOpen(i) ==
  /\ Collectable(i)
  /\ \A c \in CreditNotes : ~(creditNote[c].invoice = i /\ creditNote[c].status = "POSTED")

\* Only an invoice nobody has paid or credited may be voided.
Voidable(i) ==
  /\ invoice[i].status = "POSTED"
  /\ \A c \in CreditNotes : ~(creditNote[c].invoice = i /\ creditNote[c].status = "POSTED")

VoidInvoice(i) ==
  /\ MayStart
  /\ Voidable(i)
  /\ invoice' = [invoice EXCEPT ![i] = [status |-> "VOID", total |-> invoice[i].total,
                                        balance |-> 0]]
  /\ PostJournal(<<"void", i>>, -invoice[i].total, 0, 0, invoice[i].total)
  /\ UNCHANGED <<creditNote, payment, alloc, refund, outbox, request>>

(***************************************************************************)
(* Credit notes.                                                           *)
(***************************************************************************)

\* createCreditNote opens no transaction: the invoice may have changed when
\* the draft is inserted.
CreateCreditNoteRead(q, i, x) ==
  /\ Collectable(i)
  /\ x <= invoice[i].balance
  /\ Begin(q, Drafting(i, x))

CreateCreditNoteWrite(q, c, i, x) ==
  /\ request[q] = Drafting(i, x)
  /\ creditNote[c].status = "NONE"
  /\ creditNote' = [creditNote EXCEPT ![c] = [status |-> "DRAFT", invoice |-> i, total |-> x]]
  /\ End(q)
  /\ UNCHANGED <<invoice, payment, alloc, refund, ledger, posted, outbox>>

\* postCreditNote reads the note before it locks the invoice.
PostCreditNoteRead(q, c) ==
  /\ creditNote[c].status = "DRAFT"
  /\ Begin(q, Crediting(c))

PostCreditNoteWrite(q, c) ==
  LET i == creditNote[c].invoice
      newBalance == invoice[i].balance - creditNote[c].total
  IN  /\ request[q] = Crediting(c)
      /\ creditNote[c].total <= invoice[i].balance
      /\ creditNote' = [creditNote EXCEPT ![c].status = "POSTED"]
      /\ invoice' = [invoice EXCEPT ![i] = [status |-> ReducedStatus(newBalance),
                                            total |-> invoice[i].total, balance |-> newBalance]]
      /\ PostJournal(<<"credit", c>>, -creditNote[c].total, 0, 0, creditNote[c].total)
      /\ End(q)
      /\ UNCHANGED <<payment, alloc, refund, outbox>>

(***************************************************************************)
(* Payments and allocations.  A request's lines are a column a: amount     *)
(* a[i] for invoice i.                                                     *)
(***************************************************************************)

\* applyAllocationsInTx locks each invoice and checks its line.
AllocationAllowed(a, available) ==
  /\ Total(a, NumInvoices) <= available
  /\ \A i \in Invoices : a[i] > 0 => Collectable(i) /\ a[i] <= invoice[i].balance

ApplyAllocations(a) ==
  invoice' = [i \in Invoices |->
    IF a[i] = 0 THEN invoice[i]
    ELSE [status |-> ReducedStatus(invoice[i].balance - a[i]), total |-> invoice[i].total,
          balance |-> invoice[i].balance - a[i]]]

NoAllocation == [i \in Invoices |-> 0]
OnInvoice(i, x) == [j \in Invoices |-> IF j = i THEN x ELSE 0]

\* Record payment p of x as SETTLED, with its allocations and its journal.
Settle(p, x, a) ==
  /\ payment[p].status = "NONE"
  /\ AllocationAllowed(a, x)
  /\ payment' = [payment EXCEPT ![p] = [status |-> "SETTLED", amount |-> x,
                                        unallocated |-> x - Total(a, NumInvoices)]]
  /\ alloc' = [alloc EXCEPT ![p] = a]
  /\ ApplyAllocations(a)
  /\ PostJournal(<<"payment", p>>, -Total(a, NumInvoices), x, Total(a, NumInvoices) - x, 0)
  /\ outbox' = outbox \cup {<<"payment", p>>}
  /\ UNCHANGED <<creditNote, refund, request>>

\* recordManual appends PAYMENT_RECORDED and, when the request has lines, a
\* second event PAYMENT_ALLOCATED of the same payment.
RecordManual(p, x, a) ==
  /\ MayStart
  /\ OutboxAccepts(<<"payment", p>>)
  /\ a = NoAllocation \/ SequencedOutbox
  /\ Settle(p, x, a)

\* settleFromIntentInTx, called by the provider webhook: at most one line.
SettleFromIntent(p, x, a) ==
  /\ MayStart
  /\ a = NoAllocation \/ \E i \in Invoices : a = OnInvoice(i, x)
  /\ OutboxAccepts(<<"payment", p>>)
  /\ Settle(p, x, a)

\* allocate: unapplied cash of a settled payment goes to invoices.
Allocate(p, a) ==
  /\ MayStart
  /\ a # NoAllocation
  /\ PaymentUnlocked(p)
  /\ payment[p].status = "SETTLED"
  /\ AllocationAllowed(a, payment[p].unallocated)
  /\ OutboxAccepts(<<"payment", p>>)
  /\ payment' = [payment EXCEPT ![p].unallocated = @ - Total(a, NumInvoices)]
  /\ alloc' = [alloc EXCEPT ![p] = [i \in Invoices |-> alloc[p][i] + a[i]]]
  /\ ApplyAllocations(a)
  /\ PostFreshJournal(-Total(a, NumInvoices), 0, Total(a, NumInvoices))
  /\ outbox' = outbox \cup {<<"payment", p>>}
  /\ UNCHANGED <<creditNote, refund, request>>

(***************************************************************************)
(* Refunds: requested, approved and executed by three different users.     *)
(***************************************************************************)

\* Amounts of p's refunds in these statuses.
RefundColumn(p, statuses) ==
  [r \in Refunds |-> IF refund[r].payment = p /\ refund[r].status \in statuses
                     THEN refund[r].amount ELSE 0]
\* A faulty variant of RefundTotal: only refunds already executed count.
RefundTotalExecuted(p, statuses) == Total(RefundColumn(p, {"EXECUTED"}), NumRefunds)
RefundTotal(p, statuses) == Total(RefundColumn(p, statuses), NumRefunds)

RequestRefund(r, p, x, u) ==
  /\ MayStart
  /\ refund[r].status = "NONE"
  /\ PaymentUnlocked(p)
  /\ payment[p].status = "SETTLED"
  /\ RefundTotal(p, {"PENDING", "APPROVED", "EXECUTED"}) + x <= payment[p].amount
  /\ refund' = [refund EXCEPT ![r] = [status |-> "PENDING", payment |-> p, amount |-> x,
                                      requester |-> u, approver |-> None, executor |-> None]]
  /\ UNCHANGED <<invoice, creditNote, payment, alloc, ledger, posted, outbox, request>>

\* approveRefund reads the refund without a lock ...
ApproveRefundRead(q, r, u) ==
  /\ refund[r].status = "PENDING"
  /\ refund[r].requester # u
  /\ Begin(q, Approving(r, u))

\* ... and writes its decision whatever the status has become.
ApproveRefundWrite(q, r, u, decision) ==
  /\ request[q] = Approving(r, u)
  /\ refund' = [refund EXCEPT ![r].status = decision, ![r].approver = u]
  /\ End(q)
  /\ UNCHANGED <<invoice, creditNote, payment, alloc, ledger, posted, outbox>>

Least(x, y) == IF x <= y THEN x ELSE y

\* roundMoney(fromAr * amount / allocTotal), half up.
Share(fromAr, amount, allocTotal) ==
  IF allocTotal > 0 THEN (2 * fromAr * amount + allocTotal) \div (2 * allocTotal) ELSE 0

\* A faulty variant of Given: each row gives its share, whatever is left.
GivenUncapped(a, fromAr) ==
  [i \in Invoices |-> Least(Share(fromAr, a[i], Total(a, NumInvoices)), a[i])]

\* What the loop over live allocations a gives back to each invoice: the
\* share of each row, never more than the row nor than what is left.
Given(a, fromAr) ==
  LET allocTotal == Total(a, NumInvoices)
      wanted == [i \in Invoices |-> Least(Share(fromAr, a[i], allocTotal), a[i])]
      upTo(k) == Least(fromAr, Running(wanted, NumInvoices)[k])
  IN  [i \in Invoices |-> upTo(i) - upTo(i - 1)]

\* Faulty variants: the executor is compared with the requester only; the
\* allocations a refund consumed stay live.
MayExecuteIfNotRequester(r, u) == refund[r].status = "APPROVED" /\ u # refund[r].requester
AllocationsKept(p, given) == alloc[p]

MayExecute(r, u) ==
  /\ refund[r].status = "APPROVED"
  /\ refund[r].requester # refund[r].approver
  /\ u \notin {refund[r].requester, refund[r].approver}

\* Consumed allocation rows are split or marked reversed.
AllocationsAfterRefund(p, given) == [i \in Invoices |-> alloc[p][i] - given[i]]

\* executeRefund: unapplied cash first, the rest out of the allocations.
ExecuteRefund(r, u) ==
  LET p == refund[r].payment
      fromUnapplied == Least(payment[p].unallocated, refund[r].amount)
      fromAr == refund[r].amount - fromUnapplied
      given == Given(alloc[p], fromAr)
  IN  /\ MayStart
      /\ MayExecute(r, u)
      /\ PaymentUnlocked(p)
      /\ payment[p].status = "SETTLED"
      /\ payment' = [payment EXCEPT ![p].unallocated = @ - fromUnapplied]
      /\ alloc' = [alloc EXCEPT ![p] = AllocationsAfterRefund(p, given)]
      /\ invoice' = [i \in Invoices |->
           IF given[i] = 0 THEN invoice[i]
           ELSE [status |-> RestoredStatus(invoice[i].balance + given[i], invoice[i].total),
                 total |-> invoice[i].total, balance |-> invoice[i].balance + given[i]]]
      /\ PostJournal(<<"refund", r>>, fromAr, -refund[r].amount, fromUnapplied, 0)
      /\ refund' = [refund EXCEPT ![r].status = "EXECUTED", ![r].executor = u]
      /\ UNCHANGED <<creditNote, outbox, request>>

(***************************************************************************)
(* Payment reversal.  The payment is locked; its invoices are not.  The    *)
(* code reads and rewrites them one after the other; here all are read     *)
(* when the request begins and all are rewritten when it commits.          *)
(***************************************************************************)

\* A faulty variant of ReversedCash: the whole payment, refunds included.
ReversedCashWhole(p) == payment[p].amount
\* What a reversal takes out of cash: live allocations and unapplied money.
ReversedCash(p) == Total(alloc[p], NumInvoices) + payment[p].unallocated

ReversePaymentRead(q, p) ==
  /\ PaymentUnlocked(p)
  /\ payment[p].status = "SETTLED"
  /\ Begin(q, Reversing(p, [i \in Invoices |-> invoice[i].balance]))

ReversePaymentWrite(q, p) ==
  LET read == request[q].balance
      allocated == Total(alloc[p], NumInvoices)
  IN  /\ request[q].op = "reverse"
      /\ request[q].payment = p
      /\ OutboxAccepts(<<"payment", p>>)
      /\ invoice' = [i \in Invoices |->
           IF alloc[p][i] = 0 THEN invoice[i]
           ELSE [status |-> RestoredStatus(read[i] + alloc[p][i], invoice[i].total),
                 total |-> invoice[i].total, balance |-> read[i] + alloc[p][i]]]
      /\ alloc' = [alloc EXCEPT ![p] = NoAllocation]
      /\ PostFreshJournal(allocated, -ReversedCash(p), payment[p].unallocated)
      /\ payment' = [payment EXCEPT ![p].status = "REVERSED", ![p].unallocated = 0]
      /\ outbox' = outbox \cup {<<"payment", p>>}
      /\ End(q)
      /\ UNCHANGED <<creditNote, refund>>

(***************************************************************************)
(* The specification.  The invoices of a billing run start as drafts with  *)
(* any total; everything else is empty.                                    *)
(***************************************************************************)

Init ==
  /\ \E t \in [Invoices -> Amounts] :
       invoice = [i \in Invoices |-> [status |-> "DRAFT", total |-> t[i], balance |-> t[i]]]
  /\ creditNote = [c \in CreditNotes |-> [status |-> "NONE", invoice |-> 0, total |-> 0]]
  /\ payment = [p \in Payments |-> [status |-> "NONE", amount |-> 0, unallocated |-> 0]]
  /\ alloc = [p \in Payments |-> [i \in Invoices |-> 0]]
  /\ refund = [r \in Refunds |-> [status |-> "NONE", payment |-> 0, amount |-> 0,
                                  requester |-> None, approver |-> None, executor |-> None]]
  /\ ledger = [ar |-> 0, cash |-> 0, unapplied |-> 0, revenue |-> 0]
  /\ posted = {}
  /\ outbox = {}
  /\ request = [q \in Requests |-> Idle]

InvoiceNext ==
  \E i \in Invoices :
    \/ VoidInvoice(i)
    \/ \E q \in Requests : PostInvoiceRead(q, i) \/ PostInvoiceWrite(q, i)

CreditNoteNext ==
  \E q \in Requests :
    \/ \E i \in Invoices, x \in Amounts :
         \/ CreateCreditNoteRead(q, i, x)
         \/ \E c \in CreditNotes : CreateCreditNoteWrite(q, c, i, x)
    \/ \E c \in CreditNotes : PostCreditNoteRead(q, c) \/ PostCreditNoteWrite(q, c)

PaymentNext ==
  \E p \in Payments :
    \/ \E x \in Amounts, a \in [Invoices -> 0..MaxAmount] :
         RecordManual(p, x, a) \/ SettleFromIntent(p, x, a)
    \/ \E a \in [Invoices -> 0..MaxAmount] : Allocate(p, a)
    \/ \E q \in Requests : ReversePaymentRead(q, p) \/ ReversePaymentWrite(q, p)

RefundNext ==
  \E r \in Refunds, u \in Users :
    \/ \E p \in Payments, x \in Amounts : RequestRefund(r, p, x, u)
    \/ \E q \in Requests :
         \/ ApproveRefundRead(q, r, u)
         \/ \E decision \in {"APPROVED", "REJECTED"} : ApproveRefundWrite(q, r, u, decision)
    \/ ExecuteRefund(r, u)

Next ==
  \/ InvoiceNext
  \/ CreditNoteNext
  \/ PaymentNext
  \/ RefundNext
  \/ \E q \in Requests : RollBack(q)

Spec == Init /\ [][Next]_vars

(***************************************************************************)
(* Properties.                                                             *)
(***************************************************************************)

RequestStates ==
  {Idle} \cup [op : {"post"}, invoice : Invoices] \cup [op : {"credit"}, creditNote : CreditNotes]
  \cup [op : {"draft"}, invoice : Invoices, total : Amounts]
  \cup [op : {"approve"}, refund : Refunds, user : Users]
  \cup [op : {"reverse"}, payment : Payments, balance : [Invoices -> Int]]

\* Every table holds rows of its schema, and an open request is one of the
\* five that read before they lock.
TypeOK ==
  /\ invoice \in [Invoices -> InvoiceRow]
  /\ creditNote \in [CreditNotes -> CreditNoteRow]
  /\ payment \in [Payments -> PaymentRow]
  /\ alloc \in [Payments -> [Invoices -> Int]]
  /\ refund \in [Refunds -> RefundRow]
  /\ ledger \in [ar : Int, cash : Int, unapplied : Int, revenue : Int]
  /\ posted \subseteq {"invoice", "void", "credit", "payment", "refund"} \X Nat
  /\ outbox \subseteq {"invoice", "payment"} \X Nat
  /\ request \in [Requests -> RequestStates]

Collected(i) == Total([p \in Payments |-> alloc[p][i]], NumPayments)
Credited(i)  == Total([c \in CreditNotes |->
                         IF creditNote[c].invoice = i /\ creditNote[c].status = "POSTED"
                         THEN creditNote[c].total ELSE 0], NumCreditNotes)
\* Refunds of p whose journal is in the ledger, whatever their status says.
Refunded(p)  == Total([r \in Refunds |-> IF refund[r].payment = p /\ <<"refund", r>> \in posted
                                         THEN refund[r].amount ELSE 0], NumRefunds)

\* The unapplied-cash account of the ledger is the unallocated money of the
\* payments: the two are written by different services (LedgerService, and
\* PaymentService, RefundService, PaymentReversalService) in every handler.
UnappliedAgrees ==
  -ledger.unapplied = Total([p \in Payments |-> payment[p].unallocated], NumPayments)

\* The receivables control account is the sum of the open balances of the
\* invoices that were posted.
ReceivablesAgree ==
  ledger.ar = Total([i \in Invoices |-> IF invoice[i].status = "DRAFT" THEN 0
                                        ELSE invoice[i].balance], NumInvoices)

\* Cash in the ledger is what payments brought in less what refunds paid
\* out; a reversal takes out exactly what is left of its payment.
CashAgrees ==
  ledger.cash = Total([p \in Payments |-> IF payment[p].status = "SETTLED"
                                          THEN payment[p].amount - Refunded(p) ELSE 0], NumPayments)

\* A settled payment is fully accounted for: unallocated, allocated to an
\* invoice or refunded, no part of it twice.
PaymentConserved ==
  \A p \in Payments : payment[p].status = "SETTLED" =>
    payment[p].amount = payment[p].unallocated + Total(alloc[p], NumInvoices) + Refunded(p)

\* The control accounts of the ledger and the rows of the payments say the same,
\* after any mix of payments, credit notes, voids, refunds and reversals.
LedgerAgrees == ReceivablesAgree /\ CashAgrees /\ PaymentConserved

\* The balance of a posted invoice is its total less what live allocations
\* and posted credit notes took off it; a void invoice has neither.
InvoiceConserved ==
  \A i \in Invoices :
    /\ Collectable(i) \/ invoice[i].status = "PAID" =>
         invoice[i].total = invoice[i].balance + Collected(i) + Credited(i)
    /\ invoice[i].status = "VOID" => Collected(i) = 0 /\ Credited(i) = 0

\* The status column, by which handlers decide what may be paid, credited or
\* voided, always agrees with the balance, over any sequence of operations.
StatusMatchesBalance ==
  \A i \in Invoices :
    /\ 0 <= invoice[i].balance /\ invoice[i].balance <= invoice[i].total
    /\ invoice[i].status = "PAID" => invoice[i].balance = 0
    /\ invoice[i].status = "PARTIALLY_PAID" => invoice[i].balance \in 1..(invoice[i].total - 1)
    /\ invoice[i].status = "POSTED" => invoice[i].balance = invoice[i].total

\* Money refunded out of a payment never exceeds it
\* (docs/03-database-design.md, cumulative refunds).
RefundsWithinPayment ==
  \A p \in Payments : Refunded(p) <= payment[p].amount

\* A refund in the ledger is on record as executed, by a user who neither
\* requested nor approved it, and approved by one who did not request it.
RefundsUnderDualControl ==
  \A r \in Refunds : <<"refund", r>> \in posted =>
    /\ refund[r].status = "EXECUTED"
    /\ refund[r].executor \notin {refund[r].requester, refund[r].approver}
    /\ refund[r].requester # refund[r].approver

\* No later refund, reversal, credit note or allocation brings a void
\* invoice back.
VoidIsFinal ==
  [][\A i \in Invoices : invoice[i].status = "VOID" => invoice'[i] = invoice[i]]_vars

=============================================================================
