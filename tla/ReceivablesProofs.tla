------------------------- MODULE ReceivablesProofs -------------------------
(***************************************************************************)
(* Theorems about Receivables, for tables of any size, any number of users *)
(* and of open requests, and, unless a theorem says otherwise, whatever    *)
(* Serial and SequencedOutbox are.                                         *)
(***************************************************************************)
EXTENDS Receivables, TotalsProofs

(***************************************************************************)
(* Types.                                                                  *)
(***************************************************************************)

\* References between tables: a refund has a payment, a credit note an
\* invoice, and an open request works on a row that exists.
Linked ==
  /\ \A r \in Refunds : refund[r].status # "NONE" => refund[r].payment \in Payments
  /\ \A c \in CreditNotes : creditNote[c].status # "NONE" => creditNote[c].invoice \in Invoices
  /\ \A q \in Requests : request[q].op = "approve" => refund[request[q].refund].status # "NONE"
  /\ \A q \in Requests :
       request[q].op = "credit" => creditNote[request[q].creditNote].status # "NONE"

Typed == TypeOK /\ Linked

LEMMA ShareType ==
  ASSUME NEW x \in Int, NEW y \in Int, NEW t \in Int
  PROVE  Share(x, y, t) \in Int
<1>1. CASE t > 0
  <2>1. 2 * t \in Int /\ 2 * t > 0 /\ 2 * x * y + t \in Int
    BY <1>1
  <2>. QED BY <1>1, <2>1 DEF Share
<1>2. CASE ~(t > 0)
  BY <1>2 DEF Share
<1>. QED BY <1>1, <1>2

\* What a refund gives back to each invoice is an amount.
LEMMA GivenType ==
  ASSUME NEW a \in [Invoices -> Int], NEW x \in Int
  PROVE  Given(a, x) \in [Invoices -> Int]
<1>. DEFINE t == Total(a, NumInvoices)
            w == [i \in Invoices |-> Least(Share(x, a[i], t), a[i])]
<1>1. NumInvoices \in Nat /\ Invoices = 1..NumInvoices
  BY SizesAssumption DEF Invoices
<1>2. t \in Int
  BY <1>1, TotalType
<1>3. \A i \in Invoices : Share(x, a[i], t) \in Int
  <2>. HIDE DEF t
  <2>. QED BY <1>2, ShareType
<1>4. w \in [1..NumInvoices -> Int]
  BY <1>1, <1>3 DEF Least
<1>5. Running(w, NumInvoices) \in [0..NumInvoices -> Int]
  <2>. HIDE DEF w
  <2>. QED BY <1>1, <1>4, RunningDef
<1>6. ASSUME NEW i \in Invoices PROVE Given(a, x)[i] \in Int
  <2>1. i \in 0..NumInvoices /\ i - 1 \in 0..NumInvoices
    BY <1>1
  <2>2. Running(w, NumInvoices)[i] \in Int /\ Running(w, NumInvoices)[i-1] \in Int
    BY <1>5, <2>1
  <2>3. Given(a, x)[i] = Least(x, Running(w, NumInvoices)[i]) - Least(x, Running(w, NumInvoices)[i-1])
    BY DEF Given
  <2>. QED
    <3>. HIDE DEF w
    <3>. QED BY <2>2, <2>3 DEF Least
<1>. QED BY <1>6 DEF Given

\* The sums the handlers form are integers.
LEMMA SumTypes ==
  ASSUME TypeOK
  PROVE  /\ \A p \in Payments : Total(alloc[p], NumInvoices) \in Int
         /\ \A p \in Payments : ReversedCash(p) \in Int
         /\ \A a \in [Invoices -> 0..MaxAmount] : Total(a, NumInvoices) \in Int
<1>1. NumInvoices \in Nat /\ Invoices = 1..NumInvoices /\ MaxAmount \in Nat
  BY SizesAssumption DEF Invoices
<1>2. ASSUME NEW a \in [Invoices -> Int] PROVE Total(a, NumInvoices) \in Int
  BY <1>1, <1>2, TotalType
<1>3. ASSUME NEW p \in Payments
      PROVE  Total(alloc[p], NumInvoices) \in Int /\ payment[p].unallocated \in Int
  BY <1>2 DEF TypeOK, PaymentRow
<1>4. \A a \in [Invoices -> 0..MaxAmount] : a \in [Invoices -> Int]
  BY <1>1
<1>. QED BY <1>2, <1>3, <1>4 DEF ReversedCash

\* Updates of one row that keep its schema.
LEMMA PaymentRowUpdate ==
  ASSUME NEW row \in PaymentRow, NEW x \in Int
  PROVE  /\ [row EXCEPT !.unallocated = x] \in PaymentRow
         /\ [row EXCEPT !.status = "REVERSED", !.unallocated = x] \in PaymentRow
<1>1. [row EXCEPT !.unallocated = x] \in PaymentRow
  BY DEF PaymentRow
<1>2. [row EXCEPT !.status = "REVERSED"] \in PaymentRow
  BY DEF PaymentRow
<1>3. \A r \in PaymentRow : [r EXCEPT !.unallocated = x] \in PaymentRow
  BY DEF PaymentRow
<1>. QED BY <1>1, <1>2, <1>3

LEMMA RefundRowDecision ==
  ASSUME NEW row \in RefundRow, NEW d \in {"APPROVED", "REJECTED"}, NEW u \in Users
  PROVE  [row EXCEPT !.status = d, !.approver = u] \in RefundRow
<1>1. [row EXCEPT !.status = d] \in RefundRow
  BY DEF RefundRow
<1>2. \A r \in RefundRow : [r EXCEPT !.approver = u] \in RefundRow
  BY DEF RefundRow
<1>. QED BY <1>1, <1>2

LEMMA TypedInit == Init => Typed
<1>. SUFFICES ASSUME Init PROVE Typed
  OBVIOUS
<1>1. Amounts \subseteq Nat
  BY DEF Amounts
<1>2. invoice \in [Invoices -> InvoiceRow]
  <2>1. PICK t \in [Invoices -> Amounts] :
          invoice = [i \in Invoices |-> [status |-> "DRAFT", total |-> t[i], balance |-> t[i]]]
    BY DEF Init
  <2>2. \A i \in Invoices : t[i] \in Nat
    BY <1>1, <2>1
  <2>. QED BY <2>1, <2>2 DEF InvoiceRow
<1>3. creditNote \in [CreditNotes -> CreditNoteRow] /\ payment \in [Payments -> PaymentRow]
  BY DEF Init, CreditNoteRow, PaymentRow
<1>4. refund \in [Refunds -> RefundRow]
  BY DEF Init, RefundRow
<1>5. alloc \in [Payments -> [Invoices -> Int]]
  BY DEF Init
<1>6. request \in [Requests -> RequestStates]
  BY DEF Init, RequestStates
<1>7. Linked
  BY DEF Init, Linked, Idle
<1>8. /\ ledger \in [ar : Int, cash : Int, unapplied : Int, revenue : Int]
      /\ posted = {} /\ outbox = {}
  BY DEF Init
<1>. QED BY <1>2, <1>3, <1>4, <1>5, <1>6, <1>7, <1>8 DEF TypeOK, Typed

\* Every step keeps every table typed and every reference sound.
LEMMA TypedStep == Typed /\ [Next]_vars => Typed'
<1>. SUFFICES ASSUME Typed, [Next]_vars PROVE Typed'
  OBVIOUS
<1>. USE DEF Typed
<1>a. /\ Invoices \subseteq Nat /\ CreditNotes \subseteq Nat /\ Payments \subseteq Nat
      /\ Refunds \subseteq Nat /\ Amounts \subseteq Nat /\ 0..MaxAmount \subseteq Nat
      /\ MaxAmount \in Nat
  BY SizesAssumption DEF Invoices, CreditNotes, Payments, Refunds, Amounts
<1>b. /\ \A p \in Payments : Total(alloc[p], NumInvoices) \in Int
      /\ \A p \in Payments : ReversedCash(p) \in Int
      /\ \A a \in [Invoices -> 0..MaxAmount] : Total(a, NumInvoices) \in Int
  BY SumTypes
<1>1. ASSUME NEW i \in Invoices, VoidInvoice(i) PROVE Typed'
  <2>1. invoice' \in [Invoices -> InvoiceRow]
    BY <1>1 DEF VoidInvoice, TypeOK, InvoiceRow
  <2>2. invoice[i].total \in Int /\ <<"void", i>> \in {"void"} \X Nat
    BY <1>a DEF TypeOK, InvoiceRow
  <2>3. /\ ledger' \in [ar : Int, cash : Int, unapplied : Int, revenue : Int]
        /\ posted' \subseteq {"invoice", "void", "credit", "payment", "refund"} \X Nat
    BY <1>1, <2>2 DEF VoidInvoice, PostJournal, LedgerPlus, TypeOK
  <2>. QED BY <1>1, <2>1, <2>3 DEF VoidInvoice, TypeOK, Linked
<1>2. ASSUME NEW i \in Invoices, NEW q \in Requests, PostInvoiceRead(q, i) PROVE Typed'
  BY <1>2, <1>a DEF PostInvoiceRead, Begin, Posting, TypeOK, Linked, RequestStates
<1>3. ASSUME NEW i \in Invoices, NEW q \in Requests, PostInvoiceWrite(q, i) PROVE Typed'
  BY <1>3, <1>a DEF PostInvoiceWrite, PostJournal, LedgerPlus, End, Idle, TypeOK, Linked,
     RequestStates, InvoiceRow
<1>4. ASSUME NEW q \in Requests, NEW c \in CreditNotes, NEW i \in Invoices, NEW x \in Amounts,
             CreateCreditNoteWrite(q, c, i, x)
      PROVE  Typed'
  <2>1. [status |-> "DRAFT", invoice |-> i, total |-> x] \in CreditNoteRow
    BY <1>a DEF CreditNoteRow
  <2>2. creditNote' = [creditNote EXCEPT ![c] = [status |-> "DRAFT", invoice |-> i, total |-> x]]
    BY <1>4 DEF CreateCreditNoteWrite
  <2>3. creditNote' \in [CreditNotes -> CreditNoteRow]
    BY <2>1, <2>2 DEF TypeOK
  <2>4. request' \in [Requests -> RequestStates]
    BY <1>4 DEF CreateCreditNoteWrite, End, TypeOK, RequestStates
  <2>5. \A d \in CreditNotes :
          /\ creditNote[d].status # "NONE" => creditNote'[d].status # "NONE"
          /\ creditNote'[d].status # "NONE" => creditNote'[d].invoice \in Invoices
    BY <2>2 DEF TypeOK, Linked
  <2>6. \A q2 \in Requests : request'[q2].op = "credit" => request'[q2] = request[q2]
    BY <1>4 DEF CreateCreditNoteWrite, End, Idle, TypeOK
  <2>7. \A q2 \in Requests : request'[q2].op = "approve" => request'[q2] = request[q2]
    BY <1>4 DEF CreateCreditNoteWrite, End, Idle, TypeOK
  <2>8. \A q2 \in Requests : request[q2].op = "credit" => request[q2].creditNote \in CreditNotes
    BY DEF TypeOK, RequestStates, Idle
  <2>9. Linked'
    BY <1>4, <2>5, <2>6, <2>7, <2>8 DEF CreateCreditNoteWrite, Linked
  <2>. QED BY <1>4, <2>3, <2>4, <2>9 DEF CreateCreditNoteWrite, TypeOK
<1>4r. ASSUME NEW q \in Requests, NEW i \in Invoices, NEW x \in Amounts,
             CreateCreditNoteRead(q, i, x)
      PROVE  Typed'
  BY <1>4r, <1>a DEF CreateCreditNoteRead, Begin, Drafting, TypeOK, Linked, RequestStates
<1>5. ASSUME NEW c \in CreditNotes, NEW q \in Requests, PostCreditNoteRead(q, c) PROVE Typed'
  BY <1>5, <1>a DEF PostCreditNoteRead, Begin, Crediting, TypeOK, Linked, RequestStates
<1>6. ASSUME NEW c \in CreditNotes, NEW q \in Requests, PostCreditNoteWrite(q, c) PROVE Typed'
  BY <1>6, <1>a DEF PostCreditNoteWrite, PostJournal, LedgerPlus, End, Idle, Crediting,
     ReducedStatus,
                    TypeOK, Linked, RequestStates, InvoiceRow, CreditNoteRow
<1>7. ASSUME NEW p \in Payments, NEW x \in Amounts, NEW a \in [Invoices -> 0..MaxAmount],
             Settle(p, x, a)
      PROVE  Typed'
  BY <1>7, <1>a, <1>b DEF Settle, ApplyAllocations, ReducedStatus, PostJournal, LedgerPlus,
                          TypeOK, Linked, InvoiceRow, PaymentRow
<1>8. ASSUME NEW p \in Payments, NEW a \in [Invoices -> 0..MaxAmount], Allocate(p, a)
      PROVE  Typed'
  <2>1. \A i \in Invoices : a[i] \in Int
    BY <1>a
  <2>2. invoice' \in [Invoices -> InvoiceRow]
    BY <1>8, <2>1 DEF Allocate, ApplyAllocations, ReducedStatus, TypeOK, InvoiceRow
  <2>3. alloc' \in [Payments -> [Invoices -> Int]]
    BY <1>8, <2>1 DEF Allocate, TypeOK
  <2>4. payment' \in [Payments -> PaymentRow]
    BY <1>8, <1>b DEF Allocate, TypeOK, PaymentRow
  <2>5. ledger' \in [ar : Int, cash : Int, unapplied : Int, revenue : Int] /\ posted' = posted
    BY <1>8, <1>b DEF Allocate, PostFreshJournal, LedgerPlus, TypeOK
  <2>6. outbox' \subseteq {"invoice", "payment"} \X Nat
    BY <1>8, <1>a DEF Allocate, TypeOK
  <2>. QED BY <1>8, <2>2, <2>3, <2>4, <2>5, <2>6 DEF Allocate, TypeOK, Linked
<1>9. ASSUME NEW p \in Payments, NEW q \in Requests, ReversePaymentRead(q, p) PROVE Typed'
  BY <1>9, <1>a DEF ReversePaymentRead, Begin, Reversing, TypeOK, Linked, RequestStates, InvoiceRow
<1>10. ASSUME NEW p \in Payments, NEW q \in Requests, ReversePaymentWrite(q, p) PROVE Typed'
  <2>1. request[q].balance \in [Invoices -> Int]
    BY <1>10 DEF ReversePaymentWrite, Idle, TypeOK, RequestStates
  <2>2. \A i \in Invoices : alloc[p][i] \in Int /\ request[q].balance[i] + alloc[p][i] \in Int
    BY <2>1 DEF TypeOK
  <2>3. invoice' \in [Invoices -> InvoiceRow]
    BY <1>10, <2>2 DEF ReversePaymentWrite, RestoredStatus, TypeOK, InvoiceRow
  <2>4. alloc' \in [Payments -> [Invoices -> Int]]
    BY <1>10 DEF ReversePaymentWrite, NoAllocation, TypeOK
  <2>10. [payment[p] EXCEPT !.status = "REVERSED", !.unallocated = 0] \in PaymentRow
    <3>1. payment[p] \in PaymentRow /\ 0 \in Int
      BY DEF TypeOK
    <3>. QED BY <3>1, PaymentRowUpdate
  <2>11. payment' = [payment EXCEPT ![p] = [payment[p] EXCEPT !.status = "REVERSED", !.unallocated = 0]]
    BY <1>10 DEF ReversePaymentWrite, TypeOK
  <2>12. payment' \in [Payments -> PaymentRow]
    BY <2>10, <2>11 DEF TypeOK
  <2>5. ledger' \in [ar : Int, cash : Int, unapplied : Int, revenue : Int] /\ posted' = posted
    BY <1>10, <1>b DEF ReversePaymentWrite, PostFreshJournal, LedgerPlus, TypeOK, PaymentRow
  <2>6. outbox' \subseteq {"invoice", "payment"} \X Nat
    BY <1>10, <1>a DEF ReversePaymentWrite, TypeOK
  <2>7. request' \in [Requests -> RequestStates]
    BY <1>10 DEF ReversePaymentWrite, End, TypeOK, RequestStates
  <2>8. UNCHANGED <<creditNote, refund>> /\ request' = [request EXCEPT ![q] = Idle]
    BY <1>10 DEF ReversePaymentWrite, End
  <2>9. Linked'
    BY <2>8 DEF TypeOK, Linked, Idle
  <2>. QED BY <2>3, <2>4, <2>5, <2>6, <2>7, <2>8, <2>9, <2>12 DEF TypeOK
<1>11. ASSUME NEW r \in Refunds, NEW u \in Users, NEW p \in Payments, NEW x \in Amounts,
              RequestRefund(r, p, x, u)
       PROVE  Typed'
  BY <1>11, <1>a DEF RequestRefund, TypeOK, Linked, RefundRow
<1>12. ASSUME NEW r \in Refunds, NEW u \in Users, NEW q \in Requests, ApproveRefundRead(q, r, u)
       PROVE  Typed'
  BY <1>12, <1>a DEF ApproveRefundRead, Begin, Approving, TypeOK, Linked, RequestStates
<1>13. ASSUME NEW r \in Refunds, NEW u \in Users, NEW q \in Requests,
              NEW d \in {"APPROVED", "REJECTED"}, ApproveRefundWrite(q, r, u, d)
       PROVE  Typed'
  <2>1. refund' = [refund EXCEPT ![r] = [refund[r] EXCEPT !.status = d, !.approver = u]]
    BY <1>13 DEF ApproveRefundWrite, TypeOK
  <2>9. [refund[r] EXCEPT !.status = d, !.approver = u] \in RefundRow
    BY RefundRowDecision DEF TypeOK
  <2>2. refund' \in [Refunds -> RefundRow]
    BY <2>1, <2>9 DEF TypeOK
  <2>3. request' = [request EXCEPT ![q] = Idle] /\ request' \in [Requests -> RequestStates]
    BY <1>13 DEF ApproveRefundWrite, End, TypeOK, RequestStates
  <2>4. refund[r].status # "NONE"
    BY <1>13 DEF ApproveRefundWrite, Approving, Linked
  <2>5. UNCHANGED <<invoice, creditNote, payment, alloc, ledger, posted, outbox>>
    BY <1>13 DEF ApproveRefundWrite
  <2>6. \A r2 \in Refunds : /\ refund'[r2].payment = refund[r2].payment
                            /\ refund'[r2].status = "NONE" <=> refund[r2].status = "NONE"
    BY <2>1, <2>4 DEF TypeOK, RefundRow
  <2>7. \A q2 \in Requests :
          request'[q2].op = "approve" => request'[q2] = request[q2] /\ request[q2].refund \in Refunds
    BY <2>3 DEF TypeOK, RequestStates, Idle
  <2>8. Linked'
    BY <2>3, <2>5, <2>6, <2>7 DEF TypeOK, Linked, Idle
  <2>. QED BY <2>2, <2>3, <2>5, <2>8 DEF TypeOK
<1>14. ASSUME NEW r \in Refunds, NEW u \in Users, ExecuteRefund(r, u) PROVE Typed'
  <2>. DEFINE p == refund[r].payment
              fromUnapplied == Least(payment[p].unallocated, refund[r].amount)
              fromAr == refund[r].amount - fromUnapplied
              given == Given(alloc[p], fromAr)
  <2>1. p \in Payments
    BY <1>14 DEF ExecuteRefund, MayExecute, TypeOK, Linked
  <2>2. fromUnapplied \in Int /\ fromAr \in Int /\ alloc[p] \in [Invoices -> Int]
    BY <2>1 DEF TypeOK, PaymentRow, RefundRow, Least
  <2>3. given \in [Invoices -> Int]
    <3>. HIDE DEF fromAr
    <3>. QED BY <2>2, GivenType
  <2>4. /\ invoice' = [i \in Invoices |->
              IF given[i] = 0 THEN invoice[i]
              ELSE [status |-> RestoredStatus(invoice[i].balance + given[i], invoice[i].total),
                    total |-> invoice[i].total, balance |-> invoice[i].balance + given[i]]]
        /\ alloc' = [alloc EXCEPT ![p] = [i \in Invoices |-> alloc[p][i] - given[i]]]
        /\ payment' = [payment EXCEPT ![p].unallocated = @ - fromUnapplied]
        /\ PostJournal(<<"refund", r>>, fromAr, -refund[r].amount, fromUnapplied, 0)
        /\ refund' = [refund EXCEPT ![r].status = "EXECUTED", ![r].executor = u]
        /\ UNCHANGED <<creditNote, outbox, request>>
        /\ refund[r].status # "NONE"
    BY <1>14 DEF ExecuteRefund, AllocationsAfterRefund, MayExecute
  <2>. HIDE DEF p, fromUnapplied, fromAr, given
  <2>5. invoice' \in [Invoices -> InvoiceRow]
    BY <2>3, <2>4 DEF RestoredStatus, TypeOK, InvoiceRow
  <2>6. alloc' \in [Payments -> [Invoices -> Int]]
    BY <2>1, <2>2, <2>3, <2>4 DEF TypeOK
  <2>18. payment[p] \in PaymentRow /\ payment[p].unallocated - fromUnapplied \in Int
    BY <2>1, <2>2 DEF TypeOK, PaymentRow
  <2>15. [payment[p] EXCEPT !.unallocated = payment[p].unallocated - fromUnapplied] \in PaymentRow
    BY <2>18, PaymentRowUpdate
  <2>16. payment' = [payment EXCEPT ![p] =
                       [payment[p] EXCEPT !.unallocated = payment[p].unallocated - fromUnapplied]]
    BY <2>1, <2>4 DEF TypeOK
  <2>17. payment' \in [Payments -> PaymentRow]
    BY <2>15, <2>16 DEF TypeOK
  <2>7. refund[r].amount \in Int /\ <<"refund", r>> \in {"refund"} \X Nat
    BY <1>a DEF TypeOK, RefundRow
  <2>8. /\ ledger' \in [ar : Int, cash : Int, unapplied : Int, revenue : Int]
        /\ posted' \subseteq {"invoice", "void", "credit", "payment", "refund"} \X Nat
    BY <2>2, <2>4, <2>7 DEF PostJournal, LedgerPlus, TypeOK
  <2>9. refund' = [refund EXCEPT ![r] = [refund[r] EXCEPT !.status = "EXECUTED", !.executor = u]]
    BY <2>4 DEF TypeOK
  <2>14. [refund[r] EXCEPT !.status = "EXECUTED", !.executor = u] \in RefundRow
    BY DEF TypeOK, RefundRow
  <2>10. refund' \in [Refunds -> RefundRow]
    BY <2>9, <2>14 DEF TypeOK
  <2>11. \A r2 \in Refunds : /\ refund'[r2].payment = refund[r2].payment
                             /\ refund'[r2].status = "NONE" <=> refund[r2].status = "NONE"
    BY <2>4, <2>9 DEF TypeOK, RefundRow
  <2>12. \A q \in Requests : request[q].op = "approve" => request[q].refund \in Refunds
    BY DEF TypeOK, RequestStates, Idle
  <2>13. Linked'
    BY <2>4, <2>11, <2>12 DEF TypeOK, Linked
  <2>. QED BY <2>4, <2>5, <2>6, <2>8, <2>10, <2>13, <2>17 DEF TypeOK
<1>15. ASSUME NEW q \in Requests, RollBack(q) PROVE Typed'
  BY <1>15, <1>a DEF RollBack, End, Idle, TypeOK, Linked, RequestStates
<1>16. CASE UNCHANGED vars
  BY <1>16 DEF vars, TypeOK, Linked
<1>17. CASE Next
  BY <1>17, <1>1, <1>2, <1>3, <1>4, <1>4r, <1>5, <1>6, <1>7, <1>8, <1>9, <1>10, <1>11, <1>12, <1>13,
     <1>14, <1>15 DEF Next, InvoiceNext, CreditNoteNext, PaymentNext, RefundNext,
     RecordManual, SettleFromIntent
<1>. QED BY <1>16, <1>17

\* Every table holds rows of its schema, in every reachable state.
THEOREM TypeCorrect == Spec => []TypeOK
<1>1. Typed => TypeOK
  BY DEF Typed
<1>. QED BY <1>1, TypedInit, TypedStep, PTL DEF Spec

(***************************************************************************)
(* The unapplied-cash account.                                             *)
(***************************************************************************)

\* A payment not yet recorded has no money.
Fresh == \A p \in Payments : payment[p].status = "NONE" => payment[p].unallocated = 0

\* If one payment's unallocated money changes by d and the account by -d,
\* they still agree.
LEMMA UnappliedOneRow ==
  ASSUME TypeOK, TypeOK', UnappliedAgrees, NEW p \in Payments, NEW d \in Int,
         payment'[p].unallocated = payment[p].unallocated + d,
         \A k \in Payments \ {p} : payment'[k].unallocated = payment[k].unallocated,
         ledger'.unapplied = ledger.unapplied - d
  PROVE  UnappliedAgrees'
<1>. DEFINE f == [k \in Payments |-> payment[k].unallocated]
            h == [k \in Payments |-> payment'[k].unallocated]
<1>1. NumPayments \in Nat /\ Payments = 1..NumPayments
  BY SizesAssumption DEF Payments
<1>2. f \in [1..NumPayments -> Int] /\ h \in [1..NumPayments -> Int]
  BY <1>1 DEF TypeOK, PaymentRow
<1>3. h[p] = f[p] + d /\ \A k \in 1..NumPayments \ {p} : h[k] = f[k]
  BY <1>1
<1>4. Total(h, NumPayments) = Total(f, NumPayments) + d
  <2>. HIDE DEF f, h
  <2>. QED BY <1>1, <1>2, <1>3, TotalOneRow
<1>5. Total(f, NumPayments) \in Int
  <2>. HIDE DEF f, h
  <2>. QED BY <1>1, <1>2, TotalType
<1>6. -ledger.unapplied = Total(f, NumPayments) /\ ledger.unapplied \in Int
  BY DEF UnappliedAgrees, TypeOK
<1>7. -ledger'.unapplied = Total(h, NumPayments)
  <2>. HIDE DEF f, h
  <2>. QED BY <1>4, <1>5, <1>6
<1>. QED BY <1>7 DEF UnappliedAgrees

UnappliedInv == Typed /\ Fresh /\ UnappliedAgrees

LEMMA UnappliedInit == Init => UnappliedInv
<1>. SUFFICES ASSUME Init PROVE Fresh /\ UnappliedAgrees
  BY TypedInit DEF UnappliedInv
<1>1. [p \in Payments |-> payment[p].unallocated] = [k \in 1..NumPayments |-> 0]
  BY DEF Init, Payments
<1>2. NumPayments \in Nat /\ ledger.unapplied = 0
  BY SizesAssumption DEF Init
<1>3. Fresh
  BY DEF Init, Fresh
<1>4. UnappliedAgrees
  BY <1>1, <1>2, TotalZero DEF UnappliedAgrees
<1>. QED BY <1>3, <1>4

LEMMA UnappliedStep == UnappliedInv /\ [Next]_vars => UnappliedInv'
<1>. SUFFICES ASSUME UnappliedInv, [Next]_vars PROVE UnappliedInv'
  OBVIOUS
<1>a. Typed /\ Typed' /\ TypeOK /\ TypeOK' /\ UnappliedAgrees /\ Fresh
  BY TypedStep DEF UnappliedInv, Typed
<1>b. /\ \A p \in Payments : Total(alloc[p], NumInvoices) \in Int
      /\ \A a \in [Invoices -> 0..MaxAmount] : Total(a, NumInvoices) \in Int
  BY <1>a, SumTypes
<1>c. ledger.unapplied \in Int /\ Amounts \subseteq Int
  BY <1>a DEF TypeOK, Amounts
<1>1. ASSUME payment' = payment, ledger'.unapplied = ledger.unapplied PROVE UnappliedInv'
  BY <1>1, <1>a DEF UnappliedInv, Fresh, UnappliedAgrees
<1>2. ASSUME NEW i \in Invoices, VoidInvoice(i) PROVE UnappliedInv'
  BY <1>1, <1>2, <1>c DEF VoidInvoice, PostJournal, LedgerPlus
<1>3. ASSUME NEW i \in Invoices, NEW q \in Requests, PostInvoiceRead(q, i) PROVE UnappliedInv'
  BY <1>1, <1>3 DEF PostInvoiceRead, Begin
<1>4. ASSUME NEW i \in Invoices, NEW q \in Requests, PostInvoiceWrite(q, i) PROVE UnappliedInv'
  BY <1>1, <1>4, <1>c DEF PostInvoiceWrite, PostJournal, LedgerPlus
<1>5. ASSUME NEW q \in Requests, NEW c \in CreditNotes, NEW i \in Invoices, NEW x \in Amounts,
             CreateCreditNoteWrite(q, c, i, x)
      PROVE  UnappliedInv'
  BY <1>1, <1>5 DEF CreateCreditNoteWrite
<1>5r. ASSUME NEW q \in Requests, NEW i \in Invoices, NEW x \in Amounts,
             CreateCreditNoteRead(q, i, x)
      PROVE  UnappliedInv'
  BY <1>1, <1>5r DEF CreateCreditNoteRead, Begin
<1>6. ASSUME NEW c \in CreditNotes, NEW q \in Requests, PostCreditNoteRead(q, c)
      PROVE  UnappliedInv'
  BY <1>1, <1>6 DEF PostCreditNoteRead, Begin
<1>7. ASSUME NEW c \in CreditNotes, NEW q \in Requests, PostCreditNoteWrite(q, c)
      PROVE  UnappliedInv'
  BY <1>1, <1>7, <1>c DEF PostCreditNoteWrite, PostJournal, LedgerPlus
<1>8. ASSUME NEW p \in Payments, NEW x \in Amounts, NEW a \in [Invoices -> 0..MaxAmount],
             Settle(p, x, a)
      PROVE  UnappliedInv'
  <2>. DEFINE d == x - Total(a, NumInvoices)
  <2>1. d \in Int /\ x \in Int /\ Total(a, NumInvoices) \in Int
    BY <1>b, <1>c
  <2>2. payment[p].unallocated = 0
    BY <1>8, <1>a DEF Settle, Fresh
  <2>3. /\ payment'[p].unallocated = payment[p].unallocated + d
        /\ \A k \in Payments \ {p} : payment'[k] = payment[k]
        /\ payment'[p].status = "SETTLED"
    BY <1>8, <1>a, <2>1, <2>2 DEF Settle, TypeOK
  <2>4. ledger'.unapplied = ledger.unapplied - d
    BY <1>8, <1>c, <2>1 DEF Settle, PostJournal, LedgerPlus
  <2>5. UnappliedAgrees'
    <3>. HIDE DEF d
    <3>. QED BY <1>a, <2>1, <2>3, <2>4, UnappliedOneRow
  <2>6. Fresh'
    BY <1>a, <2>3 DEF Fresh
  <2>. QED BY <1>a, <2>5, <2>6 DEF UnappliedInv
<1>9. ASSUME NEW p \in Payments, NEW a \in [Invoices -> 0..MaxAmount], Allocate(p, a)
      PROVE  UnappliedInv'
  <2>. DEFINE d == -Total(a, NumInvoices)
  <2>1. d \in Int /\ Total(a, NumInvoices) \in Int /\ payment[p].unallocated \in Int
    BY <1>a, <1>b DEF TypeOK, PaymentRow
  <2>2. payment' = [payment EXCEPT ![p] =
          [payment[p] EXCEPT !.unallocated = payment[p].unallocated - Total(a, NumInvoices)]]
    BY <1>9, <1>a DEF Allocate, TypeOK
  <2>3. /\ payment'[p].unallocated = payment[p].unallocated + d
        /\ \A k \in Payments \ {p} : payment'[k] = payment[k]
        /\ payment'[p].status = payment[p].status
    BY <1>a, <2>1, <2>2 DEF TypeOK, PaymentRow
  <2>4. ledger'.unapplied = ledger.unapplied - d
    BY <1>9, <1>c, <2>1 DEF Allocate, PostFreshJournal, LedgerPlus
  <2>5. UnappliedAgrees'
    <3>. HIDE DEF d
    <3>. QED BY <1>a, <2>1, <2>3, <2>4, UnappliedOneRow
  <2>6. Fresh'
    BY <1>9, <1>a, <2>3 DEF Fresh, Allocate
  <2>. QED BY <1>a, <2>5, <2>6 DEF UnappliedInv
<1>10. ASSUME NEW p \in Payments, NEW q \in Requests, ReversePaymentRead(q, p)
       PROVE  UnappliedInv'
  BY <1>1, <1>10 DEF ReversePaymentRead, Begin
<1>11. ASSUME NEW p \in Payments, NEW q \in Requests, ReversePaymentWrite(q, p)
       PROVE  UnappliedInv'
  <2>. DEFINE d == -payment[p].unallocated
  <2>1. d \in Int /\ payment[p].unallocated \in Int
    BY <1>a DEF TypeOK, PaymentRow
  <2>2. payment' = [payment EXCEPT ![p] =
          [payment[p] EXCEPT !.status = "REVERSED", !.unallocated = 0]]
    BY <1>11, <1>a DEF ReversePaymentWrite, TypeOK
  <2>3. /\ payment'[p].unallocated = payment[p].unallocated + d
        /\ \A k \in Payments \ {p} : payment'[k] = payment[k]
        /\ payment'[p].status = "REVERSED"
    BY <1>a, <2>1, <2>2 DEF TypeOK, PaymentRow
  <2>4. ledger'.unapplied = ledger.unapplied - d
    BY <1>11, <1>c, <2>1 DEF ReversePaymentWrite, PostFreshJournal, LedgerPlus
  <2>5. UnappliedAgrees'
    <3>. HIDE DEF d
    <3>. QED BY <1>a, <2>1, <2>3, <2>4, UnappliedOneRow
  <2>6. Fresh'
    BY <1>a, <2>3 DEF Fresh
  <2>. QED BY <1>a, <2>5, <2>6 DEF UnappliedInv
<1>12. ASSUME NEW r \in Refunds, NEW u \in Users, NEW p \in Payments, NEW x \in Amounts,
              RequestRefund(r, p, x, u)
       PROVE  UnappliedInv'
  BY <1>1, <1>12 DEF RequestRefund
<1>13. ASSUME NEW r \in Refunds, NEW u \in Users, NEW q \in Requests, ApproveRefundRead(q, r, u)
       PROVE  UnappliedInv'
  BY <1>1, <1>13 DEF ApproveRefundRead, Begin
<1>14. ASSUME NEW r \in Refunds, NEW u \in Users, NEW q \in Requests,
              NEW s \in {"APPROVED", "REJECTED"}, ApproveRefundWrite(q, r, u, s)
       PROVE  UnappliedInv'
  BY <1>1, <1>14 DEF ApproveRefundWrite
<1>15. ASSUME NEW r \in Refunds, NEW u \in Users, ExecuteRefund(r, u) PROVE UnappliedInv'
  <2>. DEFINE p == refund[r].payment
              x == Least(payment[p].unallocated, refund[r].amount)
              d == -x
  <2>1. p \in Payments
    BY <1>15, <1>a DEF ExecuteRefund, MayExecute, Typed, Linked
  <2>2. x \in Int /\ d \in Int /\ payment[p].unallocated \in Int
    BY <1>a, <2>1 DEF TypeOK, PaymentRow, RefundRow, Least
  <2>3. /\ payment' = [payment EXCEPT ![p].unallocated = @ - x]
        /\ ledger'.unapplied = ledger.unapplied + x
        /\ payment[p].status = "SETTLED"
    BY <1>15 DEF ExecuteRefund, PostJournal, LedgerPlus
  <2>. HIDE DEF p, x
  <2>4. payment' = [payment EXCEPT ![p] =
          [payment[p] EXCEPT !.unallocated = payment[p].unallocated - x]]
    BY <1>a, <2>1, <2>3 DEF TypeOK
  <2>5. /\ payment'[p].unallocated = payment[p].unallocated + d
        /\ \A k \in Payments \ {p} : payment'[k] = payment[k]
        /\ payment'[p].status = "SETTLED"
    BY <1>a, <2>1, <2>2, <2>3, <2>4 DEF TypeOK, PaymentRow
  <2>6. ledger'.unapplied = ledger.unapplied - d
    BY <1>c, <2>2, <2>3
  <2>7. UnappliedAgrees'
    <3>. HIDE DEF d
    <3>. QED BY <1>a, <2>1, <2>2, <2>5, <2>6, UnappliedOneRow
  <2>8. Fresh'
    BY <1>a, <2>5 DEF Fresh
  <2>. QED BY <1>a, <2>7, <2>8 DEF UnappliedInv
<1>16. ASSUME NEW q \in Requests, RollBack(q) PROVE UnappliedInv'
  BY <1>1, <1>16 DEF RollBack
<1>17. CASE UNCHANGED vars
  BY <1>1, <1>17 DEF vars
<1>18. CASE Next
  BY <1>18, <1>2, <1>3, <1>4, <1>5, <1>5r, <1>6, <1>7, <1>8, <1>9, <1>10, <1>11, <1>12, <1>13,
     <1>14, <1>15, <1>16 DEF Next, InvoiceNext, CreditNoteNext, PaymentNext, RefundNext,
     RecordManual, SettleFromIntent
<1>. QED BY <1>17, <1>18

\* The unapplied-cash account of the ledger always equals the unallocated
\* money of the payments, however requests overlap.
THEOREM UnappliedCash == Spec => []UnappliedAgrees
<1>1. UnappliedInv => UnappliedAgrees
  BY DEF UnappliedInv
<1>. QED BY <1>1, UnappliedInit, UnappliedStep, PTL DEF Spec

(***************************************************************************)
(* Refunds when transactions run one at a time.  Overlapping approvals     *)
(* break both theorems of this section (run refund_race).                  *)
(***************************************************************************)

Live == {"PENDING", "APPROVED", "EXECUTED"}

\* At most one transaction is open, and the refund it approves is pending.
OneAtATime ==
  /\ \A q1, q2 \in Requests : request[q1] # Idle /\ request[q2] # Idle => q1 = q2
  /\ \A q \in Requests : request[q].op = "approve" =>
       /\ refund[request[q].refund].status = "PENDING"
       /\ refund[request[q].refund].requester # request[q].user

NotRecorded == \A p \in Payments : payment[p].status = "NONE" => payment[p].amount = 0

\* What requestRefund checks stays true: live refunds fit in their payment.
LiveWithinPayment == \A p \in Payments : RefundTotal(p, Live) <= payment[p].amount

RefundInv ==
  Typed /\ OneAtATime /\ NotRecorded /\ LiveWithinPayment /\ RefundsUnderDualControl

LEMMA RefundColumnType ==
  ASSUME TypeOK, NEW p \in Payments, NEW S
  PROVE  /\ NumRefunds \in Nat /\ Refunds = 1..NumRefunds
         /\ RefundColumn(p, S) \in [1..NumRefunds -> Int]
         /\ RefundTotal(p, S) \in Int
<1>1. NumRefunds \in Nat /\ Refunds = 1..NumRefunds
  BY SizesAssumption DEF Refunds
<1>2. RefundColumn(p, S) \in [1..NumRefunds -> Int]
  BY <1>1 DEF RefundColumn, TypeOK, RefundRow
<1>. QED BY <1>1, <1>2, TotalType DEF RefundTotal

\* Refunds in the ledger are live, so they fit too.
LEMMA RefundsFit == RefundInv => RefundsWithinPayment
<1>. SUFFICES ASSUME RefundInv, NEW p \in Payments PROVE Refunded(p) <= payment[p].amount
  BY DEF RefundsWithinPayment
<1>. DEFINE f == [r \in Refunds |-> IF refund[r].payment = p /\ <<"refund", r>> \in posted
                                    THEN refund[r].amount ELSE 0]
            h == RefundColumn(p, Live)
<1>1. TypeOK /\ RefundsUnderDualControl /\ LiveWithinPayment
  BY DEF RefundInv, Typed
<1>2. NumRefunds \in Nat /\ Refunds = 1..NumRefunds /\ h \in [1..NumRefunds -> Int]
  BY <1>1, RefundColumnType
<1>3. f \in [1..NumRefunds -> Int]
  BY <1>1, <1>2 DEF TypeOK, RefundRow
<1>4. \A r \in Refunds : f[r] <= h[r]
  <2>. SUFFICES ASSUME NEW r \in Refunds PROVE f[r] <= h[r]
    OBVIOUS
  <2>1. refund[r].amount \in Nat
    BY <1>1 DEF TypeOK, RefundRow
  <2>2. <<"refund", r>> \in posted => refund[r].status \in Live
    BY <1>1 DEF RefundsUnderDualControl, Live
  <2>. QED BY <2>1, <2>2 DEF RefundColumn
<1>5. Total(f, NumRefunds) <= Total(h, NumRefunds)
  <2>. HIDE DEF f, h
  <2>. QED BY <1>2, <1>3, <1>4, TotalMonotone
<1>6. Total(f, NumRefunds) \in Int /\ Total(h, NumRefunds) \in Int /\ payment[p].amount \in Int
  <2>. HIDE DEF f, h
  <2>. QED BY <1>1, <1>2, <1>3, TotalType DEF TypeOK, PaymentRow
<1>7. Total(h, NumRefunds) <= payment[p].amount
  BY <1>1 DEF LiveWithinPayment, RefundTotal
<1>. QED BY <1>5, <1>6, <1>7 DEF Refunded

LEMMA RefundInit == Init => RefundInv
<1>. SUFFICES ASSUME Init PROVE RefundInv
  OBVIOUS
<1>1. Typed /\ TypeOK
  BY TypedInit DEF Typed
<1>2. OneAtATime /\ NotRecorded /\ RefundsUnderDualControl
  BY DEF Init, OneAtATime, Idle, NotRecorded, RefundsUnderDualControl
<1>3. ASSUME NEW p \in Payments PROVE RefundTotal(p, Live) <= payment[p].amount
  <2>1. RefundColumn(p, Live) = [k \in 1..NumRefunds |-> 0] /\ NumRefunds \in Nat
    BY SizesAssumption DEF Init, RefundColumn, Live, Refunds
  <2>2. RefundTotal(p, Live) = 0
    BY <2>1, TotalZero DEF RefundTotal
  <2>. QED BY <2>2 DEF Init
<1>. QED BY <1>1, <1>2, <1>3 DEF RefundInv, LiveWithinPayment

\* No refund becomes larger, none is revived and no payment shrinks: live
\* refunds still fit.
LEMMA LiveShrinks ==
  ASSUME TypeOK, TypeOK', LiveWithinPayment,
         \A r \in Refunds : refund'[r].status \in Live =>
           /\ refund[r].status \in Live
           /\ refund'[r].payment = refund[r].payment
           /\ refund'[r].amount = refund[r].amount,
         \A p \in Payments : payment[p].amount <= payment'[p].amount
  PROVE  LiveWithinPayment'
<1>. SUFFICES ASSUME NEW p \in Payments PROVE RefundTotal(p, Live)' <= payment'[p].amount
  BY DEF LiveWithinPayment
<1>. DEFINE f == RefundColumn(p, Live)'
            h == RefundColumn(p, Live)
<1>1. /\ NumRefunds \in Nat /\ Refunds = 1..NumRefunds
      /\ h \in [1..NumRefunds -> Int]
      /\ RefundTotal(p, Live) \in Int
  BY RefundColumnType
<1>2. f \in [1..NumRefunds -> Int]
  BY <1>1 DEF TypeOK, RefundRow, RefundColumn
<1>3. \A r \in Refunds : f[r] <= h[r]
  BY DEF RefundColumn, TypeOK, RefundRow
<1>4. Total(f, NumRefunds) <= Total(h, NumRefunds)
  <2>. HIDE DEF f, h
  <2>. QED BY <1>1, <1>2, <1>3, TotalMonotone
<1>5. Total(f, NumRefunds) \in Int
  <2>. HIDE DEF f
  <2>. QED BY <1>1, <1>2, TotalType
<1>6. RefundTotal(p, Live) <= payment[p].amount /\ payment[p].amount <= payment'[p].amount
      /\ payment[p].amount \in Int /\ payment'[p].amount \in Int
  BY DEF LiveWithinPayment, TypeOK, PaymentRow
<1>. QED BY <1>1, <1>4, <1>5, <1>6 DEF RefundTotal

\* A step that leaves the refunds alone.
LEMMA RefundsUntouched ==
  ASSUME RefundInv, Typed', OneAtATime', refund' = refund,
         \A r \in Refunds : <<"refund", r>> \in posted' => <<"refund", r>> \in posted,
         \A p \in Payments : payment'[p] = payment[p] \/
           /\ payment'[p].status # "NONE"
           /\ payment[p].status = "NONE" \/ payment'[p].amount = payment[p].amount
  PROVE  RefundInv'
<1>1. TypeOK /\ TypeOK' /\ LiveWithinPayment /\ NotRecorded /\ RefundsUnderDualControl
  BY DEF RefundInv, Typed
<1>2. NotRecorded'
  BY <1>1 DEF NotRecorded
<1>3. \A p \in Payments : payment[p].amount <= payment'[p].amount
  BY <1>1 DEF NotRecorded, TypeOK, PaymentRow
<1>4. LiveWithinPayment'
  BY <1>1, <1>3, LiveShrinks
<1>5. RefundsUnderDualControl'
  BY <1>1 DEF RefundsUnderDualControl
<1>. QED BY <1>2, <1>4, <1>5 DEF RefundInv

LEMMA RefundStep ==
  ASSUME Serial
  PROVE  RefundInv /\ [Next]_vars => RefundInv'
<1>. SUFFICES ASSUME RefundInv, [Next]_vars PROVE RefundInv'
  OBVIOUS
<1>a. Typed /\ Typed' /\ TypeOK /\ TypeOK' /\ OneAtATime /\ NotRecorded
      /\ LiveWithinPayment /\ RefundsUnderDualControl
  BY TypedStep DEF RefundInv, Typed
<1>b. ASSUME MayStart, request' = request PROVE OneAtATime'
  BY <1>b DEF MayStart, OneAtATime, Idle
<1>c. ASSUME NEW q \in Requests, request[q] # Idle, End(q)
      PROVE  OneAtATime' /\ \A q2 \in Requests : request'[q2] = Idle
  <2>1. \A q2 \in Requests : request'[q2] = Idle
    BY <1>a, <1>c DEF End, OneAtATime, TypeOK
  <2>. QED BY <2>1 DEF OneAtATime, Idle
<1>d. ASSUME NEW q \in Requests, NEW what, Begin(q, what), what.op # "approve" PROVE OneAtATime'
  BY <1>a, <1>d DEF Begin, MayStart, OneAtATime, Idle, TypeOK
<1>1. ASSUME NEW i \in Invoices, VoidInvoice(i) PROVE RefundInv'
  BY <1>1, <1>a, <1>b, RefundsUntouched DEF VoidInvoice, PostJournal
<1>2. ASSUME NEW i \in Invoices, NEW q \in Requests, PostInvoiceRead(q, i) PROVE RefundInv'
  <2>1. OneAtATime'
    BY <1>2, <1>d DEF PostInvoiceRead, Posting
  <2>. QED BY <1>2, <1>a, <2>1, RefundsUntouched DEF PostInvoiceRead, Begin
<1>3. ASSUME NEW i \in Invoices, NEW q \in Requests, PostInvoiceWrite(q, i) PROVE RefundInv'
  <2>1. OneAtATime'
    BY <1>3, <1>c DEF PostInvoiceWrite, Posting, Idle
  <2>. QED BY <1>3, <1>a, <2>1, RefundsUntouched DEF PostInvoiceWrite, PostJournal
<1>4. ASSUME NEW q \in Requests, NEW c \in CreditNotes, NEW i \in Invoices, NEW x \in Amounts,
             CreateCreditNoteWrite(q, c, i, x)
      PROVE  RefundInv'
  <2>1. OneAtATime'
    BY <1>4, <1>c DEF CreateCreditNoteWrite, Drafting, Idle
  <2>. QED BY <1>4, <1>a, <2>1, RefundsUntouched DEF CreateCreditNoteWrite
<1>4r. ASSUME NEW q \in Requests, NEW i \in Invoices, NEW x \in Amounts,
             CreateCreditNoteRead(q, i, x)
      PROVE  RefundInv'
  <2>1. OneAtATime'
    BY <1>4r, <1>d DEF CreateCreditNoteRead, Drafting
  <2>. QED BY <1>4r, <1>a, <2>1, RefundsUntouched DEF CreateCreditNoteRead, Begin
<1>5. ASSUME NEW c \in CreditNotes, NEW q \in Requests, PostCreditNoteRead(q, c)
      PROVE  RefundInv'
  <2>1. OneAtATime'
    BY <1>5, <1>d DEF PostCreditNoteRead, Crediting
  <2>. QED BY <1>5, <1>a, <2>1, RefundsUntouched DEF PostCreditNoteRead, Begin
<1>6. ASSUME NEW c \in CreditNotes, NEW q \in Requests, PostCreditNoteWrite(q, c)
      PROVE  RefundInv'
  <2>1. OneAtATime'
    BY <1>6, <1>c DEF PostCreditNoteWrite, Crediting, Idle
  <2>. QED BY <1>6, <1>a, <2>1, RefundsUntouched DEF PostCreditNoteWrite, PostJournal
<1>7. ASSUME NEW p \in Payments, NEW x \in Amounts, NEW a \in [Invoices -> 0..MaxAmount],
             MayStart, Settle(p, x, a)
      PROVE  RefundInv'
  <2>1. OneAtATime'
    BY <1>7, <1>b DEF Settle
  <2>2. \A p2 \in Payments : payment'[p2] = payment[p2] \/
          (payment'[p2].status # "NONE" /\ payment[p2].status = "NONE")
    BY <1>7, <1>a DEF Settle, TypeOK
  <2>. QED BY <1>7, <1>a, <2>1, <2>2, RefundsUntouched DEF Settle, PostJournal
<1>8. ASSUME NEW p \in Payments, NEW a \in [Invoices -> 0..MaxAmount], Allocate(p, a)
      PROVE  RefundInv'
  <2>1. OneAtATime'
    BY <1>8, <1>b DEF Allocate
  <2>2. payment' = [payment EXCEPT ![p] =
          [payment[p] EXCEPT !.unallocated = payment[p].unallocated - Total(a, NumInvoices)]]
    BY <1>8, <1>a DEF Allocate, TypeOK
  <2>3. payment[p].status = "SETTLED"
    BY <1>8 DEF Allocate
  <2>4. \A p2 \in Payments : payment'[p2] = payment[p2] \/
          (payment'[p2].status # "NONE" /\ payment'[p2].amount = payment[p2].amount)
    BY <1>a, <2>2, <2>3 DEF TypeOK, PaymentRow
  <2>. QED BY <1>8, <1>a, <2>1, <2>4, RefundsUntouched DEF Allocate, PostFreshJournal
<1>9. ASSUME NEW p \in Payments, NEW q \in Requests, ReversePaymentRead(q, p)
      PROVE  RefundInv'
  <2>1. OneAtATime'
    BY <1>9, <1>d DEF ReversePaymentRead, Reversing
  <2>. QED BY <1>9, <1>a, <2>1, RefundsUntouched DEF ReversePaymentRead, Begin
<1>10. ASSUME NEW p \in Payments, NEW q \in Requests, ReversePaymentWrite(q, p)
       PROVE  RefundInv'
  <2>1. OneAtATime'
    BY <1>10, <1>c DEF ReversePaymentWrite, Idle
  <2>2. payment' = [payment EXCEPT ![p] =
          [payment[p] EXCEPT !.status = "REVERSED", !.unallocated = 0]]
    BY <1>10, <1>a DEF ReversePaymentWrite, TypeOK
  <2>3. \A p2 \in Payments : payment'[p2] = payment[p2] \/
          (payment'[p2].status # "NONE" /\ payment'[p2].amount = payment[p2].amount)
    BY <1>a, <2>2 DEF TypeOK, PaymentRow
  <2>. QED BY <1>10, <1>a, <2>1, <2>3, RefundsUntouched DEF ReversePaymentWrite, PostFreshJournal
<1>11. ASSUME NEW r \in Refunds, NEW u \in Users, NEW p \in Payments, NEW x \in Amounts,
              RequestRefund(r, p, x, u)
       PROVE  RefundInv'
  <2>1. OneAtATime'
    BY <1>11, <1>b DEF RequestRefund
  <2>2. /\ refund' = [refund EXCEPT ![r] =
             [status |-> "PENDING", payment |-> p, amount |-> x,
              requester |-> u, approver |-> None, executor |-> None]]
        /\ payment' = payment /\ posted' = posted
        /\ refund[r].status = "NONE"
        /\ RefundTotal(p, Live) + x <= payment[p].amount
    BY <1>11 DEF RequestRefund, Live
  <2>3. NotRecorded' /\ RefundsUnderDualControl'
    BY <1>a, <2>2 DEF NotRecorded, RefundsUnderDualControl, TypeOK
  <2>4. ASSUME NEW p2 \in Payments PROVE RefundTotal(p2, Live)' <= payment'[p2].amount
    <3>. DEFINE f == RefundColumn(p2, Live)
                h == RefundColumn(p2, Live)'
                d == IF p2 = p THEN x ELSE 0
    <3>1. /\ NumRefunds \in Nat /\ Refunds = 1..NumRefunds
          /\ f \in [1..NumRefunds -> Int]
          /\ RefundTotal(p2, Live) \in Int
      BY <1>a, RefundColumnType
    <3>2. h \in [1..NumRefunds -> Int]
      BY <1>a, <3>1 DEF TypeOK, RefundRow, RefundColumn
    <3>3. d \in Int /\ x \in Int
      BY DEF Amounts
    <3>4. h[r] = f[r] + d /\ \A k \in 1..NumRefunds \ {r} : h[k] = f[k]
      BY <1>a, <2>2, <3>1, <3>3 DEF RefundColumn, Live, TypeOK
    <3>5. Total(h, NumRefunds) = Total(f, NumRefunds) + d
      <4>. HIDE DEF f, h, d
      <4>. QED BY <3>1, <3>2, <3>3, <3>4, TotalOneRow
    <3>6. RefundTotal(p2, Live) <= payment[p2].amount /\ payment[p2].amount \in Int
      BY <1>a DEF LiveWithinPayment, TypeOK, PaymentRow
    <3>. QED BY <2>2, <3>1, <3>3, <3>5, <3>6 DEF RefundTotal
  <2>. QED BY <1>a, <2>1, <2>3, <2>4 DEF RefundInv, LiveWithinPayment
<1>12. ASSUME NEW r \in Refunds, NEW u \in Users, NEW q \in Requests, ApproveRefundRead(q, r, u)
       PROVE  RefundInv'
  <2>1. OneAtATime'
    BY <1>12, <1>a DEF ApproveRefundRead, Begin, MayStart, Approving, OneAtATime, Idle, TypeOK
  <2>. QED BY <1>12, <1>a, <2>1, RefundsUntouched DEF ApproveRefundRead, Begin
<1>13. ASSUME NEW r \in Refunds, NEW u \in Users, NEW q \in Requests,
              NEW d \in {"APPROVED", "REJECTED"}, ApproveRefundWrite(q, r, u, d)
       PROVE  RefundInv'
  <2>1. OneAtATime'
    BY <1>13, <1>c DEF ApproveRefundWrite, Approving, Idle
  <2>2. refund[r].status = "PENDING"
    BY <1>13, <1>a DEF ApproveRefundWrite, Approving, OneAtATime
  <2>3. /\ refund' = [refund EXCEPT ![r] = [refund[r] EXCEPT !.status = d, !.approver = u]]
        /\ payment' = payment /\ posted' = posted
    BY <1>13, <1>a DEF ApproveRefundWrite, TypeOK
  <2>4. NotRecorded' /\ RefundsUnderDualControl'
    BY <1>a, <2>2, <2>3 DEF NotRecorded, RefundsUnderDualControl, TypeOK
  <2>5. LiveWithinPayment'
    <3>1. \A k \in Refunds : refund'[k].status \in Live =>
            /\ refund[k].status \in Live
            /\ refund'[k].payment = refund[k].payment
            /\ refund'[k].amount = refund[k].amount
      BY <1>a, <2>2, <2>3 DEF Live, TypeOK, RefundRow
    <3>2. \A p \in Payments : payment[p].amount <= payment'[p].amount
      BY <1>a, <2>3 DEF TypeOK, PaymentRow
    <3>. QED BY <1>a, <3>1, <3>2, LiveShrinks
  <2>. QED BY <1>a, <2>1, <2>4, <2>5 DEF RefundInv
<1>14. ASSUME NEW r \in Refunds, NEW u \in Users, ExecuteRefund(r, u) PROVE RefundInv'
  <2>. DEFINE p == refund[r].payment
              x == Least(payment[p].unallocated, refund[r].amount)
  <2>1. /\ MayStart /\ request' = request
        /\ refund[r].status = "APPROVED"
        /\ refund[r].requester # refund[r].approver
        /\ u \notin {refund[r].requester, refund[r].approver}
        /\ payment[p].status = "SETTLED"
        /\ payment' = [payment EXCEPT ![p].unallocated = @ - x]
        /\ posted' = posted \cup {<<"refund", r>>}
        /\ refund' = [refund EXCEPT ![r].status = "EXECUTED", ![r].executor = u]
    BY <1>14 DEF ExecuteRefund, MayExecute, PostJournal
  <2>2. p \in Payments
    BY <1>a, <2>1 DEF Typed, Linked
  <2>. HIDE DEF p, x
  <2>3. refund' = [refund EXCEPT ![r] = [refund[r] EXCEPT !.status = "EXECUTED", !.executor = u]]
    BY <1>a, <2>1 DEF TypeOK
  <2>4. \A k \in Payments : /\ payment'[k].amount = payment[k].amount
                            /\ payment'[k].status = payment[k].status
    BY <1>a, <2>1, <2>2 DEF TypeOK, PaymentRow
  <2>5. OneAtATime'
    BY <1>b, <2>1
  <2>6. NotRecorded'
    BY <1>a, <2>4 DEF NotRecorded
  <2>7. RefundsUnderDualControl'
    BY <1>a, <2>1, <2>3 DEF RefundsUnderDualControl, TypeOK, RefundRow
  <2>8. LiveWithinPayment'
    <3>1. \A k \in Refunds : refund'[k].status \in Live =>
            /\ refund[k].status \in Live
            /\ refund'[k].payment = refund[k].payment
            /\ refund'[k].amount = refund[k].amount
      BY <1>a, <2>1, <2>3 DEF Live, TypeOK, RefundRow
    <3>2. \A k \in Payments : payment[k].amount <= payment'[k].amount
      BY <1>a, <2>4 DEF TypeOK, PaymentRow
    <3>. QED BY <1>a, <3>1, <3>2, LiveShrinks
  <2>. QED BY <1>a, <2>5, <2>6, <2>7, <2>8 DEF RefundInv
<1>15. ASSUME NEW q \in Requests, RollBack(q) PROVE RefundInv'
  <2>1. OneAtATime'
    BY <1>15, <1>c DEF RollBack
  <2>. QED BY <1>15, <1>a, <2>1, RefundsUntouched DEF RollBack
<1>16. CASE UNCHANGED vars
  <2>1. OneAtATime'
    BY <1>16, <1>a DEF vars, OneAtATime
  <2>. QED BY <1>16, <1>a, <2>1, RefundsUntouched DEF vars
<1>17. CASE Next
  BY <1>17, <1>1, <1>2, <1>3, <1>4, <1>4r, <1>5, <1>6, <1>7, <1>8, <1>9, <1>10, <1>11, <1>12, <1>13,
     <1>14, <1>15 DEF Next, InvoiceNext, CreditNoteNext, PaymentNext, RefundNext,
     RecordManual, SettleFromIntent
<1>. QED BY <1>16, <1>17

\* One transaction at a time, a payment is never refunded beyond its amount.
THEOREM RefundsBounded ==
  ASSUME Serial
  PROVE  Spec => []RefundsWithinPayment
<1>. QED BY RefundsFit, RefundInit, RefundStep, PTL DEF Spec

\* One transaction at a time, every refund in the ledger was requested,
\* approved and executed by three different users.
THEOREM RefundsControlled ==
  ASSUME Serial
  PROVE  Spec => []RefundsUnderDualControl
<1>1. RefundInv => RefundsUnderDualControl
  BY DEF RefundInv
<1>. QED BY <1>1, RefundInit, RefundStep, PTL DEF Spec

(***************************************************************************)
(* Invoices.  Both theorems hold when transactions run one at a time, and  *)
(* also when they overlap under the outbox as it is, where the event of a  *)
(* payment's recording keeps later reversals and allocations from          *)
(* committing.                                                             *)
(***************************************************************************)

\* What is collected and credited is what the balance has lost.
Sound(i) ==
  /\ 0 <= invoice[i].balance
  /\ invoice[i].status = "VOID" =>
       invoice[i].balance = 0 /\ Collected(i) = 0 /\ Credited(i) = 0
  /\ invoice[i].status # "VOID" =>
       invoice[i].total = invoice[i].balance + Collected(i) + Credited(i)
  /\ invoice[i].status = "PAID" => invoice[i].balance = 0
  /\ invoice[i].status = "PARTIALLY_PAID" => invoice[i].balance \in 1..(invoice[i].total - 1)
  /\ invoice[i].status \in {"DRAFT", "POSTED"} => invoice[i].balance = invoice[i].total

AllSound == \A i \in Invoices : Sound(i)

\* Allocations are of recorded payments, credit notes of posted invoices.
Applied ==
  /\ \A p \in Payments, i \in Invoices :
       alloc[p][i] >= 0 /\ (payment[p].status = "NONE" => alloc[p][i] = 0)
  /\ \A c \in CreditNotes : creditNote[c].status # "NONE" =>
       creditNote[c].total > 0 /\ invoice[creditNote[c].invoice].status # "DRAFT"
  /\ \A q \in Requests : request[q].op = "draft" => invoice[request[q].invoice].status # "DRAFT"

\* What has happened has left its key, which keeps it from happening again.
Keyed ==
  /\ \A i \in Invoices : invoice[i].status # "DRAFT" => <<"invoice", i>> \in posted
  /\ \A c \in CreditNotes : creditNote[c].status = "POSTED" => <<"credit", c>> \in posted
  /\ \A p \in Payments : payment[p].status = "SETTLED" => <<"payment", p>> \in outbox

Alone == Serial => \A q1, q2 \in Requests : request[q1] # Idle /\ request[q2] # Idle => q1 = q2

\* An open reversal cannot commit, or what it has read is current.
ReversalsCurrent ==
  \A q \in Requests : request[q].op = "reverse" =>
    \/ ~SequencedOutbox /\ <<"payment", request[q].payment>> \in outbox
    \/ Serial /\ \A i \in Invoices : request[q].balance[i] = invoice[i].balance

InvoiceInv == Typed /\ AllSound /\ Applied /\ Keyed /\ Alone /\ ReversalsCurrent

\* A posted invoice never becomes a draft again, a void one never changes.
Onward ==
  \A i \in Invoices :
    /\ invoice[i].status # "DRAFT" => invoice'[i].status # "DRAFT"
    /\ invoice[i].status = "VOID" => invoice'[i] = invoice[i]

\* No draft becomes an invoice.
NoneIssued == \A i \in Invoices : invoice'[i].status # "DRAFT" => invoice[i].status # "DRAFT"

\* What is collected on an invoice is an amount, and no row exceeds it.
LEMMA CollectedType ==
  ASSUME TypeOK, NEW i \in Invoices, \A p \in Payments : alloc[p][i] >= 0
  PROVE  Collected(i) \in Nat /\ \A p \in Payments : alloc[p][i] <= Collected(i)
<1>. DEFINE f == [p \in Payments |-> alloc[p][i]]
<1>1. NumPayments \in Nat /\ Payments = 1..NumPayments
  BY SizesAssumption DEF Payments
<1>2. f \in [1..NumPayments -> Nat]
  BY <1>1 DEF TypeOK
<1>3. Total(f, NumPayments) \in Nat /\ \A p \in 1..NumPayments : f[p] <= Total(f, NumPayments)
  <2>. HIDE DEF f
  <2>. QED BY <1>1, <1>2, TotalNat
<1>. QED BY <1>1, <1>3 DEF Collected

\* What is credited on an invoice is an amount.
LEMMA CreditedType ==
  ASSUME TypeOK, NEW i \in Invoices
  PROVE  Credited(i) \in Nat
<1>. DEFINE f == [c \in CreditNotes |->
                    IF creditNote[c].invoice = i /\ creditNote[c].status = "POSTED"
                    THEN creditNote[c].total ELSE 0]
<1>1. NumCreditNotes \in Nat /\ CreditNotes = 1..NumCreditNotes
  BY SizesAssumption DEF CreditNotes
<1>2. f \in [1..NumCreditNotes -> Nat]
  BY <1>1 DEF TypeOK, CreditNoteRow
<1>3. Total(f, NumCreditNotes) \in Nat
  <2>. HIDE DEF f
  <2>. QED BY <1>1, <1>2, TotalNat
<1>. QED BY <1>3 DEF Credited

\* The live allocations of one payment change by d.
LEMMA CollectedMoves ==
  ASSUME TypeOK, TypeOK', NEW i \in Invoices, NEW p \in Payments, NEW d \in Int,
         alloc'[p][i] = alloc[p][i] + d,
         \A k \in Payments \ {p} : alloc'[k][i] = alloc[k][i]
  PROVE  Collected(i)' = Collected(i) + d
<1>. DEFINE f == [k \in Payments |-> alloc[k][i]]
            h == [k \in Payments |-> alloc'[k][i]]
<1>1. NumPayments \in Nat /\ Payments = 1..NumPayments
  BY SizesAssumption DEF Payments
<1>2. f \in [1..NumPayments -> Int] /\ h \in [1..NumPayments -> Int]
  BY <1>1 DEF TypeOK
<1>3. h[p] = f[p] + d /\ \A k \in 1..NumPayments \ {p} : h[k] = f[k]
  BY <1>1
<1>4. Total(h, NumPayments) = Total(f, NumPayments) + d
  <2>. HIDE DEF f, h
  <2>. QED BY <1>1, <1>2, <1>3, TotalOneRow
<1>. QED BY <1>4 DEF Collected

\* A credit note is posted.
LEMMA CreditedMoves ==
  ASSUME TypeOK, TypeOK', NEW c \in CreditNotes,
         creditNote[c].status # "POSTED", creditNote'[c].status = "POSTED",
         creditNote'[c].invoice = creditNote[c].invoice,
         creditNote'[c].total = creditNote[c].total,
         \A k \in CreditNotes \ {c} : creditNote'[k] = creditNote[k], NEW i \in Invoices
  PROVE  Credited(i)' = Credited(i) + (IF creditNote[c].invoice = i THEN creditNote[c].total ELSE 0)
<1>. DEFINE f == [k \in CreditNotes |->
                    IF creditNote[k].invoice = i /\ creditNote[k].status = "POSTED"
                    THEN creditNote[k].total ELSE 0]
            h == [k \in CreditNotes |->
                    IF creditNote'[k].invoice = i /\ creditNote'[k].status = "POSTED"
                    THEN creditNote'[k].total ELSE 0]
            d == IF creditNote[c].invoice = i THEN creditNote[c].total ELSE 0
<1>1. NumCreditNotes \in Nat /\ CreditNotes = 1..NumCreditNotes
  BY SizesAssumption DEF CreditNotes
<1>2. f \in [1..NumCreditNotes -> Int] /\ h \in [1..NumCreditNotes -> Int] /\ d \in Int
  BY <1>1 DEF TypeOK, CreditNoteRow
<1>3. h[c] = f[c] + d /\ \A k \in 1..NumCreditNotes \ {c} : h[k] = f[k]
  BY <1>1, <1>2
<1>4. Total(h, NumCreditNotes) = Total(f, NumCreditNotes) + d
  <2>. HIDE DEF f, h, d
  <2>. QED BY <1>1, <1>2, <1>3, TotalOneRow
<1>. QED BY <1>4 DEF Credited

\* No credit note is posted.
LEMMA CreditedSame ==
  ASSUME NEW i \in Invoices,
         \A c \in CreditNotes : creditNote'[c] = creditNote[c] \/
           (creditNote[c].status # "POSTED" /\ creditNote'[c].status # "POSTED")
  PROVE  Credited(i)' = Credited(i)
<1>1. [c \in CreditNotes |-> IF creditNote[c].invoice = i /\ creditNote[c].status = "POSTED"
                             THEN creditNote[c].total ELSE 0]
      = [c \in CreditNotes |-> IF creditNote'[c].invoice = i /\ creditNote'[c].status = "POSTED"
                               THEN creditNote'[c].total ELSE 0]
  OBVIOUS
<1>. QED BY <1>1 DEF Credited

\* The share of a refund that falls on a row is an amount.
LEMMA ShareNat ==
  ASSUME NEW x \in Nat, NEW y \in Nat, NEW t \in Int
  PROVE  Share(x, y, t) \in Nat
<1>1. CASE t > 0
  <2>1. x * y \in Nat
    OBVIOUS
  <2>2. 2 * x * y + t \in Nat /\ 2 * t \in Nat /\ 2 * t > 0
    <3>1. 2 * x * y = 2 * (x * y)
      OBVIOUS
    <3>. DEFINE z == x * y
    <3>. HIDE DEF z
    <3>2. z \in Nat
      BY <2>1 DEF z
    <3>3. 2 * z + t \in Nat
      BY <1>1, <3>2
    <3>. QED BY <1>1, <3>1, <3>3 DEF z
  <2>3. \A m, n \in Nat : n > 0 => m \div n \in Nat
    OBVIOUS
  <2>. QED BY <1>1, <2>2, <2>3 DEF Share
<1>2. CASE ~(t > 0)
  BY <1>2 DEF Share
<1>. QED BY <1>1, <1>2

\* A refund takes no more from an allocation than it holds.
LEMMA GivenBounds ==
  ASSUME NEW a \in [Invoices -> Nat], NEW x \in Nat, NEW i \in Invoices
  PROVE  0 <= Given(a, x)[i] /\ Given(a, x)[i] <= a[i]
<1>. DEFINE t == Total(a, NumInvoices)
            w == [j \in Invoices |-> Least(Share(x, a[j], t), a[j])]
            g == Running(w, NumInvoices)
<1>1. NumInvoices \in Nat /\ Invoices = 1..NumInvoices /\ a \in [Invoices -> Int]
  BY SizesAssumption DEF Invoices
<1>2. t \in Int
  BY <1>1, TotalType
<1>3. \A j \in Invoices : Share(x, a[j], t) \in Nat
  <2>. HIDE DEF t
  <2>. QED BY <1>2, ShareNat
<1>4. \A j \in Invoices : w[j] \in Nat /\ w[j] <= a[j]
  <2>. HIDE DEF t
  <2>. QED BY <1>3 DEF Least
<1>5. w \in [1..NumInvoices -> Int]
  BY <1>1, <1>4
<1>6. IsRunning(g, w, NumInvoices) /\ g \in [0..NumInvoices -> Int]
  <2>. HIDE DEF w
  <2>. QED BY <1>1, <1>5, RunningDef
<1>7. i \in 1..NumInvoices /\ i - 1 \in 0..NumInvoices /\ i \in 0..NumInvoices
  BY <1>1
<1>8. g[i] = g[i-1] + w[i] /\ g[i] \in Int /\ g[i-1] \in Int /\ w[i] \in Nat /\ w[i] <= a[i]
  <2>. HIDE DEF w, g
  <2>. QED BY <1>1, <1>4, <1>6, <1>7 DEF IsRunning
<1>9. Given(a, x)[i] = Least(x, g[i]) - Least(x, g[i-1])
  BY DEF Given
<1>10. a[i] \in Nat
  OBVIOUS
<1>. QED
  <2>. HIDE DEF w, g
  <2>. QED BY <1>8, <1>9, <1>10 DEF Least

\* Payment p takes d[i] off the balance of each invoice i (gives back, when it
\* is negative): what is collected changes by the same.
LEMMA AllocationsMove ==
  ASSUME Typed, Typed', AllSound, Applied, NEW p \in Payments, NEW d \in [Invoices -> Int],
         UNCHANGED creditNote,
         \A i \in Invoices : alloc'[p][i] = alloc[p][i] + d[i] /\ alloc[p][i] + d[i] >= 0,
         \A k \in Payments \ {p} : alloc'[k] = alloc[k],
         \A i \in Invoices : d[i] = 0 => invoice'[i] = invoice[i],
         \A i \in Invoices : d[i] # 0 =>
           invoice'[i].total = invoice[i].total /\ invoice'[i].balance = invoice[i].balance - d[i],
         \A i \in Invoices : d[i] > 0 =>
           /\ Collectable(i) /\ d[i] <= invoice[i].balance
           /\ invoice'[i].status = ReducedStatus(invoice[i].balance - d[i]),
         \A i \in Invoices : d[i] < 0 =>
           invoice'[i].status = RestoredStatus(invoice[i].balance - d[i], invoice[i].total)
  PROVE  AllSound' /\ Onward /\ NoneIssued
<1>. SUFFICES ASSUME NEW i \in Invoices
              PROVE  /\ Sound(i)'
                     /\ invoice[i].status # "DRAFT" => invoice'[i].status # "DRAFT"
                     /\ invoice[i].status = "VOID" => invoice'[i] = invoice[i]
                     /\ invoice'[i].status # "DRAFT" => invoice[i].status # "DRAFT"
  BY DEF AllSound, Onward, NoneIssued
<1>1. TypeOK /\ TypeOK' /\ Sound(i)
  BY DEF Typed, AllSound
<1>2. /\ Collected(i) \in Nat /\ alloc[p][i] <= Collected(i)
      /\ Credited(i) \in Nat /\ d[i] \in Int /\ alloc[p][i] \in Int
      /\ invoice[i].balance \in Int /\ invoice[i].total \in Nat
  <2>1. \A k \in Payments : alloc[k][i] >= 0
    BY DEF Applied
  <2>2. Collected(i) \in Nat /\ alloc[p][i] <= Collected(i)
    BY <1>1, <2>1, CollectedType
  <2>. QED BY <1>1, <2>2, CreditedType DEF TypeOK, InvoiceRow
<1>3. Collected(i)' = Collected(i) + d[i]
  <2>1. \A k \in Payments \ {p} : alloc'[k][i] = alloc[k][i]
    OBVIOUS
  <2>. QED BY <1>1, <1>2, <2>1, CollectedMoves
<1>4. Credited(i)' = Credited(i)
  BY CreditedSame
<1>5. CASE d[i] = 0
  <2>1. invoice'[i] = invoice[i] /\ Collected(i)' = Collected(i)
    BY <1>2, <1>3, <1>5
  <2>. QED BY <1>1, <1>4, <2>1 DEF Sound
<1>6. CASE d[i] > 0
  <2>1. /\ invoice[i].status \in {"POSTED", "PARTIALLY_PAID"} /\ d[i] <= invoice[i].balance
        /\ invoice'[i].total = invoice[i].total /\ invoice'[i].balance = invoice[i].balance - d[i]
        /\ invoice'[i].status = ReducedStatus(invoice[i].balance - d[i])
    BY <1>2, <1>6 DEF Collectable
  <2>2. invoice[i].total = invoice[i].balance + Collected(i) + Credited(i)
    BY <1>1, <2>1 DEF Sound
  <2>3. Sound(i)'
    BY <1>2, <1>3, <1>4, <1>6, <2>1, <2>2 DEF Sound, ReducedStatus
  <2>. QED BY <2>1, <2>3 DEF ReducedStatus
<1>7. CASE d[i] < 0
  <2>1. Collected(i) > 0
    BY <1>2, <1>7
  <2>2. invoice[i].status \notin {"VOID", "DRAFT"}
    BY <1>1, <1>2, <2>1 DEF Sound
  <2>3. invoice[i].total = invoice[i].balance + Collected(i) + Credited(i)
    BY <1>1, <2>2 DEF Sound
  <2>. QED BY <1>1, <1>2, <1>3, <1>4, <1>7, <2>2, <2>3 DEF Sound, RestoredStatus
<1>. QED BY <1>2, <1>5, <1>6, <1>7

\* A step that leaves invoices, allocations and posted credit notes alone.
LEMMA NothingMoves ==
  ASSUME AllSound, UNCHANGED <<invoice, alloc>>,
         \A c \in CreditNotes : creditNote'[c] = creditNote[c] \/
           (creditNote[c].status # "POSTED" /\ creditNote'[c].status # "POSTED")
  PROVE  AllSound' /\ Onward /\ NoneIssued
<1>1. ASSUME NEW i \in Invoices PROVE Sound(i)'
  <2>1. Credited(i)' = Credited(i) /\ Collected(i)' = Collected(i)
    BY CreditedSame DEF Collected
  <2>. QED BY <2>1 DEF AllSound, Sound
<1>. QED BY <1>1 DEF AllSound, Onward, NoneIssued

\* What happens to the requests and what they have read.
LEMMA RequestsKept ==
  ASSUME TypeOK, Alone, ReversalsCurrent, outbox \subseteq outbox',
         \/ request' = request /\ (invoice' = invoice \/ MayStart)
         \/ \E q \in Requests : request[q] # Idle /\ End(q)
  PROVE  Alone' /\ ReversalsCurrent'
<1>1. CASE request' = request /\ (invoice' = invoice \/ MayStart)
  <2>1. Alone'
    BY <1>1 DEF Alone
  <2>2. ASSUME NEW q \in Requests, request[q].op = "reverse", Serial PROVE invoice' = invoice
    BY <1>1, <2>2 DEF MayStart, Idle
  <2>3. ReversalsCurrent'
    BY <1>1, <2>2 DEF ReversalsCurrent
  <2>. QED BY <2>1, <2>3
<1>2. ASSUME NEW q \in Requests, request[q] # Idle, End(q) PROVE Alone' /\ ReversalsCurrent'
  <2>1. request'[q] = Idle /\ \A k \in Requests \ {q} : request'[k] = request[k]
    BY <1>2 DEF End, TypeOK
  <2>2. Serial => \A k \in Requests : request'[k] = Idle
    BY <1>2, <2>1 DEF Alone
  <2>3. Alone'
    BY <2>2 DEF Alone
  <2>4. ReversalsCurrent'
    <3>. SUFFICES ASSUME NEW k \in Requests, request'[k].op = "reverse"
                  PROVE  ~SequencedOutbox /\ <<"payment", request'[k].payment>> \in outbox'
      BY DEF ReversalsCurrent
    <3>1. k # q /\ request'[k] = request[k]
      BY <2>1 DEF Idle
    <3>2. ~Serial
      BY <2>2 DEF Idle
    <3>. QED BY <3>1, <3>2 DEF ReversalsCurrent
  <2>. QED BY <2>3, <2>4
<1>. QED BY <1>1, <1>2

\* A request that begins to reverse a payment cannot commit or read current balances.
LEMMA RequestBegins ==
  ASSUME TypeOK, Alone, ReversalsCurrent, NEW q \in Requests, NEW what, Begin(q, what),
         what.op = "reverse" =>
           \/ ~SequencedOutbox /\ <<"payment", what.payment>> \in outbox
           \/ Serial /\ \A i \in Invoices : what.balance[i] = invoice[i].balance
  PROVE  Alone' /\ ReversalsCurrent'
<1>1. /\ request'[q] = what /\ \A k \in Requests \ {q} : request'[k] = request[k]
      /\ invoice' = invoice /\ outbox' = outbox
  BY DEF Begin, TypeOK
<1>2. Serial => \A k \in Requests \ {q} : request'[k] = Idle
  BY <1>1 DEF Begin, MayStart
<1>3. Alone'
  BY <1>2 DEF Alone
<1>4. ReversalsCurrent'
  BY <1>1 DEF ReversalsCurrent
<1>. QED BY <1>3, <1>4

\* Only the writes of invoices, credit notes and payments touch these facts.
LEMMA AppliedKept ==
  ASSUME Typed, Applied, Onward, UNCHANGED <<creditNote, alloc>>,
         \A p \in Payments : payment'[p].status = "NONE" => payment[p].status = "NONE",
         \A q \in Requests : request'[q].op = "draft" =>
           request'[q] = request[q] \/ invoice[request'[q].invoice].status # "DRAFT",
         \A q \in Requests : request'[q].op = "draft" => request'[q].invoice \in Invoices
  PROVE  Applied'
<1>1. \A c \in CreditNotes : creditNote[c].status # "NONE" => creditNote[c].invoice \in Invoices
  BY DEF Typed, Linked
<1>2. \A c \in CreditNotes : creditNote'[c].status # "NONE" =>
        creditNote'[c].total > 0 /\ invoice'[creditNote'[c].invoice].status # "DRAFT"
  BY <1>1 DEF Applied, Onward
<1>3. \A q \in Requests : request'[q].op = "draft" => invoice'[request'[q].invoice].status # "DRAFT"
  BY DEF Applied, Onward
<1>4. \A p \in Payments, i \in Invoices :
        alloc'[p][i] >= 0 /\ (payment'[p].status = "NONE" => alloc'[p][i] = 0)
  BY DEF Applied
<1>. QED BY <1>2, <1>3, <1>4 DEF Applied

\* What newly happens leaves its key.
LEMMA KeyedKept ==
  ASSUME Keyed, posted \subseteq posted', outbox \subseteq outbox',
         \A i \in Invoices : invoice'[i].status # "DRAFT" =>
           invoice[i].status # "DRAFT" \/ <<"invoice", i>> \in posted',
         \A c \in CreditNotes : creditNote'[c].status = "POSTED" =>
           creditNote[c].status = "POSTED" \/ <<"credit", c>> \in posted',
         \A p \in Payments : payment'[p].status = "SETTLED" =>
           payment[p].status = "SETTLED" \/ <<"payment", p>> \in outbox'
  PROVE  Keyed'
BY DEF Keyed

\* The requests that draft a credit note do so for an invoice of the table.
LEMMA DraftsTyped ==
  ASSUME TypeOK
  PROVE  /\ \A q \in Requests : request[q].op = "draft" => request[q].invoice \in Invoices
         /\ \A q \in Requests : request[q].op = "reverse" =>
              request[q].payment \in Payments /\ request[q].balance \in [Invoices -> Int]
BY DEF TypeOK, RequestStates, Idle

\* A request that ends leaves the others as they are.
LEMMA OthersStay ==
  ASSUME TypeOK, NEW q \in Requests, End(q)
  PROVE  \A k \in Requests : request'[k] = request[k] \/ request'[k] = Idle
BY DEF End, TypeOK

\* An invoice posted for the first time owes its total.
LEMMA PostInvoiceSound ==
  ASSUME Typed, Typed', AllSound, Applied, Keyed, NEW i \in Invoices, NEW q \in Requests,
         PostInvoiceWrite(q, i)
  PROVE  AllSound' /\ Onward
<1>1. TypeOK /\ Sound(i)
  BY DEF Typed, AllSound
<1>2. invoice[i].status = "DRAFT"
  BY DEF PostInvoiceWrite, PostJournal, Keyed
<1>3. /\ invoice'[i] = [status |-> "POSTED", total |-> invoice[i].total, balance |-> invoice[i].total]
      /\ \A j \in Invoices \ {i} : invoice'[j] = invoice[j]
      /\ UNCHANGED <<creditNote, alloc>>
  BY <1>1 DEF PostInvoiceWrite, TypeOK
<1>4. ASSUME NEW j \in Invoices PROVE Sound(j)'
  <2>1. Credited(j)' = Credited(j) /\ Collected(j)' = Collected(j)
    BY <1>3, CreditedSame DEF Collected
  <2>2. CASE j = i
    BY <1>1, <1>2, <1>3, <2>1, <2>2 DEF Sound, TypeOK, InvoiceRow
  <2>3. CASE j # i
    BY <1>3, <2>1, <2>3 DEF Sound, AllSound
  <2>. QED BY <2>2, <2>3
<1>. QED BY <1>2, <1>3, <1>4 DEF AllSound, Onward

\* Nothing is collected or credited on an invoice that owes its total.
LEMMA VoidSound ==
  ASSUME Typed, Typed', AllSound, Applied, NEW i \in Invoices, VoidInvoice(i)
  PROVE  AllSound' /\ Onward /\ NoneIssued
<1>1. TypeOK /\ Sound(i) /\ invoice[i].status = "POSTED"
  BY DEF Typed, AllSound, VoidInvoice, Voidable
<1>2. /\ invoice'[i] = [status |-> "VOID", total |-> invoice[i].total, balance |-> 0]
      /\ \A j \in Invoices \ {i} : invoice'[j] = invoice[j]
      /\ UNCHANGED <<creditNote, alloc>>
  BY <1>1 DEF VoidInvoice, TypeOK
<1>3. Collected(i) \in Nat /\ Credited(i) \in Nat
      /\ invoice[i].total \in Nat /\ invoice[i].balance \in Int
  <2>1. \A k \in Payments : alloc[k][i] >= 0
    BY DEF Applied
  <2>. QED BY <1>1, <2>1, CollectedType, CreditedType DEF TypeOK, InvoiceRow
<1>4. Collected(i) = 0 /\ Credited(i) = 0
  BY <1>1, <1>3 DEF Sound
<1>5. ASSUME NEW j \in Invoices PROVE Sound(j)'
  <2>1. Credited(j)' = Credited(j) /\ Collected(j)' = Collected(j)
    BY <1>2, CreditedSame DEF Collected
  <2>2. CASE j = i
    BY <1>2, <1>4, <2>1, <2>2 DEF Sound
  <2>3. CASE j # i
    BY <1>2, <2>1, <2>3 DEF Sound, AllSound
  <2>. QED BY <2>2, <2>3
<1>. QED BY <1>1, <1>2, <1>5 DEF AllSound, Onward, NoneIssued

\* A credit note fits the balance, so its invoice is open.
LEMMA PostCreditNoteSound ==
  ASSUME Typed, Typed', AllSound, Applied, Keyed, NEW c \in CreditNotes, NEW q \in Requests,
         PostCreditNoteWrite(q, c)
  PROVE  AllSound' /\ Onward /\ NoneIssued
<1>1. /\ TypeOK /\ TypeOK' /\ request[q] = Crediting(c) /\ <<"credit", c>> \notin posted
      /\ creditNote[c].total <= invoice[creditNote[c].invoice].balance
  BY DEF Typed, PostCreditNoteWrite, PostJournal
<1>2. creditNote[c].status = "DRAFT"
  <2>1. creditNote[c].status # "NONE"
    BY <1>1 DEF Typed, Linked, Crediting
  <2>2. creditNote[c].status # "POSTED"
    BY <1>1 DEF Keyed
  <2>. QED BY <1>1, <2>1, <2>2 DEF TypeOK, CreditNoteRow
<1>a. creditNote[c].invoice \in Invoices /\ creditNote[c].total \in Nat
  BY <1>1, <1>2 DEF Typed, Linked, TypeOK, CreditNoteRow
<1>b. PICK i \in Invoices, x \in Nat : i = creditNote[c].invoice /\ x = creditNote[c].total
  BY <1>a
<1>3. x > 0 /\ x <= invoice[i].balance /\ invoice[i].status # "DRAFT"
  BY <1>1, <1>2, <1>b DEF Applied
<1>4. /\ invoice' = [invoice EXCEPT ![i] = [status |-> ReducedStatus(invoice[i].balance - x),
                                            total |-> invoice[i].total,
                                            balance |-> invoice[i].balance - x]]
      /\ creditNote' = [creditNote EXCEPT ![c] = [creditNote[c] EXCEPT !.status = "POSTED"]]
      /\ UNCHANGED alloc
  BY <1>1, <1>b DEF PostCreditNoteWrite, TypeOK
<1>5. /\ creditNote'[c].status = "POSTED" /\ creditNote'[c].invoice = i
      /\ creditNote'[c].total = x
      /\ \A k \in CreditNotes \ {c} : creditNote'[k] = creditNote[k]
  BY <1>1, <1>4, <1>b DEF TypeOK, CreditNoteRow
<1>6. /\ invoice'[i].total = invoice[i].total /\ invoice'[i].balance = invoice[i].balance - x
      /\ invoice'[i].status = ReducedStatus(invoice[i].balance - x)
      /\ \A j \in Invoices \ {i} : invoice'[j] = invoice[j]
  BY <1>1, <1>4 DEF TypeOK
<1>7. ASSUME NEW j \in Invoices
      PROVE  /\ Credited(j)' = Credited(j) + (IF i = j THEN x ELSE 0)
             /\ Collected(j)' = Collected(j) /\ Collected(j) \in Nat /\ Credited(j) \in Nat
             /\ invoice[j].total \in Nat /\ invoice[j].balance \in Int /\ Sound(j)
  <2>1. Credited(j)' = Credited(j) + (IF i = j THEN x ELSE 0)
    BY <1>1, <1>2, <1>5, <1>b, CreditedMoves
  <2>2. \A k \in Payments : alloc[k][j] >= 0
    BY DEF Applied
  <2>3. Collected(j) \in Nat /\ Credited(j) \in Nat /\ Collected(j)' = Collected(j)
    BY <1>1, <1>4, <2>2, CollectedType, CreditedType DEF Collected
  <2>. QED BY <1>1, <2>1, <2>3 DEF TypeOK, InvoiceRow, AllSound
<1>8. ASSUME NEW j \in Invoices, j # i PROVE Sound(j)' /\ invoice'[j] = invoice[j]
  <2>1. invoice'[j] = invoice[j] /\ Collected(j)' = Collected(j) /\ Sound(j)
    BY <1>6, <1>7, <1>8
  <2>2. Credited(j)' = Credited(j)
    <3>1. Credited(j)' = Credited(j) + 0 /\ Credited(j) \in Nat
      BY <1>7, <1>8
    <3>. QED BY <3>1
  <2>. QED BY <2>1, <2>2 DEF Sound
<1>9. invoice[i].status \in {"POSTED", "PARTIALLY_PAID"}
  <2>1. invoice[i].status \notin {"VOID", "PAID"}
    BY <1>3, <1>7 DEF Sound
  <2>. QED BY <1>1, <1>3, <2>1 DEF TypeOK, InvoiceRow
<1>10. Sound(i)'
  <2>1. Credited(i)' = Credited(i) + x /\ Collected(i)' = Collected(i)
    BY <1>7
  <2>2. invoice[i].total = invoice[i].balance + Collected(i) + Credited(i)
    BY <1>7, <1>9 DEF Sound
  <2>3. /\ Collected(i) \in Nat /\ Credited(i) \in Nat
        /\ invoice[i].total \in Nat /\ invoice[i].balance \in Int
    BY <1>7
  <2>. QED BY <1>3, <1>6, <2>1, <2>2, <2>3 DEF Sound, ReducedStatus
<1>11. invoice'[i].status # "DRAFT"
  BY <1>6 DEF ReducedStatus
<1>. QED BY <1>8, <1>9, <1>10, <1>11 DEF AllSound, Onward, NoneIssued

\* A recorded payment takes its lines off balances that hold them.
LEMMA SettleSound ==
  ASSUME Typed, Typed', AllSound, Applied, NEW p \in Payments, NEW x \in Amounts,
         NEW a \in [Invoices -> 0..MaxAmount], Settle(p, x, a)
  PROVE  AllSound' /\ Onward /\ NoneIssued
<1>1. TypeOK /\ a \in [Invoices -> Int] /\ \A i \in Invoices : a[i] >= 0
  BY SizesAssumption DEF Typed
<1>2. \A i \in Invoices : alloc[p][i] = 0
  BY DEF Settle, Applied
<1>3. /\ \A i \in Invoices : alloc'[p][i] = a[i]
      /\ \A k \in Payments \ {p} : alloc'[k] = alloc[k]
      /\ \A i \in Invoices : a[i] > 0 => Collectable(i) /\ a[i] <= invoice[i].balance
      /\ \A i \in Invoices : a[i] = 0 => invoice'[i] = invoice[i]
      /\ \A i \in Invoices : a[i] # 0 =>
           /\ invoice'[i].status = ReducedStatus(invoice[i].balance - a[i])
           /\ invoice'[i].total = invoice[i].total
           /\ invoice'[i].balance = invoice[i].balance - a[i]
      /\ UNCHANGED creditNote
  BY <1>1 DEF Settle, AllocationAllowed, ApplyAllocations, TypeOK
<1>4. \A i \in Invoices : alloc'[p][i] = alloc[p][i] + a[i] /\ alloc[p][i] + a[i] >= 0
  BY <1>1, <1>2, <1>3
<1>5. \A i \in Invoices : ~(a[i] < 0) /\ (a[i] > 0 => a[i] # 0)
  BY <1>1
<1>. QED BY <1>1, <1>3, <1>4, <1>5, AllocationsMove

\* So does an allocation, on top of what the payment already gave.
LEMMA AllocateSound ==
  ASSUME Typed, Typed', AllSound, Applied, NEW p \in Payments,
         NEW a \in [Invoices -> 0..MaxAmount], Allocate(p, a)
  PROVE  AllSound' /\ Onward /\ NoneIssued
<1>1. TypeOK /\ a \in [Invoices -> Int] /\ \A i \in Invoices : a[i] >= 0
  BY SizesAssumption DEF Typed
<1>2. \A i \in Invoices : alloc[p][i] >= 0 /\ alloc[p][i] \in Int
  BY <1>1 DEF Applied, TypeOK
<1>3. /\ \A i \in Invoices : alloc'[p][i] = alloc[p][i] + a[i]
      /\ \A k \in Payments \ {p} : alloc'[k] = alloc[k]
      /\ \A i \in Invoices : a[i] > 0 => Collectable(i) /\ a[i] <= invoice[i].balance
      /\ \A i \in Invoices : a[i] = 0 => invoice'[i] = invoice[i]
      /\ \A i \in Invoices : a[i] # 0 =>
           /\ invoice'[i].status = ReducedStatus(invoice[i].balance - a[i])
           /\ invoice'[i].total = invoice[i].total
           /\ invoice'[i].balance = invoice[i].balance - a[i]
      /\ UNCHANGED creditNote
  BY <1>1 DEF Allocate, AllocationAllowed, ApplyAllocations, TypeOK
<1>4. \A i \in Invoices : alloc[p][i] + a[i] >= 0
  BY <1>1, <1>2
<1>5. \A i \in Invoices : ~(a[i] < 0) /\ (a[i] > 0 => a[i] # 0)
  BY <1>1
<1>. QED BY <1>1, <1>3, <1>4, <1>5, AllocationsMove

\* A refund gives back at most what the payment's allocations hold.
LEMMA RefundSound ==
  ASSUME Typed, Typed', AllSound, Applied, NEW r \in Refunds, NEW u \in Users, ExecuteRefund(r, u)
  PROVE  AllSound' /\ Onward /\ NoneIssued /\ \E p \in Payments :
           /\ p = refund[r].payment
           /\ \A i \in Invoices : alloc'[p][i] >= 0
           /\ \A k \in Payments \ {p} : alloc'[k] = alloc[k]
<1>1. TypeOK /\ refund[r].status = "APPROVED"
  BY DEF Typed, ExecuteRefund, MayExecute
<1>2. refund[r].payment \in Payments
  BY <1>1 DEF Typed, Linked
<1>3. PICK p \in Payments : p = refund[r].payment
  BY <1>2
<1>4. \A i \in Invoices : alloc[p][i] \in Nat
  BY <1>1 DEF Applied, TypeOK
<1>5. PICK x \in Nat : x = refund[r].amount - Least(payment[p].unallocated, refund[r].amount)
  BY <1>1 DEF TypeOK, PaymentRow, RefundRow, Least
<1>6. alloc[p] \in [Invoices -> Nat]
  BY <1>1, <1>4 DEF TypeOK
<1>7. PICK g \in [Invoices -> Nat] : g = Given(alloc[p], x) /\ \A i \in Invoices : g[i] <= alloc[p][i]
  <2>1. \A i \in Invoices : 0 <= Given(alloc[p], x)[i] /\ Given(alloc[p], x)[i] <= alloc[p][i]
    BY <1>6, GivenBounds
  <2>2. Given(alloc[p], x) \in [Invoices -> Int]
    BY <1>6, GivenType
  <2>3. Given(alloc[p], x) \in [Invoices -> Nat]
    <3>. DEFINE h == Given(alloc[p], x)
    <3>1. h \in [Invoices -> Int] /\ \A i \in Invoices : 0 <= h[i]
      BY <2>1, <2>2
    <3>. HIDE DEF h
    <3>2. h \in [Invoices -> Nat]
      BY <3>1
    <3>. QED BY <3>2 DEF h
  <2>. QED BY <2>1, <2>3
<1>8. /\ alloc' = [alloc EXCEPT ![p] = [i \in Invoices |-> alloc[p][i] - g[i]]]
      /\ invoice' = [i \in Invoices |->
           IF g[i] = 0 THEN invoice[i]
           ELSE [status |-> RestoredStatus(invoice[i].balance + g[i], invoice[i].total),
                 total |-> invoice[i].total, balance |-> invoice[i].balance + g[i]]]
      /\ UNCHANGED creditNote /\ payment[p].status # "NONE"
  BY <1>3, <1>5, <1>7 DEF ExecuteRefund, AllocationsAfterRefund
<1>. DEFINE d == [i \in Invoices |-> -g[i]]
<1>9. d \in [Invoices -> Int] /\ \A i \in Invoices : d[i] = -g[i] /\ g[i] \in Nat
  OBVIOUS
<1>. HIDE DEF d
<1>10. \A i \in Invoices :
         /\ alloc'[p][i] = alloc[p][i] - g[i] /\ alloc[p][i] \in Nat /\ g[i] <= alloc[p][i]
         /\ g[i] \in Nat /\ invoice[i].balance \in Int
         /\ g[i] = 0 => invoice'[i] = invoice[i]
         /\ g[i] # 0 =>
              /\ invoice'[i].status = RestoredStatus(invoice[i].balance + g[i], invoice[i].total)
              /\ invoice'[i].total = invoice[i].total
              /\ invoice'[i].balance = invoice[i].balance + g[i]
  BY <1>1, <1>4, <1>7, <1>8 DEF TypeOK, InvoiceRow
<1>11. \A k \in Payments \ {p} : alloc'[k] = alloc[k]
  BY <1>1, <1>8 DEF TypeOK
<1>12. \A i \in Invoices :
         /\ alloc'[p][i] = alloc[p][i] + d[i] /\ alloc[p][i] + d[i] >= 0
         /\ ~(d[i] > 0) /\ (d[i] = 0 <=> g[i] = 0) /\ (d[i] < 0 => g[i] # 0)
         /\ invoice[i].balance - d[i] = invoice[i].balance + g[i]
  BY <1>9, <1>10
<1>13. AllSound' /\ Onward /\ NoneIssued
  BY <1>8, <1>9, <1>10, <1>11, <1>12, AllocationsMove
<1>. QED BY <1>3, <1>10, <1>11, <1>12, <1>13

\* A reversal that commits gives back, on top of balances still current,
\* what the payment's allocations hold.
LEMMA ReverseSound ==
  ASSUME Typed, Typed', AllSound, Applied, ReversalsCurrent, NEW p \in Payments,
         NEW q \in Requests, ReversePaymentWrite(q, p)
  PROVE  AllSound' /\ Onward /\ NoneIssued
<1>1. /\ TypeOK /\ request[q].op = "reverse" /\ request[q].payment = p
      /\ OutboxAccepts(<<"payment", p>>)
  BY DEF Typed, ReversePaymentWrite
<1>2. Serial /\ \A i \in Invoices : request[q].balance[i] = invoice[i].balance
  BY <1>1 DEF ReversalsCurrent, OutboxAccepts
<1>3. \A i \in Invoices : alloc[p][i] \in Nat
  BY <1>1 DEF Applied, TypeOK
<1>4. /\ alloc' = [alloc EXCEPT ![p] = NoAllocation]
      /\ invoice' = [i \in Invoices |->
           IF alloc[p][i] = 0 THEN invoice[i]
           ELSE [status |-> RestoredStatus(invoice[i].balance + alloc[p][i], invoice[i].total),
                 total |-> invoice[i].total, balance |-> invoice[i].balance + alloc[p][i]]]
      /\ UNCHANGED creditNote
  BY <1>2 DEF ReversePaymentWrite
<1>5. PICK g \in [Invoices -> Nat] : \A i \in Invoices : g[i] = alloc[p][i]
  <2>1. [i \in Invoices |-> alloc[p][i]] \in [Invoices -> Nat]
    BY <1>3
  <2>. QED BY <2>1
<1>. DEFINE d == [i \in Invoices |-> -g[i]]
<1>6. d \in [Invoices -> Int] /\ \A i \in Invoices : d[i] = -g[i] /\ g[i] \in Nat
  OBVIOUS
<1>. HIDE DEF d
<1>7. \A i \in Invoices :
         /\ alloc'[p][i] = 0 /\ alloc[p][i] = g[i] /\ g[i] \in Nat /\ invoice[i].balance \in Int
         /\ g[i] = 0 => invoice'[i] = invoice[i]
         /\ g[i] # 0 =>
              /\ invoice'[i].status = RestoredStatus(invoice[i].balance + g[i], invoice[i].total)
              /\ invoice'[i].total = invoice[i].total
              /\ invoice'[i].balance = invoice[i].balance + g[i]
  BY <1>1, <1>4, <1>5 DEF TypeOK, InvoiceRow, NoAllocation
<1>8. \A k \in Payments \ {p} : alloc'[k] = alloc[k]
  BY <1>1, <1>4 DEF TypeOK
<1>9. \A i \in Invoices :
         /\ alloc'[p][i] = alloc[p][i] + d[i] /\ alloc[p][i] + d[i] >= 0
         /\ ~(d[i] > 0) /\ (d[i] = 0 <=> g[i] = 0) /\ (d[i] < 0 => g[i] # 0)
         /\ invoice[i].balance - d[i] = invoice[i].balance + g[i]
  BY <1>6, <1>7
<1>. QED BY <1>2, <1>4, <1>6, <1>7, <1>8, <1>9, AllocationsMove

\* The conditions under which the other parts are kept.
LEMMA DraftsFollow ==
  ASSUME TypeOK, request' = request \/ \E q \in Requests : End(q)
  PROVE  \A k \in Requests : request'[k].op = "draft" =>
           request'[k] = request[k] /\ request[k].invoice \in Invoices
<1>1. CASE request' = request
  BY <1>1, DraftsTyped
<1>2. ASSUME NEW q \in Requests, End(q)
      PROVE  \A k \in Requests : request'[k].op = "draft" =>
               request'[k] = request[k] /\ request[k].invoice \in Invoices
  BY <1>2, DraftsTyped, OthersStay DEF Idle
<1>. QED BY <1>1, <1>2

\* A step that reads and opens a transaction.
LEMMA ReadKeeps ==
  ASSUME InvoiceInv, Typed', NEW q \in Requests, NEW what, Begin(q, what),
         what.op = "draft" => what.invoice \in Invoices /\ invoice[what.invoice].status # "DRAFT",
         what.op = "reverse" =>
           \/ ~SequencedOutbox /\ <<"payment", what.payment>> \in outbox
           \/ Serial /\ \A i \in Invoices : what.balance[i] = invoice[i].balance
  PROVE  InvoiceInv' /\ Onward
<1>1. TypeOK /\ UNCHANGED <<invoice, creditNote, payment, alloc, refund, ledger, posted, outbox>>
  BY DEF InvoiceInv, Typed, Begin
<1>2. AllSound' /\ Onward /\ NoneIssued
  BY <1>1, NothingMoves DEF InvoiceInv
<1>3. request'[q] = what /\ \A k \in Requests \ {q} : request'[k] = request[k]
  BY <1>1 DEF Begin, TypeOK
<1>4. Applied'
  <2>1. \A k \in Requests : request'[k].op = "draft" =>
          /\ request'[k].invoice \in Invoices
          /\ request'[k] = request[k] \/ invoice[request'[k].invoice].status # "DRAFT"
    BY <1>1, <1>3, DraftsTyped
  <2>. QED BY <1>1, <1>2, <2>1, AppliedKept DEF InvoiceInv
<1>5. Keyed'
  BY <1>1 DEF InvoiceInv, Keyed
<1>6. Alone' /\ ReversalsCurrent'
  BY <1>1, RequestBegins DEF InvoiceInv
<1>. QED BY <1>2, <1>4, <1>5, <1>6 DEF InvoiceInv

\* A step that writes invoices, under the conditions of the lemmas above.
LEMMA WriteKeeps ==
  ASSUME InvoiceInv, Typed', AllSound', Onward, Keyed', UNCHANGED <<creditNote, alloc>>,
         outbox \subseteq outbox',
         \A p \in Payments : payment'[p].status = "NONE" => payment[p].status = "NONE",
         \/ request' = request /\ (invoice' = invoice \/ MayStart)
         \/ \E q \in Requests : request[q] # Idle /\ End(q)
  PROVE  InvoiceInv'
<1>1. Typed /\ TypeOK /\ Applied /\ Alone /\ ReversalsCurrent
  BY DEF InvoiceInv, Typed
<1>2. \A k \in Requests : request'[k].op = "draft" =>
        request'[k] = request[k] /\ request[k].invoice \in Invoices
  BY <1>1, DraftsFollow
<1>3. Applied'
  BY <1>1, <1>2, AppliedKept
<1>4. Alone' /\ ReversalsCurrent'
  BY <1>1, RequestsKept
<1>. QED BY <1>3, <1>4 DEF InvoiceInv

\* A step that neither writes invoices nor payments' statuses.
LEMMA QuietKeeps ==
  ASSUME InvoiceInv, Typed', UNCHANGED <<invoice, creditNote, alloc, payment, outbox>>,
         posted \subseteq posted',
         request' = request \/ \E q \in Requests : request[q] # Idle /\ End(q)
  PROVE  InvoiceInv' /\ Onward
<1>1. AllSound' /\ Onward /\ NoneIssued
  BY NothingMoves DEF InvoiceInv
<1>2. Keyed'
  BY DEF InvoiceInv, Keyed
<1>. QED BY <1>1, <1>2, WriteKeeps

\* A step that writes the allocations of payment p.
LEMMA AllocationKeeps ==
  ASSUME InvoiceInv, Typed', AllSound', Onward, NoneIssued, UNCHANGED creditNote,
         NEW p \in Payments, payment'[p].status # "NONE",
         payment'[p].status = "SETTLED" =>
           payment[p].status = "SETTLED" \/ <<"payment", p>> \in outbox',
         \A i \in Invoices : alloc'[p][i] >= 0,
         \A k \in Payments \ {p} : alloc'[k] = alloc[k] /\ payment'[k] = payment[k],
         outbox \subseteq outbox', posted \subseteq posted',
         \/ request' = request /\ MayStart
         \/ \E q \in Requests : request[q] # Idle /\ End(q)
  PROVE  InvoiceInv'
<1>1. Typed /\ TypeOK /\ Applied /\ Keyed /\ Alone /\ ReversalsCurrent
  BY DEF InvoiceInv, Typed
<1>2. \A k \in Requests : request'[k].op = "draft" =>
        request'[k] = request[k] /\ request[k].invoice \in Invoices
  BY <1>1, DraftsFollow
<1>3. Applied'
  <2>1. \A c \in CreditNotes : creditNote[c].status # "NONE" => creditNote[c].invoice \in Invoices
    BY <1>1 DEF Typed, Linked
  <2>2. \A c \in CreditNotes : creditNote'[c].status # "NONE" =>
          creditNote'[c].total > 0 /\ invoice'[creditNote'[c].invoice].status # "DRAFT"
    BY <1>1, <2>1 DEF Applied, Onward
  <2>3. \A k \in Requests : request'[k].op = "draft" => invoice'[request'[k].invoice].status # "DRAFT"
    BY <1>1, <1>2 DEF Applied, Onward
  <2>4. \A k \in Payments, i \in Invoices :
          alloc'[k][i] >= 0 /\ (payment'[k].status = "NONE" => alloc'[k][i] = 0)
    BY <1>1 DEF Applied
  <2>. QED BY <2>2, <2>3, <2>4 DEF Applied
<1>4. Keyed'
  BY <1>1, KeyedKept DEF NoneIssued
<1>5. Alone' /\ ReversalsCurrent'
  BY <1>1, RequestsKept
<1>. QED BY <1>3, <1>4, <1>5 DEF InvoiceInv

\* Drafts owe their totals and nothing has happened.
LEMMA InvoiceInit == Init => InvoiceInv
<1>. SUFFICES ASSUME Init PROVE InvoiceInv
  OBVIOUS
<1>1. Typed /\ TypeOK
  BY TypedInit DEF Typed
<1>2. ASSUME NEW i \in Invoices PROVE Sound(i)
  <2>1. /\ NumPayments \in Nat /\ Payments = 1..NumPayments
        /\ NumCreditNotes \in Nat /\ CreditNotes = 1..NumCreditNotes
    BY SizesAssumption DEF Payments, CreditNotes
  <2>2. [p \in Payments |-> alloc[p][i]] = [k \in 1..NumPayments |-> 0]
    BY <2>1 DEF Init
  <2>3. [c \in CreditNotes |-> IF creditNote[c].invoice = i /\ creditNote[c].status = "POSTED"
                               THEN creditNote[c].total ELSE 0]
        = [k \in 1..NumCreditNotes |-> 0]
    BY <2>1 DEF Init
  <2>4. Collected(i) = 0 /\ Credited(i) = 0
    BY <2>1, <2>2, <2>3, TotalZero DEF Collected, Credited
  <2>5. PICK t \in [Invoices -> Amounts] :
          invoice = [j \in Invoices |-> [status |-> "DRAFT", total |-> t[j], balance |-> t[j]]]
    BY DEF Init
  <2>6. invoice[i].status = "DRAFT" /\ invoice[i].total = t[i] /\ invoice[i].balance = t[i]
        /\ t[i] \in Nat
    BY <2>5 DEF Amounts
  <2>. QED BY <2>4, <2>6 DEF Sound
<1>3. Applied
  BY DEF Init, Applied, Idle
<1>4. Keyed
  <2>1. \A i \in Invoices : invoice[i].status = "DRAFT"
    BY DEF Init
  <2>. QED BY <2>1 DEF Init, Keyed
<1>5. Alone /\ ReversalsCurrent
  BY DEF Init, Alone, ReversalsCurrent, Idle
<1>. QED BY <1>1, <1>2, <1>3, <1>4, <1>5 DEF InvoiceInv, AllSound

\* Every step keeps the invariant and moves invoices onward.
LEMMA InvoiceStep ==
  ASSUME Serial \/ ~SequencedOutbox, InvoiceInv, [Next]_vars
  PROVE  InvoiceInv' /\ Onward
<1>a. /\ Typed /\ Typed' /\ TypeOK /\ TypeOK' /\ AllSound /\ Applied /\ Keyed
      /\ Alone /\ ReversalsCurrent
  BY TypedStep DEF InvoiceInv, Typed
<1>1. ASSUME NEW i \in Invoices, VoidInvoice(i) PROVE InvoiceInv' /\ Onward
  <2>1. AllSound' /\ Onward /\ NoneIssued
    BY <1>1, <1>a, VoidSound
  <2>2. /\ UNCHANGED <<creditNote, payment, alloc, outbox, request>> /\ MayStart
        /\ posted \subseteq posted'
    BY <1>1 DEF VoidInvoice, PostJournal
  <2>3. Keyed'
    BY <1>a, <2>1, <2>2 DEF Keyed, NoneIssued
  <2>. QED BY <1>a, <2>1, <2>2, <2>3, WriteKeeps
<1>2. ASSUME NEW i \in Invoices, NEW q \in Requests, PostInvoiceRead(q, i)
      PROVE  InvoiceInv' /\ Onward
  BY <1>2, <1>a, ReadKeeps DEF PostInvoiceRead, Posting
<1>3. ASSUME NEW i \in Invoices, NEW q \in Requests, PostInvoiceWrite(q, i)
      PROVE  InvoiceInv' /\ Onward
  <2>1. AllSound' /\ Onward
    BY <1>3, <1>a, PostInvoiceSound
  <2>2. /\ UNCHANGED <<creditNote, payment, alloc>> /\ End(q) /\ request[q] # Idle
        /\ posted' = posted \cup {<<"invoice", i>>} /\ outbox \subseteq outbox'
        /\ \A j \in Invoices \ {i} : invoice'[j] = invoice[j]
    BY <1>3, <1>a DEF PostInvoiceWrite, PostJournal, Posting, Idle, TypeOK
  <2>3. Keyed'
    BY <1>a, <2>2, KeyedKept
  <2>. QED BY <1>a, <2>1, <2>2, <2>3, WriteKeeps
<1>4. ASSUME NEW q \in Requests, NEW i \in Invoices, NEW x \in Amounts, CreateCreditNoteRead(q, i, x)
      PROVE  InvoiceInv' /\ Onward
  BY <1>4, <1>a, ReadKeeps DEF CreateCreditNoteRead, Drafting, Collectable
<1>5. ASSUME NEW q \in Requests, NEW c \in CreditNotes, NEW i \in Invoices, NEW x \in Amounts,
             CreateCreditNoteWrite(q, c, i, x)
      PROVE  InvoiceInv' /\ Onward
  <2>1. /\ request[q] = Drafting(i, x) /\ creditNote[c].status = "NONE"
        /\ creditNote' = [creditNote EXCEPT ![c] = [status |-> "DRAFT", invoice |-> i, total |-> x]]
        /\ End(q) /\ UNCHANGED <<invoice, payment, alloc, posted, outbox>>
    BY <1>5 DEF CreateCreditNoteWrite
  <2>2. /\ creditNote'[c] = [status |-> "DRAFT", invoice |-> i, total |-> x]
        /\ \A k \in CreditNotes \ {c} : creditNote'[k] = creditNote[k]
    BY <1>a, <2>1 DEF TypeOK
  <2>3. \A k \in CreditNotes : creditNote'[k] = creditNote[k] \/
          (creditNote[k].status # "POSTED" /\ creditNote'[k].status # "POSTED")
    BY <2>1, <2>2
  <2>4. AllSound' /\ Onward
    BY <1>a, <2>1, <2>3, NothingMoves
  <2>5. Keyed'
    BY <1>a, <2>1, <2>3 DEF Keyed
  <2>6. x > 0 /\ invoice[i].status # "DRAFT"
    BY <1>a, <2>1 DEF Applied, Drafting, Amounts
  <2>7. Applied'
    <3>1. \A k \in CreditNotes : creditNote'[k].status # "NONE" =>
            creditNote'[k].total > 0 /\ invoice'[creditNote'[k].invoice].status # "DRAFT"
      BY <1>a, <2>1, <2>2, <2>6 DEF Applied
    <3>2. \A k \in Requests : request'[k].op = "draft" => request'[k] = request[k]
      BY <1>a, <2>1, DraftsFollow
    <3>. QED BY <1>a, <2>1, <3>1, <3>2 DEF Applied
  <2>8. request[q] # Idle
    BY <2>1 DEF Drafting, Idle
  <2>9. Alone' /\ ReversalsCurrent'
    BY <1>a, <2>1, <2>8, RequestsKept
  <2>. QED BY <1>a, <2>4, <2>5, <2>7, <2>9 DEF InvoiceInv
<1>6. ASSUME NEW q \in Requests, NEW c \in CreditNotes, PostCreditNoteRead(q, c)
      PROVE  InvoiceInv' /\ Onward
  BY <1>6, <1>a, ReadKeeps DEF PostCreditNoteRead, Crediting
<1>7. ASSUME NEW q \in Requests, NEW c \in CreditNotes, PostCreditNoteWrite(q, c)
      PROVE  InvoiceInv' /\ Onward
  <2>1. AllSound' /\ Onward /\ NoneIssued
    BY <1>7, <1>a, PostCreditNoteSound
  <2>2. /\ request[q] = Crediting(c) /\ posted' = posted \cup {<<"credit", c>>}
        /\ End(q) /\ UNCHANGED <<payment, alloc, outbox>>
        /\ creditNote' = [creditNote EXCEPT ![c] = [creditNote[c] EXCEPT !.status = "POSTED"]]
    BY <1>7, <1>a DEF PostCreditNoteWrite, PostJournal, TypeOK
  <2>3. creditNote[c].status # "NONE" /\ request[q] # Idle
    BY <1>a, <2>2 DEF Typed, Linked, Crediting, Idle
  <2>4. /\ creditNote'[c].invoice = creditNote[c].invoice
        /\ creditNote'[c].total = creditNote[c].total
        /\ \A k \in CreditNotes \ {c} : creditNote'[k] = creditNote[k]
    BY <1>a, <2>2 DEF TypeOK, CreditNoteRow
  <2>5. Keyed'
    BY <1>a, <2>1, <2>2, <2>4, KeyedKept DEF NoneIssued
  <2>6. Applied'
    <3>1. \A k \in CreditNotes : creditNote[k].status # "NONE" =>
            creditNote[k].invoice \in Invoices /\ creditNote[k].total > 0
            /\ invoice[creditNote[k].invoice].status # "DRAFT"
      BY <1>a DEF Typed, Linked, Applied
    <3>2. \A k \in CreditNotes : creditNote'[k].status # "NONE" =>
            creditNote'[k].total > 0 /\ invoice'[creditNote'[k].invoice].status # "DRAFT"
      BY <2>1, <2>3, <2>4, <3>1 DEF Onward
    <3>3. \A k \in Requests : request'[k].op = "draft" =>
            request'[k] = request[k] /\ request[k].invoice \in Invoices
      BY <1>a, <2>2, DraftsFollow
    <3>4. \A k \in Requests : request'[k].op = "draft" => invoice'[request'[k].invoice].status # "DRAFT"
      BY <1>a, <2>1, <3>3 DEF Applied, Onward
    <3>. QED BY <1>a, <2>2, <3>2, <3>4 DEF Applied
  <2>7. Alone' /\ ReversalsCurrent'
    BY <1>a, <2>2, <2>3, RequestsKept
  <2>. QED BY <1>a, <2>1, <2>5, <2>6, <2>7 DEF InvoiceInv
<1>8. ASSUME NEW p \in Payments, NEW x \in Amounts, NEW a \in [Invoices -> 0..MaxAmount],
             MayStart, Settle(p, x, a)
      PROVE  InvoiceInv' /\ Onward
  <2>1. AllSound' /\ Onward /\ NoneIssued
    BY <1>8, <1>a, SettleSound
  <2>2. /\ UNCHANGED <<creditNote, request>> /\ posted \subseteq posted'
        /\ outbox' = outbox \cup {<<"payment", p>>} /\ payment'[p].status = "SETTLED"
        /\ alloc'[p] = a
        /\ \A k \in Payments \ {p} : alloc'[k] = alloc[k] /\ payment'[k] = payment[k]
    BY <1>8, <1>a DEF Settle, PostJournal, TypeOK
  <2>3. \A i \in Invoices : alloc'[p][i] >= 0
    BY <2>2, SizesAssumption
  <2>. QED BY <1>8, <1>a, <2>1, <2>2, <2>3, AllocationKeeps
<1>9. ASSUME NEW p \in Payments, NEW a \in [Invoices -> 0..MaxAmount], Allocate(p, a)
      PROVE  InvoiceInv' /\ Onward
  <2>1. AllSound' /\ Onward /\ NoneIssued
    BY <1>9, <1>a, AllocateSound
  <2>2. /\ UNCHANGED <<creditNote, request, posted>> /\ MayStart /\ payment[p].status = "SETTLED"
        /\ outbox' = outbox \cup {<<"payment", p>>}
        /\ payment' = [payment EXCEPT ![p] =
             [payment[p] EXCEPT !.unallocated = @ - Total(a, NumInvoices)]]
        /\ alloc' = [alloc EXCEPT ![p] = [i \in Invoices |-> alloc[p][i] + a[i]]]
    BY <1>9, <1>a DEF Allocate, PostFreshJournal, TypeOK
  <2>3. /\ payment'[p].status = "SETTLED"
        /\ \A k \in Payments \ {p} : alloc'[k] = alloc[k] /\ payment'[k] = payment[k]
    BY <1>a, <2>2 DEF TypeOK, PaymentRow
  <2>4. \A i \in Invoices : alloc'[p][i] >= 0
    <3>1. \A i \in Invoices : alloc'[p][i] = alloc[p][i] + a[i]
      BY <1>a, <2>2 DEF TypeOK
    <3>2. \A i \in Invoices : alloc[p][i] \in Int /\ alloc[p][i] >= 0 /\ a[i] \in Nat
      BY <1>a, SizesAssumption DEF TypeOK, Applied
    <3>. QED BY <3>1, <3>2
  <2>. QED BY <1>a, <2>1, <2>2, <2>3, <2>4, AllocationKeeps
<1>10. ASSUME NEW p \in Payments, NEW q \in Requests, ReversePaymentRead(q, p)
       PROVE  InvoiceInv' /\ Onward
  <2>. DEFINE what == Reversing(p, [i \in Invoices |-> invoice[i].balance])
  <2>1. Begin(q, what) /\ payment[p].status = "SETTLED"
    BY <1>10 DEF ReversePaymentRead
  <2>2. <<"payment", p>> \in outbox
    BY <1>a, <2>1 DEF Keyed
  <2>3. /\ what.op = "reverse" /\ what.payment = p
        /\ \A i \in Invoices : what.balance[i] = invoice[i].balance
    BY DEF Reversing
  <2>. HIDE DEF what
  <2>. QED BY <1>a, <2>1, <2>2, <2>3, ReadKeeps
<1>11. ASSUME NEW p \in Payments, NEW q \in Requests, ReversePaymentWrite(q, p)
       PROVE  InvoiceInv' /\ Onward
  <2>1. AllSound' /\ Onward /\ NoneIssued
    BY <1>11, <1>a, ReverseSound
  <2>2. /\ UNCHANGED <<creditNote, posted>> /\ End(q) /\ request[q] # Idle
        /\ outbox' = outbox \cup {<<"payment", p>>}
        /\ payment' = [payment EXCEPT ![p] =
             [payment[p] EXCEPT !.status = "REVERSED", !.unallocated = 0]]
        /\ alloc' = [alloc EXCEPT ![p] = NoAllocation]
    <3>1. request[q].op # "idle"
      BY <1>11 DEF ReversePaymentWrite
    <3>2. request[q] # Idle
      BY <3>1 DEF Idle
    <3>3. payment' = [payment EXCEPT ![p] =
            [payment[p] EXCEPT !.status = "REVERSED", !.unallocated = 0]]
      BY <1>11, <1>a DEF ReversePaymentWrite, TypeOK
    <3>. QED BY <1>11, <3>2, <3>3 DEF ReversePaymentWrite, PostFreshJournal
  <2>3. /\ payment'[p].status = "REVERSED"
        /\ \A k \in Payments \ {p} : alloc'[k] = alloc[k] /\ payment'[k] = payment[k]
    BY <1>a, <2>2 DEF TypeOK, PaymentRow
  <2>4. \A i \in Invoices : alloc'[p][i] >= 0
    BY <1>a, <2>2 DEF TypeOK, NoAllocation
  <2>. QED BY <1>a, <2>1, <2>2, <2>3, <2>4, AllocationKeeps
<1>12. ASSUME NEW r \in Refunds, NEW u \in Users, NEW p \in Payments, NEW x \in Amounts,
              RequestRefund(r, p, x, u)
       PROVE  InvoiceInv' /\ Onward
  BY <1>12, <1>a, QuietKeeps DEF RequestRefund
<1>13. ASSUME NEW r \in Refunds, NEW u \in Users, NEW q \in Requests, ApproveRefundRead(q, r, u)
       PROVE  InvoiceInv' /\ Onward
  BY <1>13, <1>a, ReadKeeps DEF ApproveRefundRead, Approving
<1>14. ASSUME NEW r \in Refunds, NEW u \in Users, NEW q \in Requests,
              NEW s \in {"APPROVED", "REJECTED"}, ApproveRefundWrite(q, r, u, s)
       PROVE  InvoiceInv' /\ Onward
  BY <1>14, <1>a, QuietKeeps DEF ApproveRefundWrite, Approving, Idle
<1>15. ASSUME NEW r \in Refunds, NEW u \in Users, ExecuteRefund(r, u) PROVE InvoiceInv' /\ Onward
  <2>1. AllSound' /\ Onward /\ NoneIssued
    BY <1>15, <1>a, RefundSound
  <2>2. PICK p \in Payments : p = refund[r].payment /\ payment[p].status = "SETTLED"
    BY <1>15, <1>a DEF ExecuteRefund, MayExecute, Typed, Linked
  <2>3. PICK z : payment' = [payment EXCEPT ![p].unallocated = z]
    BY <1>15, <2>2 DEF ExecuteRefund
  <2>4. /\ payment'[p].status = "SETTLED"
        /\ \A k \in Payments \ {p} : payment'[k] = payment[k]
    BY <1>a, <2>2, <2>3 DEF TypeOK, PaymentRow
  <2>5. /\ \A i \in Invoices : alloc'[p][i] >= 0
        /\ \A k \in Payments \ {p} : alloc'[k] = alloc[k]
    BY <1>15, <1>a, <2>2, RefundSound
  <2>6. /\ UNCHANGED <<creditNote, outbox, request>> /\ MayStart /\ posted \subseteq posted'
    BY <1>15 DEF ExecuteRefund, PostJournal
  <2>7. /\ payment'[p].status # "NONE"
        /\ payment'[p].status = "SETTLED" =>
             payment[p].status = "SETTLED" \/ <<"payment", p>> \in outbox'
        /\ \A k \in Payments \ {p} : alloc'[k] = alloc[k] /\ payment'[k] = payment[k]
        /\ outbox \subseteq outbox'
    BY <2>2, <2>4, <2>5, <2>6
  <2>8. InvoiceInv'
    BY <1>a, <2>1, <2>5, <2>6, <2>7, AllocationKeeps
  <2>. QED BY <2>1, <2>8
<1>16. ASSUME NEW q \in Requests, RollBack(q) PROVE InvoiceInv' /\ Onward
  BY <1>16, <1>a, QuietKeeps DEF RollBack
<1>17. CASE UNCHANGED vars
  BY <1>17, <1>a, QuietKeeps DEF vars
<1>18. CASE Next
  BY <1>18, <1>1, <1>2, <1>3, <1>4, <1>5, <1>6, <1>7, <1>8, <1>9, <1>10, <1>11, <1>12, <1>13,
     <1>14, <1>15, <1>16 DEF Next, InvoiceNext, CreditNoteNext, PaymentNext, RefundNext,
     RecordManual, SettleFromIntent
<1>. QED BY <1>17, <1>18

\* What the invariant says of the properties the runs check.
LEMMA InvoicesSound == InvoiceInv => InvoiceConserved /\ StatusMatchesBalance
<1>. SUFFICES ASSUME InvoiceInv PROVE InvoiceConserved /\ StatusMatchesBalance
  OBVIOUS
<1>1. TypeOK /\ AllSound /\ Applied
  BY DEF InvoiceInv, Typed
<1>2. InvoiceConserved
  BY <1>1 DEF AllSound, Sound, InvoiceConserved, Collectable
<1>3. ASSUME NEW i \in Invoices
      PROVE  0 <= invoice[i].balance /\ invoice[i].balance <= invoice[i].total
  <2>1. \A p \in Payments : alloc[p][i] >= 0
    BY <1>1 DEF Applied
  <2>2. /\ Collected(i) \in Nat /\ Credited(i) \in Nat
        /\ invoice[i].total \in Nat /\ invoice[i].balance \in Int
    BY <1>1, <2>1, CollectedType, CreditedType DEF TypeOK, InvoiceRow
  <2>. QED BY <1>1, <2>2 DEF AllSound, Sound
<1>4. StatusMatchesBalance
  BY <1>1, <1>3 DEF AllSound, Sound, StatusMatchesBalance
<1>. QED BY <1>2, <1>4

\* With transactions one at a time, or with the outbox as it is, the balance of
\* an invoice is always its total less what was collected and credited on it.
THEOREM InvoicesConserved ==
  ASSUME Serial \/ ~SequencedOutbox
  PROVE  Spec => []InvoiceConserved
<1>. QED BY InvoiceInit, InvoiceStep, InvoicesSound, PTL DEF Spec

\* With transactions one at a time, or with the outbox as it is, the status of
\* an invoice always agrees with its balance.
THEOREM StatusesMatch ==
  ASSUME Serial \/ ~SequencedOutbox
  PROVE  Spec => []StatusMatchesBalance
<1>. QED BY InvoiceInit, InvoiceStep, InvoicesSound, PTL DEF Spec

\* With transactions one at a time, or with the outbox as it is, no step
\* changes a void invoice.
THEOREM VoidStaysVoid ==
  ASSUME Serial \/ ~SequencedOutbox
  PROVE  Spec => VoidIsFinal
<1>1. InvoiceInv /\ [Next]_vars =>
        [\A i \in Invoices : invoice[i].status = "VOID" => invoice'[i] = invoice[i]]_vars
  BY InvoiceStep DEF Onward
<1>. QED BY <1>1, InvoiceInit, InvoiceStep, PTL DEF Spec, VoidIsFinal

(***************************************************************************)
(* The shares of a refund: over no more than two allocations the rounding  *)
(* of executeRefund leaves no remainder.                                   *)
(***************************************************************************)

\* Row i of column f, nothing where the column has no such row.
Row(f, n, i) == IF i \in 1..n THEN f[i] ELSE 0

\* A column with no more than two rows that are not zero.
LEMMA TotalTwoRows ==
  ASSUME NEW n \in Nat, NEW f \in [1..n -> Int], NEW i \in Nat, NEW j \in Nat,
         \A k \in 1..n \ {i, j} : f[k] = 0
  PROVE  Total(f, n) = Row(f, n, i) + (IF j = i THEN 0 ELSE Row(f, n, j))
<1>1. PICK z \in [1..n -> Int] : z = [k \in 1..n |-> 0]
  <2>1. [k \in 1..n |-> 0] \in [1..n -> Int]
    OBVIOUS
  <2>. QED BY <2>1, Zenon
<1>2. PICK h \in [1..n -> Int] : h = [k \in 1..n |-> IF k = i THEN f[k] ELSE 0]
  <2>1. [k \in 1..n |-> IF k = i THEN f[k] ELSE 0] \in [1..n -> Int]
    OBVIOUS
  <2>. QED BY <2>1, Zenon
<1>3. Total(z, n) = 0
  BY <1>1, TotalZero
<1>4. Total(h, n) = Row(f, n, i)
  <2>1. ASSUME i \in 1..n PROVE Total(h, n) = f[i]
    <3>1. f[i] \in Int /\ h[i] = z[i] + f[i] /\ \A k \in 1..n \ {i} : h[k] = z[k]
      BY <1>1, <1>2, <2>1
    <3>2. Total(h, n) = Total(z, n) + f[i]
      BY <2>1, <3>1, TotalOneRow
    <3>. QED BY <1>3, <3>1, <3>2
  <2>2. CASE i \notin 1..n
    <3>1. h = z
      BY <1>1, <1>2, <2>2
    <3>. QED BY <1>3, <2>2, <3>1 DEF Row
  <2>. QED BY <2>1, <2>2 DEF Row
<1>5. CASE j \in 1..n /\ j # i
  <2>1. f[j] \in Int /\ f[j] = h[j] + f[j] /\ \A k \in 1..n \ {j} : f[k] = h[k]
    BY <1>2, <1>5
  <2>2. Total(f, n) = Total(h, n) + f[j]
    BY <1>5, <2>1, TotalOneRow
  <2>. QED BY <1>4, <1>5, <2>2 DEF Row
<1>6. CASE ~(j \in 1..n /\ j # i)
  <2>1. f = h
    BY <1>2, <1>6
  <2>2. Total(f, n) \in Int
    BY TotalType
  <2>3. Total(f, n) = Row(f, n, i)
    BY <1>4, <2>1
  <2>. QED BY <1>6, <2>2, <2>3 DEF Row
<1>. QED BY <1>5, <1>6

\* Rounding half up: within half a unit of the exact share.
LEMMA ShareBounds ==
  ASSUME NEW x \in Nat, NEW y \in Nat, NEW t \in Nat, t > 0, x <= t
  PROVE  /\ Share(x, y, t) \in Nat /\ Share(x, y, t) <= y
         /\ 2 * (t * Share(x, y, t)) >= 2 * (x * y) - t + 1
<1>. DEFINE m == 2 * x * y + t
            s == Share(x, y, t)
<1>1. s \in Nat
  BY ShareNat
<1>2. m \in Nat /\ m = 2 * (x * y) + t /\ x * y \in Nat
  <2>1. x * y \in Nat /\ 2 * x * y = 2 * (x * y)
    OBVIOUS
  <2>. QED BY <2>1
<1>3. s = m \div (2 * t)
  BY DEF Share
<1>4. \A a, b \in Nat : b > 0 => b * (a \div b) <= a /\ a < b * (a \div b) + b
  OBVIOUS
<1>5. (2 * t) * s <= m /\ m < (2 * t) * s + 2 * t
  <2>1. 2 * t \in Nat /\ 2 * t > 0
    OBVIOUS
  <2>. HIDE DEF m
  <2>. QED BY <1>2, <1>3, <1>4, <2>1
<1>6. (2 * t) * s = 2 * (t * s) /\ t * s \in Nat
  <2>. HIDE DEF s
  <2>. QED BY <1>1
<1>7. x * y <= t * y /\ t * y \in Nat
  OBVIOUS
<1>8. t * s < t * (y + 1)
  <2>1. t * (y + 1) = t * y + t
    OBVIOUS
  <2>. HIDE DEF m, s
  <2>. QED BY <1>2, <1>5, <1>6, <1>7, <2>1
<1>9. s <= y
  <2>. HIDE DEF m, s
  <2>1. CASE s > y
    <3>1. s >= y + 1
      BY <1>1, <2>1
    <3>2. t * s >= t * (y + 1)
      BY <1>1, <3>1
    <3>. QED BY <1>6, <1>8, <3>2
  <2>. QED BY <1>1, <2>1
<1>. QED
  <2>1. 2 * (t * s) >= 2 * (x * y) - t + 1
    <3>. HIDE DEF m, s
    <3>. QED BY <1>2, <1>5, <1>6
  <2>. QED BY <1>1, <1>9, <2>1

\* Of two shares no unit is missing.
LEMMA TwoShares ==
  ASSUME NEW x \in Nat, NEW y \in Nat, NEW z \in Nat, NEW t \in Nat, t > 0, t = y + z, x <= t
  PROVE  x <= Share(x, y, t) + Share(x, z, t)
<1>. PICK u, v : u = Share(x, y, t) /\ v = Share(x, z, t)
  OBVIOUS
<1>1. u \in Nat /\ v \in Nat /\ 2 * (t * u) >= 2 * (x * y) - t + 1 /\ 2 * (t * v) >= 2 * (x * z) - t + 1
  BY ShareBounds
<1>2. x * y + x * z = x * t /\ x * y \in Nat /\ x * z \in Nat /\ x * t \in Nat
  OBVIOUS
<1>3. t * u + t * v = t * (u + v) /\ t * u \in Nat /\ t * v \in Nat
  BY <1>1
<1>4. t * (u + v) + t > x * t /\ t * (u + v) \in Nat
  BY <1>1, <1>2, <1>3
<1>5. CASE u + v < x
  <2>1. u + v + 1 <= x
    BY <1>1, <1>5
  <2>2. t * (u + v + 1) <= t * x
    BY <1>1, <2>1
  <2>3. t * (u + v + 1) = t * (u + v) + t /\ t * x = x * t
    BY <1>1
  <2>. QED BY <1>2, <1>4, <2>2, <2>3
<1>. QED BY <1>1, <1>5

\* A refund that is split over no more than two allocations gives back all of it.
LEMMA SplitWhole ==
  ASSUME NEW a \in [Invoices -> Nat], NEW i \in Nat, NEW j \in Nat,
         \A k \in Invoices \ {i, j} : a[k] = 0,
         NEW x \in Nat, x <= Total(a, NumInvoices)
  PROVE  Total(Given(a, x), NumInvoices) = x
<1>. DEFINE t == Total(a, NumInvoices)
            w == [k \in Invoices |-> Least(Share(x, a[k], t), a[k])]
            g == Running(w, NumInvoices)
            e == [k \in 0..NumInvoices |-> Least(x, g[k])]
<1>1. NumInvoices \in Nat /\ Invoices = 1..NumInvoices /\ a \in [Invoices -> Int]
  BY SizesAssumption DEF Invoices
<1>2. t \in Nat /\ t \in Int
  BY <1>1, TotalNat
<1>3. \A k \in Invoices : Share(x, a[k], t) \in Nat
  <2>. HIDE DEF t
  <2>1. \A k \in Invoices : a[k] \in Nat
    OBVIOUS
  <2>. QED BY <1>2, <2>1, ShareNat
<1>4. w \in [1..NumInvoices -> Nat] /\ w \in [1..NumInvoices -> Int]
  <2>. HIDE DEF t
  <2>. QED BY <1>1, <1>3 DEF Least
<1>5. IsRunning(g, w, NumInvoices) /\ g \in [0..NumInvoices -> Int]
  <2>. HIDE DEF w
  <2>. QED BY <1>1, <1>4, RunningDef
<1>6. Given(a, x) \in [1..NumInvoices -> Int]
  BY <1>1, GivenType
<1>7. \A k \in 1..NumInvoices : Given(a, x)[k] = Least(x, g[k]) - Least(x, g[k-1])
  BY <1>1 DEF Given
<1>8. IsRunning(e, Given(a, x), NumInvoices)
  <2>. HIDE DEF w, g
  <2>1. \A k \in 0..NumInvoices : g[k] \in Int /\ e[k] = Least(x, g[k])
    BY <1>5
  <2>2. e[0] = 0
    BY <1>1, <1>5, <2>1 DEF IsRunning, Least
  <2>3. \A k \in 1..NumInvoices : e[k] = e[k-1] + Given(a, x)[k]
    <3>. SUFFICES ASSUME NEW k \in 1..NumInvoices PROVE e[k] = e[k-1] + Given(a, x)[k]
      OBVIOUS
    <3>1. k \in 0..NumInvoices /\ k - 1 \in 0..NumInvoices
      BY <1>1
    <3>2. e[k] = Least(x, g[k]) /\ e[k-1] = Least(x, g[k-1]) /\ e[k] \in Int /\ e[k-1] \in Int
      BY <2>1, <3>1 DEF Least
    <3>. QED BY <1>7, <3>2
  <2>4. e = [k \in 0..NumInvoices |-> e[k]]
    OBVIOUS
  <2>. HIDE DEF e
  <2>5. \A k \in 0..NumInvoices : e[k] = IF k = 0 THEN 0 ELSE e[k-1] + Given(a, x)[k]
    BY <1>1, <2>2, <2>3
  <2>6. e = [k \in 0..NumInvoices |-> IF k = 0 THEN 0 ELSE e[k-1] + Given(a, x)[k]]
    BY <2>4, <2>5
  <2>. QED BY <2>6 DEF IsRunning
<1>9. Total(Given(a, x), NumInvoices) = Least(x, Total(w, NumInvoices))
  <2>1. Running(Given(a, x), NumInvoices) = e
    <3>. HIDE DEF e
    <3>. QED BY <1>1, <1>6, <1>8, RunningDef, RunningUnique
  <2>2. e[NumInvoices] = Least(x, g[NumInvoices])
    BY <1>1
  <2>. QED BY <2>1, <2>2 DEF Total
<1>10. Total(w, NumInvoices) >= x /\ Total(w, NumInvoices) \in Int
  <2>1. Total(w, NumInvoices) \in Nat
    <3>. HIDE DEF w
    <3>. QED BY <1>1, <1>4, TotalNat
  <2>2. CASE t = 0
    BY <2>1, <2>2
  <2>3. CASE t > 0
    <3>. PICK y, z : y = Row(a, NumInvoices, i) /\ z = IF j = i THEN 0 ELSE Row(a, NumInvoices, j)
      OBVIOUS
    <3>1. y \in Nat /\ z \in Nat
      BY <1>1 DEF Row
    <3>2. t = y + z
      BY <1>1, TotalTwoRows
    <3>3. \A k \in Invoices : w[k] = Share(x, a[k], t)
      <4>. SUFFICES ASSUME NEW k \in Invoices PROVE w[k] = Share(x, a[k], t)
        OBVIOUS
      <4>. HIDE DEF t
      <4>1. Share(x, a[k], t) \in Nat /\ Share(x, a[k], t) <= a[k] /\ a[k] \in Nat
        BY <1>2, <2>3, ShareBounds DEF t
      <4>. QED BY <4>1 DEF Least
    <3>4. Share(x, 0, t) = 0
      <4>. HIDE DEF t
      <4>1. Share(x, 0, t) \in Nat /\ Share(x, 0, t) <= 0
        BY <1>2, <2>3, ShareBounds DEF t
      <4>. QED BY <4>1
    <3>5. \A k \in Invoices \ {i, j} : w[k] = 0
      BY <3>3, <3>4
    <3>6. Total(w, NumInvoices) = Row(w, NumInvoices, i) + (IF j = i THEN 0 ELSE Row(w, NumInvoices, j))
      <4>. HIDE DEF w
      <4>. QED BY <1>1, <1>4, <3>5, TotalTwoRows
    <3>7. Row(w, NumInvoices, i) = Share(x, y, t)
      BY <1>1, <3>3, <3>4 DEF Row
    <3>8. (IF j = i THEN 0 ELSE Row(w, NumInvoices, j)) = Share(x, z, t)
      BY <1>1, <3>3, <3>4 DEF Row
    <3>9. x <= Share(x, y, t) + Share(x, z, t)
      <4>. HIDE DEF t
      <4>. QED BY <1>2, <2>3, <3>1, <3>2, TwoShares DEF t
    <3>. QED BY <2>1, <3>6, <3>7, <3>8, <3>9
  <2>. QED BY <1>2, <2>2, <2>3
<1>. QED BY <1>9, <1>10 DEF Least

(***************************************************************************)
(* What the control accounts are summed from.                              *)
(***************************************************************************)

\* What invoice i adds to the receivables, payment p to the cash.
Owed(i) == IF invoice[i].status = "DRAFT" THEN 0 ELSE invoice[i].balance
Kept(p) == IF payment[p].status = "SETTLED" THEN payment[p].amount - Refunded(p) ELSE 0

\* The types of these columns and of what is refunded.
LEMMA OwedType ==
  ASSUME TypeOK
  PROVE  /\ NumInvoices \in Nat /\ Invoices = 1..NumInvoices
         /\ [i \in Invoices |-> Owed(i)] \in [1..NumInvoices -> Int]
BY SizesAssumption DEF Invoices, Owed, TypeOK, InvoiceRow

LEMMA RefundedType ==
  ASSUME TypeOK, NEW p \in Payments
  PROVE  Refunded(p) \in Nat
<1>. DEFINE f == [r \in Refunds |-> IF refund[r].payment = p /\ <<"refund", r>> \in posted
                                    THEN refund[r].amount ELSE 0]
<1>1. NumRefunds \in Nat /\ Refunds = 1..NumRefunds
  BY SizesAssumption DEF Refunds
<1>2. f \in [1..NumRefunds -> Nat]
  BY <1>1 DEF TypeOK, RefundRow
<1>3. Total(f, NumRefunds) \in Nat
  <2>. HIDE DEF f
  <2>. QED BY <1>1, <1>2, TotalNat
<1>. QED BY <1>3 DEF Refunded

LEMMA KeptType ==
  ASSUME TypeOK
  PROVE  /\ NumPayments \in Nat /\ Payments = 1..NumPayments
         /\ [p \in Payments |-> Kept(p)] \in [1..NumPayments -> Int]
<1>1. NumPayments \in Nat /\ Payments = 1..NumPayments
  BY SizesAssumption DEF Payments
<1>2. ASSUME NEW p \in Payments PROVE Kept(p) \in Int
  <2>1. Refunded(p) \in Nat /\ payment[p].amount \in Nat
    BY RefundedType DEF TypeOK, PaymentRow
  <2>. QED BY <2>1 DEF Kept
<1>. QED BY <1>1, <1>2

\* An allocation is of an issued invoice.
LEMMA AllocatedIssued ==
  ASSUME Typed, AllSound, Applied, NEW p \in Payments, NEW i \in Invoices, alloc[p][i] # 0
  PROVE  invoice[i].status # "DRAFT"
<1>1. TypeOK /\ Sound(i) /\ \A k \in Payments : alloc[k][i] >= 0
  BY DEF Typed, AllSound, Applied
<1>2. /\ Collected(i) \in Nat /\ alloc[p][i] <= Collected(i) /\ Credited(i) \in Nat
      /\ alloc[p][i] \in Int /\ alloc[p][i] >= 0 /\ invoice[i].balance \in Int
  BY <1>1, CollectedType, CreditedType DEF TypeOK, InvoiceRow
<1>3. Collected(i) > 0
  BY <1>2
<1>4. CASE invoice[i].status = "DRAFT"
  <2>1. /\ invoice[i].balance = invoice[i].total
        /\ invoice[i].total = invoice[i].balance + Collected(i) + Credited(i)
    BY <1>1, <1>4 DEF Sound
  <2>. QED BY <1>2, <1>3, <2>1
<1>. QED BY <1>4

\* The refunds in the ledger are the same.
LEMMA RefundedSame ==
  ASSUME NEW p,
         \A r \in Refunds :
           /\ <<"refund", r>> \in posted' <=> <<"refund", r>> \in posted
           /\ <<"refund", r>> \in posted => /\ refund'[r].payment = refund[r].payment
                                            /\ refund'[r].amount = refund[r].amount
  PROVE  Refunded(p)' = Refunded(p)
<1>1. [r \in Refunds |-> IF refund[r].payment = p /\ <<"refund", r>> \in posted
                         THEN refund[r].amount ELSE 0]
      = [r \in Refunds |-> IF refund'[r].payment = p /\ <<"refund", r>> \in posted'
                           THEN refund'[r].amount ELSE 0]
  OBVIOUS
<1>. QED BY <1>1 DEF Refunded

\* A refund enters the ledger.
LEMMA RefundedMoves ==
  ASSUME TypeOK, TypeOK', NEW r \in Refunds, NEW p \in Payments,
         <<"refund", r>> \notin posted, posted' = posted \cup {<<"refund", r>>},
         \A k \in Refunds : /\ refund'[k].payment = refund[k].payment
                            /\ refund'[k].amount = refund[k].amount
  PROVE  Refunded(p)' = Refunded(p) + (IF refund[r].payment = p THEN refund[r].amount ELSE 0)
<1>. DEFINE f == [k \in Refunds |-> IF refund[k].payment = p /\ <<"refund", k>> \in posted
                                    THEN refund[k].amount ELSE 0]
            h == [k \in Refunds |-> IF refund'[k].payment = p /\ <<"refund", k>> \in posted'
                                    THEN refund'[k].amount ELSE 0]
            d == IF refund[r].payment = p THEN refund[r].amount ELSE 0
<1>1. NumRefunds \in Nat /\ Refunds = 1..NumRefunds
  BY SizesAssumption DEF Refunds
<1>2. f \in [1..NumRefunds -> Int] /\ h \in [1..NumRefunds -> Int] /\ d \in Int
  BY <1>1 DEF TypeOK, RefundRow
<1>3. h[r] = f[r] + d /\ \A k \in 1..NumRefunds \ {r} : h[k] = f[k]
  BY <1>1, <1>2
<1>4. Total(h, NumRefunds) = Total(f, NumRefunds) + d
  <2>. HIDE DEF f, h, d
  <2>. QED BY <1>1, <1>2, <1>3, TotalOneRow
<1>. QED BY <1>4 DEF Refunded

\* One invoice owes d more, and the account says so.
LEMMA OneOwesMore ==
  ASSUME TypeOK, TypeOK', ReceivablesAgree, NEW i \in Invoices, NEW d \in Int,
         Owed(i)' = Owed(i) + d, \A k \in Invoices \ {i} : Owed(k)' = Owed(k),
         ledger'.ar = ledger.ar + d
  PROVE  ReceivablesAgree'
<1>. DEFINE f == [k \in Invoices |-> Owed(k)]
            h == [k \in Invoices |-> Owed(k)']
<1>1. /\ NumInvoices \in Nat /\ Invoices = 1..NumInvoices
      /\ f \in [1..NumInvoices -> Int]
  BY OwedType
<1>2. h \in [1..NumInvoices -> Int]
  BY <1>1 DEF Owed, TypeOK, InvoiceRow
<1>3. h[i] = f[i] + d /\ \A k \in 1..NumInvoices \ {i} : h[k] = f[k]
  BY <1>1
<1>4. Total(h, NumInvoices) = Total(f, NumInvoices) + d
  <2>. HIDE DEF f, h
  <2>. QED BY <1>1, <1>2, <1>3, TotalOneRow
<1>5. ledger.ar = Total(f, NumInvoices)
  BY DEF ReceivablesAgree, Owed
<1>6. ledger'.ar = Total(h, NumInvoices)
  BY <1>4, <1>5
<1>. QED BY <1>6 DEF ReceivablesAgree, Owed

\* Every invoice i owes d[i] more, or less, and the account says so.
LEMMA AllOweMore ==
  ASSUME TypeOK, TypeOK', ReceivablesAgree, NEW d \in [Invoices -> Int],
         \A i \in Invoices : Owed(i)' = Owed(i) + d[i],
         ledger'.ar = ledger.ar + Total(d, NumInvoices)
  PROVE  ReceivablesAgree'
<1>. DEFINE f == [k \in Invoices |-> Owed(k)]
            h == [k \in Invoices |-> Owed(k)']
<1>1. /\ NumInvoices \in Nat /\ Invoices = 1..NumInvoices
      /\ f \in [1..NumInvoices -> Int]
  BY OwedType
<1>2. h \in [1..NumInvoices -> Int] /\ d \in [1..NumInvoices -> Int]
  BY <1>1 DEF Owed, TypeOK, InvoiceRow
<1>3. \A k \in 1..NumInvoices : h[k] = f[k] + d[k]
  BY <1>1
<1>4. Total(h, NumInvoices) = Total(f, NumInvoices) + Total(d, NumInvoices)
  <2>. HIDE DEF f, h
  <2>. QED BY <1>1, <1>2, <1>3, TotalPlus
<1>5. ledger.ar = Total(f, NumInvoices)
  BY DEF ReceivablesAgree, Owed
<1>6. ledger'.ar = Total(h, NumInvoices)
  BY <1>4, <1>5
<1>. QED BY <1>6 DEF ReceivablesAgree, Owed

\* The same with amounts taken off.
LEMMA AllOweLess ==
  ASSUME TypeOK, TypeOK', ReceivablesAgree, NEW d \in [Invoices -> Int],
         \A i \in Invoices : Owed(i) = Owed(i)' + d[i],
         ledger'.ar = ledger.ar - Total(d, NumInvoices)
  PROVE  ReceivablesAgree'
<1>. DEFINE f == [k \in Invoices |-> Owed(k)]
            h == [k \in Invoices |-> Owed(k)']
<1>1. /\ NumInvoices \in Nat /\ Invoices = 1..NumInvoices
      /\ f \in [1..NumInvoices -> Int]
  BY OwedType
<1>2. h \in [1..NumInvoices -> Int] /\ d \in [1..NumInvoices -> Int]
  BY <1>1 DEF Owed, TypeOK, InvoiceRow
<1>3. \A k \in 1..NumInvoices : f[k] = h[k] + d[k]
  BY <1>1
<1>4. /\ Total(f, NumInvoices) = Total(h, NumInvoices) + Total(d, NumInvoices)
      /\ Total(h, NumInvoices) \in Int /\ Total(d, NumInvoices) \in Int
  <2>. HIDE DEF f, h
  <2>. QED BY <1>1, <1>2, <1>3, TotalPlus, TotalType
<1>5. ledger.ar = Total(f, NumInvoices)
  BY DEF ReceivablesAgree, Owed
<1>6. ledger'.ar = Total(h, NumInvoices)
  <2>. HIDE DEF f, h
  <2>. QED BY <1>4, <1>5
<1>. QED BY <1>6 DEF ReceivablesAgree, Owed

\* One payment keeps d more, and the account says so.
LEMMA OneKeepsMore ==
  ASSUME TypeOK, TypeOK', CashAgrees, NEW p \in Payments, NEW d \in Int,
         Kept(p)' = Kept(p) + d, \A k \in Payments \ {p} : Kept(k)' = Kept(k),
         ledger'.cash = ledger.cash + d
  PROVE  CashAgrees'
<1>. DEFINE f == [k \in Payments |-> Kept(k)]
            h == [k \in Payments |-> Kept(k)']
<1>1. /\ NumPayments \in Nat /\ Payments = 1..NumPayments
      /\ f \in [1..NumPayments -> Int]
  BY KeptType
<1>2. \A k \in Payments : Kept(k) \in Int
  <2>1. \A k \in Payments : f[k] = Kept(k)
    OBVIOUS
  <2>. HIDE DEF f
  <2>. QED BY <1>1, <2>1
<1>3. \A k \in Payments : Kept(k)' \in Int
  BY <1>2
<1>4. h \in [1..NumPayments -> Int]
  BY <1>1, <1>3
<1>5. h[p] = f[p] + d /\ \A k \in 1..NumPayments \ {p} : h[k] = f[k]
  BY <1>1
<1>6. Total(h, NumPayments) = Total(f, NumPayments) + d
  <2>. HIDE DEF f, h
  <2>. QED BY <1>1, <1>4, <1>5, TotalOneRow
<1>7. ledger.cash = Total(f, NumPayments)
  BY DEF CashAgrees, Kept
<1>8. ledger'.cash = Total(h, NumPayments)
  BY <1>6, <1>7
<1>. QED BY <1>8 DEF CashAgrees, Kept

\* A step that leaves the payments and the refunds in the ledger alone.
LEMMA KeptSame ==
  ASSUME CashAgrees, PaymentConserved, UNCHANGED <<payment, alloc>>, ledger'.cash = ledger.cash,
         \A p \in Payments : Refunded(p)' = Refunded(p)
  PROVE  CashAgrees' /\ PaymentConserved'
<1>1. [p \in Payments |-> Kept(p)] = [p \in Payments |-> Kept(p)']
  BY DEF Kept
<1>2. CashAgrees'
  BY <1>1 DEF CashAgrees, Kept
<1>. QED BY <1>2 DEF PaymentConserved

(***************************************************************************)
(* The control accounts, one transaction at a time, where a payment goes   *)
(* to no more than two invoices, or any number under the outbox as it is.  *)
(***************************************************************************)

\* No more than two rows of the column are not zero.
Narrow(a) == \E i, j \in Nat : \A k \in Invoices \ {i, j} : a[k] = 0

\* What is allocated of a payment can be given back without a remainder.
Splittable == \A p \in Payments : Narrow(alloc[p])

\* A payment that is being reversed is settled.
Reversible == \A q \in Requests :
  request[q].op = "reverse" => payment[request[q].payment].status = "SETTLED"

LedgerInv == RefundInv /\ InvoiceInv /\ Splittable /\ Reversible /\ LedgerAgrees

\* The other parts of the invariant, in one transaction at a time.
LEMMA PartsKept ==
  ASSUME Serial, LedgerInv, [Next]_vars
  PROVE  /\ RefundInv' /\ InvoiceInv' /\ Typed /\ Typed' /\ TypeOK /\ TypeOK'
         /\ AllSound /\ Applied /\ Keyed /\ ReversalsCurrent /\ NotRecorded
         /\ RefundsUnderDualControl /\ RefundsUnderDualControl'
         /\ RefundsWithinPayment /\ RefundsWithinPayment'
         /\ Splittable /\ Reversible /\ ReceivablesAgree /\ CashAgrees /\ PaymentConserved
<1>1. RefundInv /\ InvoiceInv /\ RefundInv' /\ InvoiceInv'
  BY RefundStep, InvoiceStep DEF LedgerInv
<1>2. RefundsWithinPayment /\ RefundsWithinPayment'
  BY <1>1, RefundsFit, PTL
<1>. QED BY <1>1, <1>2 DEF LedgerInv, RefundInv, InvoiceInv, Typed, LedgerAgrees

\* In a step that posts nothing of a refund, what is refunded stays.
LEMMA NoRefundPosted ==
  ASSUME TypeOK, RefundsUnderDualControl,
         posted' \subseteq posted \cup ({"invoice", "void", "credit", "payment"} \X Nat),
         posted \subseteq posted',
         \A r \in Refunds : refund[r].status # "EXECUTED" \/ refund'[r] = refund[r],
         NEW p \in Payments
  PROVE  Refunded(p)' = Refunded(p)
<1>1. \A r \in Refunds : <<"refund", r>> \in posted' <=> <<"refund", r>> \in posted
  OBVIOUS
<1>2. \A r \in Refunds : <<"refund", r>> \in posted => refund'[r] = refund[r]
  BY DEF RefundsUnderDualControl
<1>. QED BY <1>1, <1>2, RefundedSame

\* A request that begins or ends changes no account.
LEMMA AccountsSame ==
  ASSUME LedgerAgrees, TypeOK, RefundsUnderDualControl,
         UNCHANGED <<invoice, payment, alloc, ledger, posted>>,
         \A r \in Refunds : refund[r].status # "EXECUTED" \/ refund'[r] = refund[r]
  PROVE  LedgerAgrees'
<1>1. \A p \in Payments : Refunded(p)' = Refunded(p)
  BY NoRefundPosted
<1>2. ReceivablesAgree'
  BY DEF LedgerAgrees, ReceivablesAgree
<1>3. CashAgrees' /\ PaymentConserved'
  BY <1>1, KeptSame DEF LedgerAgrees
<1>. QED BY <1>2, <1>3 DEF LedgerAgrees

\* A payment and its journal.
LEMMA SettleAgrees ==
  ASSUME Serial, LedgerInv, [Next]_vars, NEW p \in Payments, NEW x \in Amounts,
         NEW a \in [Invoices -> 0..MaxAmount], Settle(p, x, a)
  PROVE  LedgerAgrees'
<1>a. /\ TypeOK /\ TypeOK' /\ Typed /\ Applied /\ NotRecorded /\ RefundsUnderDualControl
      /\ RefundsWithinPayment /\ ReceivablesAgree /\ CashAgrees /\ PaymentConserved
  BY PartsKept
<1>b. /\ a \in [Invoices -> Int] /\ x \in Nat /\ NumInvoices \in Nat /\ Invoices = 1..NumInvoices
      /\ Total(a, NumInvoices) \in Int /\ p \in Nat
  <2>1. a \in [Invoices -> Int] /\ x \in Nat /\ NumInvoices \in Nat /\ p \in Nat
    BY SizesAssumption DEF Amounts, Payments
  <2>2. Invoices = 1..NumInvoices
    BY DEF Invoices
  <2>. QED BY <2>1, <2>2, TotalType
<1>1. /\ payment[p].status = "NONE"
      /\ payment' = [payment EXCEPT ![p] = [status |-> "SETTLED", amount |-> x,
                                            unallocated |-> x - Total(a, NumInvoices)]]
      /\ alloc' = [alloc EXCEPT ![p] = a]
      /\ ledger' = LedgerPlus(-Total(a, NumInvoices), x, Total(a, NumInvoices) - x, 0)
      /\ posted' = posted \cup {<<"payment", p>>}
      /\ refund' = refund
  BY DEF Settle, PostJournal
<1>2. \A k \in Payments : Refunded(k)' = Refunded(k)
  BY <1>a, <1>b, <1>1, NoRefundPosted
<1>3. Refunded(p) = 0
  <2>1. payment[p].amount = 0 /\ Refunded(p) <= payment[p].amount /\ Refunded(p) \in Nat
    BY <1>a, <1>1, RefundedType DEF NotRecorded, RefundsWithinPayment
  <2>. QED BY <2>1
<1>4. ReceivablesAgree'
  <2>1. \A i \in Invoices : Owed(i) = Owed(i)' + a[i]
    <3>. SUFFICES ASSUME NEW i \in Invoices PROVE Owed(i) = Owed(i)' + a[i]
      OBVIOUS
    <3>1. invoice[i].balance \in Int /\ a[i] \in Int /\ a[i] >= 0
      BY <1>a, <1>b DEF TypeOK, InvoiceRow
    <3>2. CASE a[i] = 0
      <4>1. invoice'[i] = invoice[i]
        BY <3>2 DEF Settle, ApplyAllocations
      <4>. QED BY <3>1, <3>2, <4>1 DEF Owed
    <3>3. CASE a[i] > 0
      <4>1. /\ invoice[i].status # "DRAFT"
            /\ invoice'[i].status # "DRAFT" /\ invoice'[i].balance = invoice[i].balance - a[i]
        BY <3>1, <3>3 DEF Settle, ApplyAllocations, AllocationAllowed, Collectable, ReducedStatus
      <4>. QED BY <3>1, <4>1 DEF Owed
    <3>. QED BY <3>1, <3>2, <3>3
  <2>2. ledger'.ar = ledger.ar - Total(a, NumInvoices)
    BY <1>a, <1>b, <1>1 DEF LedgerPlus, TypeOK
  <2>. QED BY <1>a, <1>b, <2>1, <2>2, AllOweLess
<1>5. CashAgrees'
  <2>1. Kept(p)' = Kept(p) + x
    BY <1>a, <1>b, <1>1, <1>2, <1>3 DEF Kept, TypeOK
  <2>2. \A k \in Payments \ {p} : Kept(k)' = Kept(k)
    BY <1>a, <1>1, <1>2 DEF Kept, TypeOK
  <2>3. ledger'.cash = ledger.cash + x /\ x \in Int
    BY <1>b, <1>1 DEF LedgerPlus
  <2>. QED BY <1>a, <2>1, <2>2, <2>3, OneKeepsMore
<1>6. PaymentConserved'
  <2>1. \A k \in Payments \ {p} : payment'[k] = payment[k] /\ alloc'[k] = alloc[k]
    BY <1>a, <1>1 DEF TypeOK
  <2>2. /\ payment'[p].amount = x /\ payment'[p].unallocated = x - Total(a, NumInvoices)
        /\ alloc'[p] = a
    BY <1>a, <1>1 DEF TypeOK
  <2>3. payment'[p].amount = payment'[p].unallocated + Total(alloc'[p], NumInvoices) + Refunded(p)'
    BY <1>b, <1>2, <1>3, <2>2
  <2>. QED BY <1>a, <1>2, <2>1, <2>3 DEF PaymentConserved
<1>. QED BY <1>4, <1>5, <1>6 DEF LedgerAgrees

\* Unapplied money becomes an allocation.
LEMMA AllocateAgrees ==
  ASSUME Serial, LedgerInv, [Next]_vars, NEW p \in Payments,
         NEW a \in [Invoices -> 0..MaxAmount], Allocate(p, a)
  PROVE  LedgerAgrees'
<1>a. /\ TypeOK /\ TypeOK' /\ RefundsUnderDualControl
      /\ ReceivablesAgree /\ CashAgrees /\ PaymentConserved
  BY PartsKept
<1>b. /\ a \in [Invoices -> Int] /\ NumInvoices \in Nat /\ Invoices = 1..NumInvoices
      /\ Total(a, NumInvoices) \in Int /\ Total(alloc[p], NumInvoices) \in Int
      /\ payment[p].unallocated \in Int /\ payment[p].amount \in Nat /\ alloc[p] \in [Invoices -> Int]
  <2>1. a \in [Invoices -> Int] /\ NumInvoices \in Nat
    BY SizesAssumption
  <2>2. Invoices = 1..NumInvoices
    BY DEF Invoices
  <2>3. /\ payment[p].unallocated \in Int /\ payment[p].amount \in Nat
        /\ alloc[p] \in [Invoices -> Int]
    BY <1>a DEF TypeOK, PaymentRow
  <2>. QED BY <2>1, <2>2, <2>3, TotalType
<1>1. /\ payment[p].status = "SETTLED"
      /\ payment' = [payment EXCEPT ![p] =
           [payment[p] EXCEPT !.unallocated = payment[p].unallocated - Total(a, NumInvoices)]]
      /\ alloc' = [alloc EXCEPT ![p] = [i \in Invoices |-> alloc[p][i] + a[i]]]
      /\ ledger' = LedgerPlus(-Total(a, NumInvoices), 0, Total(a, NumInvoices), 0)
      /\ posted' = posted /\ refund' = refund
  BY <1>a DEF Allocate, PostFreshJournal, TypeOK
<1>2. \A k \in Payments : Refunded(k)' = Refunded(k)
  BY <1>a, <1>1, NoRefundPosted
<1>3. ReceivablesAgree'
  <2>1. \A i \in Invoices : Owed(i) = Owed(i)' + a[i]
    <3>. SUFFICES ASSUME NEW i \in Invoices PROVE Owed(i) = Owed(i)' + a[i]
      OBVIOUS
    <3>1. invoice[i].balance \in Int /\ a[i] \in Int /\ a[i] >= 0
      BY <1>a, <1>b DEF TypeOK, InvoiceRow
    <3>2. CASE a[i] = 0
      <4>1. invoice'[i] = invoice[i]
        BY <3>2 DEF Allocate, ApplyAllocations
      <4>. QED BY <3>1, <3>2, <4>1 DEF Owed
    <3>3. CASE a[i] > 0
      <4>1. /\ invoice[i].status # "DRAFT"
            /\ invoice'[i].status # "DRAFT" /\ invoice'[i].balance = invoice[i].balance - a[i]
        BY <3>1, <3>3 DEF Allocate, ApplyAllocations, AllocationAllowed, Collectable, ReducedStatus
      <4>. QED BY <3>1, <4>1 DEF Owed
    <3>. QED BY <3>1, <3>2, <3>3
  <2>2. ledger'.ar = ledger.ar - Total(a, NumInvoices)
    BY <1>a, <1>b, <1>1 DEF LedgerPlus, TypeOK
  <2>. QED BY <1>a, <1>b, <2>1, <2>2, AllOweLess
<1>4. /\ payment'[p].status = "SETTLED" /\ payment'[p].amount = payment[p].amount
      /\ payment'[p].unallocated = payment[p].unallocated - Total(a, NumInvoices)
      /\ alloc'[p] = [i \in Invoices |-> alloc[p][i] + a[i]]
      /\ \A k \in Payments \ {p} : payment'[k] = payment[k] /\ alloc'[k] = alloc[k]
  BY <1>a, <1>1 DEF TypeOK, PaymentRow
<1>5. CashAgrees'
  <2>1. \A k \in Payments : Kept(k)' = Kept(k) /\ Kept(k) \in Int
    <3>1. \A k \in Payments : Refunded(k) \in Nat /\ payment[k].amount \in Nat
      BY <1>a, RefundedType DEF TypeOK, PaymentRow
    <3>. QED BY <1>1, <1>2, <1>4, <3>1 DEF Kept
  <2>2. Kept(p)' = Kept(p) + 0 /\ 0 \in Int
    BY <2>1
  <2>3. ledger'.cash = ledger.cash + 0
    BY <1>1 DEF LedgerPlus
  <2>. QED BY <1>a, <2>1, <2>2, <2>3, OneKeepsMore
<1>6. PaymentConserved'
  <2>1. Total(alloc'[p], NumInvoices) = Total(alloc[p], NumInvoices) + Total(a, NumInvoices)
    <3>1. /\ alloc'[p] \in [1..NumInvoices -> Int] /\ alloc[p] \in [1..NumInvoices -> Int]
          /\ a \in [1..NumInvoices -> Int]
          /\ \A i \in 1..NumInvoices : alloc'[p][i] = alloc[p][i] + a[i]
      BY <1>a, <1>b, <1>4 DEF TypeOK
    <3>. QED BY <1>b, <3>1, TotalPlus
  <2>2. payment[p].amount = payment[p].unallocated + Total(alloc[p], NumInvoices) + Refunded(p)
    BY <1>a, <1>1 DEF PaymentConserved
  <2>3. payment'[p].amount = payment'[p].unallocated + Total(alloc'[p], NumInvoices) + Refunded(p)'
    <3>1. Refunded(p) \in Nat
      BY <1>a, RefundedType
    <3>. QED BY <1>b, <1>2, <1>4, <2>1, <2>2, <3>1
  <2>. QED BY <1>a, <1>2, <1>4, <2>3 DEF PaymentConserved
<1>. QED BY <1>3, <1>5, <1>6 DEF LedgerAgrees

\* A refund: out of the unapplied money first, the rest, split without a
\* remainder, out of the allocations.
LEMMA RefundAgrees ==
  ASSUME Serial, LedgerInv, [Next]_vars, NEW r \in Refunds, NEW u \in Users, ExecuteRefund(r, u)
  PROVE  LedgerAgrees' /\ \E p \in Payments :
           /\ \A i \in Invoices : alloc[p][i] = 0 => alloc'[p][i] = 0
           /\ \A k \in Payments \ {p} : alloc'[k] = alloc[k]
<1>a. /\ TypeOK /\ TypeOK' /\ Typed /\ AllSound /\ Applied /\ RefundsUnderDualControl
      /\ RefundsWithinPayment' /\ ReceivablesAgree /\ CashAgrees /\ PaymentConserved /\ Splittable
  BY PartsKept
<1>b. NumInvoices \in Nat /\ Invoices = 1..NumInvoices
  BY SizesAssumption DEF Invoices
<1>1. PICK p \in Payments : p = refund[r].payment
  <2>1. refund[r].status = "APPROVED"
    BY DEF ExecuteRefund, MayExecute
  <2>. QED BY <1>a, <2>1 DEF Typed, Linked
<1>2. PICK y : y = Least(payment[p].unallocated, refund[r].amount)
  OBVIOUS
<1>3. /\ payment[p].unallocated \in Int /\ payment[p].amount \in Nat /\ refund[r].amount \in Nat
      /\ y \in Int /\ y <= refund[r].amount /\ y <= payment[p].unallocated
      /\ y = refund[r].amount \/ y = payment[p].unallocated
  BY <1>a, <1>2 DEF TypeOK, PaymentRow, RefundRow, Least
<1>4. PICK x \in Nat : x = refund[r].amount - y
  BY <1>3
<1>5. PICK g : g = Given(alloc[p], x)
  OBVIOUS
<1>6. /\ payment[p].status = "SETTLED"
      /\ payment' = [payment EXCEPT ![p] =
           [payment[p] EXCEPT !.unallocated = payment[p].unallocated - y]]
      /\ alloc' = [alloc EXCEPT ![p] = [i \in Invoices |-> alloc[p][i] - g[i]]]
      /\ invoice' = [i \in Invoices |->
           IF g[i] = 0 THEN invoice[i]
           ELSE [status |-> RestoredStatus(invoice[i].balance + g[i], invoice[i].total),
                 total |-> invoice[i].total, balance |-> invoice[i].balance + g[i]]]
      /\ ledger' = LedgerPlus(x, -refund[r].amount, y, 0)
      /\ <<"refund", r>> \notin posted /\ posted' = posted \cup {<<"refund", r>>}
      /\ refund' = [refund EXCEPT ![r] = [refund[r] EXCEPT !.status = "EXECUTED", !.executor = u]]
  BY <1>a, <1>1, <1>2, <1>4, <1>5 DEF ExecuteRefund, AllocationsAfterRefund, PostJournal, TypeOK
<1>7. alloc[p] \in [Invoices -> Nat] /\ alloc[p] \in [Invoices -> Int]
  <2>1. alloc[p] \in [Invoices -> Int] /\ \A i \in Invoices : alloc[p][i] >= 0
    BY <1>a DEF TypeOK, Applied
  <2>. QED BY <2>1
<1>8. /\ g \in [Invoices -> Int]
      /\ \A i \in Invoices : 0 <= g[i] /\ g[i] <= alloc[p][i]
  <2>1. Given(alloc[p], x) \in [Invoices -> Int]
    BY <1>7, GivenType
  <2>2. \A i \in Invoices : 0 <= Given(alloc[p], x)[i] /\ Given(alloc[p], x)[i] <= alloc[p][i]
    BY <1>7, GivenBounds
  <2>. QED BY <1>5, <2>1, <2>2
<1>9. \A k \in Payments : Refunded(k)' =
        Refunded(k) + (IF p = k THEN refund[r].amount ELSE 0)
  <2>1. \A k \in Refunds : /\ refund'[k].payment = refund[k].payment
                           /\ refund'[k].amount = refund[k].amount
    BY <1>a, <1>6 DEF TypeOK, RefundRow
  <2>. QED BY <1>a, <1>1, <1>6, <2>1, RefundedMoves
<1>10. \A k \in Payments : Refunded(k) \in Nat /\ payment[k].amount \in Nat
  BY <1>a, RefundedType DEF TypeOK, PaymentRow
<1>11. /\ payment'[p].status = "SETTLED" /\ payment'[p].amount = payment[p].amount
       /\ payment'[p].unallocated = payment[p].unallocated - y
       /\ alloc'[p] = [i \in Invoices |-> alloc[p][i] - g[i]]
       /\ \A k \in Payments \ {p} : payment'[k] = payment[k] /\ alloc'[k] = alloc[k]
  BY <1>a, <1>6 DEF TypeOK, PaymentRow
<1>12. payment[p].amount = payment[p].unallocated + Total(alloc[p], NumInvoices) + Refunded(p)
  BY <1>a, <1>6 DEF PaymentConserved
<1>13. Total(alloc[p], NumInvoices) \in Nat
  BY <1>b, <1>7, TotalNat
<1>14. x <= Total(alloc[p], NumInvoices)
  <2>1. Refunded(p)' <= payment'[p].amount
    BY <1>a DEF RefundsWithinPayment
  <2>2. Refunded(p) + refund[r].amount <= payment[p].amount
    BY <1>9, <1>11, <2>1
  <2>. QED BY <1>3, <1>4, <1>10, <1>12, <1>13, <2>2
<1>15. Total(g, NumInvoices) = x
  <2>1. PICK i \in Nat, j \in Nat : \A k \in Invoices \ {i, j} : alloc[p][k] = 0
    BY <1>a DEF Splittable, Narrow
  <2>. QED BY <1>5, <1>7, <1>14, <2>1, SplitWhole
<1>16. ReceivablesAgree'
  <2>1. \A i \in Invoices : Owed(i)' = Owed(i) + g[i]
    <3>. SUFFICES ASSUME NEW i \in Invoices PROVE Owed(i)' = Owed(i) + g[i]
      OBVIOUS
    <3>1. invoice[i].balance \in Int /\ g[i] \in Int /\ alloc[p][i] \in Nat
      BY <1>a, <1>7, <1>8 DEF TypeOK, InvoiceRow
    <3>2. CASE g[i] = 0
      <4>1. invoice'[i] = invoice[i]
        BY <1>6, <3>2
      <4>. QED BY <3>1, <3>2, <4>1 DEF Owed, TypeOK, InvoiceRow
    <3>3. CASE g[i] # 0
      <4>1. alloc[p][i] # 0
        BY <1>8, <3>1, <3>3
      <4>2. invoice[i].status # "DRAFT"
        BY <1>a, <4>1, AllocatedIssued
      <4>3. invoice'[i].status # "DRAFT" /\ invoice'[i].balance = invoice[i].balance + g[i]
        BY <1>6, <3>3 DEF RestoredStatus
      <4>. QED BY <3>1, <4>2, <4>3 DEF Owed
    <3>. QED BY <3>2, <3>3
  <2>2. ledger'.ar = ledger.ar + Total(g, NumInvoices)
    BY <1>6, <1>15 DEF LedgerPlus
  <2>. QED BY <1>a, <1>8, <2>1, <2>2, AllOweMore
<1>17. CashAgrees'
  <2>1. PICK d \in Int : d = -refund[r].amount
    BY <1>3
  <2>2. Kept(p)' = Kept(p) + d
    <3>1. /\ Kept(p)' = payment[p].amount - (Refunded(p) + refund[r].amount)
          /\ Kept(p) = payment[p].amount - Refunded(p)
      BY <1>6, <1>9, <1>11 DEF Kept
    <3>. QED BY <1>3, <1>10, <2>1, <3>1
  <2>3. \A k \in Payments \ {p} : Kept(k)' = Kept(k)
    BY <1>9, <1>10, <1>11 DEF Kept
  <2>4. ledger'.cash = ledger.cash + d
    BY <1>6, <2>1 DEF LedgerPlus
  <2>. QED BY <1>a, <2>2, <2>3, <2>4, OneKeepsMore
<1>18. PaymentConserved'
  <2>1. Total(alloc[p], NumInvoices) = Total(alloc'[p], NumInvoices) + Total(g, NumInvoices)
    <3>1. /\ alloc'[p] \in [1..NumInvoices -> Int] /\ alloc[p] \in [1..NumInvoices -> Int]
          /\ g \in [1..NumInvoices -> Int]
      BY <1>a, <1>b, <1>7, <1>8 DEF TypeOK
    <3>2. \A i \in 1..NumInvoices : alloc'[p][i] = alloc[p][i] - g[i]
      BY <1>b, <1>11
    <3>3. \A i \in 1..NumInvoices : alloc[p][i] = alloc'[p][i] + g[i]
      <4>. SUFFICES ASSUME NEW i \in 1..NumInvoices PROVE alloc[p][i] = alloc'[p][i] + g[i]
        OBVIOUS
      <4>1. alloc[p][i] \in Int /\ g[i] \in Int
        BY <3>1
      <4>. QED BY <3>2, <4>1
    <3>. QED BY <1>b, <3>1, <3>3, TotalPlus
  <2>2. Total(alloc'[p], NumInvoices) \in Int
    <3>1. alloc'[p] \in [1..NumInvoices -> Int]
      BY <1>a, <1>b DEF TypeOK
    <3>. QED BY <1>b, <3>1, TotalType
  <2>3. payment'[p].amount = payment'[p].unallocated + Total(alloc'[p], NumInvoices) + Refunded(p)'
    BY <1>3, <1>4, <1>9, <1>10, <1>11, <1>12, <1>13, <1>15, <2>1, <2>2
  <2>4. \A k \in Payments \ {p} : Refunded(k)' = Refunded(k)
    BY <1>9, <1>10
  <2>. QED BY <1>a, <1>11, <2>3, <2>4 DEF PaymentConserved
<1>19. \A i \in Invoices : alloc[p][i] = 0 => alloc'[p][i] = 0
  BY <1>8, <1>11
<1>. QED BY <1>11, <1>16, <1>17, <1>18, <1>19 DEF LedgerAgrees

\* A reversal takes out what is left of its payment.
LEMMA ReverseAgrees ==
  ASSUME Serial, LedgerInv, [Next]_vars, NEW p \in Payments, NEW q \in Requests,
         ReversePaymentWrite(q, p)
  PROVE  LedgerAgrees'
<1>a. /\ TypeOK /\ TypeOK' /\ Typed /\ AllSound /\ Applied /\ RefundsUnderDualControl
      /\ ReversalsCurrent /\ ReceivablesAgree /\ CashAgrees /\ PaymentConserved /\ Reversible
  BY PartsKept
<1>b. NumInvoices \in Nat /\ Invoices = 1..NumInvoices
  BY SizesAssumption DEF Invoices
<1>1. /\ request[q].op = "reverse" /\ request[q].payment = p
      /\ OutboxAccepts(<<"payment", p>>) /\ payment[p].status = "SETTLED"
  BY <1>a DEF ReversePaymentWrite, Reversible
<1>2. \A i \in Invoices : request[q].balance[i] = invoice[i].balance
  BY <1>a, <1>1 DEF ReversalsCurrent, OutboxAccepts
<1>3. PICK t : t = Total(alloc[p], NumInvoices)
  OBVIOUS
<1>4. /\ alloc[p] \in [Invoices -> Int] /\ payment[p].unallocated \in Int
      /\ payment[p].amount \in Nat /\ \A i \in Invoices : alloc[p][i] >= 0
  BY <1>a DEF TypeOK, PaymentRow, Applied
<1>5. t \in Int
  BY <1>b, <1>3, <1>4, TotalType
<1>6. /\ invoice' = [i \in Invoices |->
           IF alloc[p][i] = 0 THEN invoice[i]
           ELSE [status |-> RestoredStatus(invoice[i].balance + alloc[p][i], invoice[i].total),
                 total |-> invoice[i].total, balance |-> invoice[i].balance + alloc[p][i]]]
      /\ ledger' = LedgerPlus(t, -(t + payment[p].unallocated), payment[p].unallocated, 0)
      /\ payment' = [payment EXCEPT ![p] =
           [payment[p] EXCEPT !.status = "REVERSED", !.unallocated = 0]]
      /\ alloc' = [alloc EXCEPT ![p] = NoAllocation]
      /\ posted' = posted /\ refund' = refund
  BY <1>a, <1>2, <1>3 DEF ReversePaymentWrite, PostFreshJournal, ReversedCash, TypeOK
<1>7. \A k \in Payments : Refunded(k)' = Refunded(k)
  BY <1>a, <1>6, NoRefundPosted
<1>8. /\ payment'[p].status = "REVERSED"
      /\ \A k \in Payments \ {p} : payment'[k] = payment[k] /\ alloc'[k] = alloc[k]
  BY <1>a, <1>6 DEF TypeOK, PaymentRow
<1>9. ReceivablesAgree'
  <2>1. \A i \in Invoices : Owed(i)' = Owed(i) + alloc[p][i]
    <3>. SUFFICES ASSUME NEW i \in Invoices PROVE Owed(i)' = Owed(i) + alloc[p][i]
      OBVIOUS
    <3>1. invoice[i].balance \in Int /\ alloc[p][i] \in Int
      BY <1>a, <1>4 DEF TypeOK, InvoiceRow
    <3>2. CASE alloc[p][i] = 0
      <4>1. invoice'[i] = invoice[i]
        BY <1>6, <3>2
      <4>. QED BY <3>1, <3>2, <4>1 DEF Owed
    <3>3. CASE alloc[p][i] # 0
      <4>1. invoice[i].status # "DRAFT"
        BY <1>a, <3>3, AllocatedIssued
      <4>2. invoice'[i].status # "DRAFT" /\ invoice'[i].balance = invoice[i].balance + alloc[p][i]
        BY <1>6, <3>3 DEF RestoredStatus
      <4>. QED BY <3>1, <4>1, <4>2 DEF Owed
    <3>. QED BY <3>2, <3>3
  <2>2. ledger'.ar = ledger.ar + Total(alloc[p], NumInvoices)
    BY <1>3, <1>6 DEF LedgerPlus
  <2>. QED BY <1>a, <1>4, <2>1, <2>2, AllOweMore
<1>10. CashAgrees'
  <2>1. PICK d \in Int : d = -(t + payment[p].unallocated)
    BY <1>4, <1>5
  <2>2. Kept(p)' = Kept(p) + d
    <3>1. Kept(p)' = 0 /\ Kept(p) = payment[p].amount - Refunded(p)
      BY <1>1, <1>8 DEF Kept
    <3>2. payment[p].amount = payment[p].unallocated + t + Refunded(p) /\ Refunded(p) \in Nat
      BY <1>a, <1>1, <1>3, RefundedType DEF PaymentConserved
    <3>. QED BY <1>4, <1>5, <2>1, <3>1, <3>2
  <2>3. \A k \in Payments \ {p} : Kept(k)' = Kept(k)
    BY <1>7, <1>8 DEF Kept
  <2>4. ledger'.cash = ledger.cash + d
    BY <1>6, <2>1 DEF LedgerPlus
  <2>. QED BY <1>a, <2>2, <2>3, <2>4, OneKeepsMore
<1>11. PaymentConserved'
  BY <1>a, <1>7, <1>8 DEF PaymentConserved
<1>. QED BY <1>9, <1>10, <1>11 DEF LedgerAgrees

\* Posting and voiding of an invoice, posting of a credit note: one invoice
\* owes more or less, payments and refunds stay.
LEMMA InvoiceAgrees ==
  ASSUME Serial, LedgerInv, [Next]_vars, NEW i \in Invoices,
         \/ \E q \in Requests : PostInvoiceWrite(q, i)
         \/ VoidInvoice(i)
         \/ \E q \in Requests, c \in CreditNotes :
              creditNote[c].invoice = i /\ PostCreditNoteWrite(q, c)
  PROVE  LedgerAgrees'
<1>a. /\ TypeOK /\ TypeOK' /\ Typed /\ AllSound /\ Applied /\ Keyed /\ RefundsUnderDualControl
      /\ ReceivablesAgree /\ CashAgrees /\ PaymentConserved
  BY PartsKept
<1>b. /\ Sound(i) /\ invoice[i].balance \in Int /\ invoice[i].total \in Nat /\ i \in Nat
      /\ ledger.cash \in Int
  BY <1>a DEF AllSound, TypeOK, InvoiceRow, Invoices
<1>1. ASSUME NEW q \in Requests, PostInvoiceWrite(q, i)
      PROVE  /\ \E d \in Int : /\ Owed(i)' = Owed(i) + d /\ ledger'.ar = ledger.ar + d
             /\ \A k \in Invoices \ {i} : invoice'[k] = invoice[k]
             /\ posted' = posted \cup {<<"invoice", i>>} /\ ledger'.cash = ledger.cash
             /\ UNCHANGED <<payment, alloc, refund>>
  <2>1. invoice[i].status = "DRAFT"
    BY <1>1, <1>a DEF PostInvoiceWrite, PostJournal, Keyed
  <2>2. /\ invoice'[i].status = "POSTED" /\ invoice'[i].balance = invoice[i].total
        /\ \A k \in Invoices \ {i} : invoice'[k] = invoice[k]
        /\ ledger' = LedgerPlus(invoice[i].total, 0, 0, -invoice[i].total)
        /\ posted' = posted \cup {<<"invoice", i>>} /\ UNCHANGED <<payment, alloc, refund>>
    BY <1>1, <1>a DEF PostInvoiceWrite, PostJournal, TypeOK
  <2>3. Owed(i)' = Owed(i) + invoice[i].total /\ ledger'.ar = ledger.ar + invoice[i].total
    BY <1>b, <2>1, <2>2 DEF Owed, LedgerPlus
  <2>4. ledger'.cash = ledger.cash
    BY <1>b, <2>2 DEF LedgerPlus
  <2>. QED BY <1>b, <2>2, <2>3, <2>4
<1>2. ASSUME VoidInvoice(i)
      PROVE  /\ \E d \in Int : /\ Owed(i)' = Owed(i) + d /\ ledger'.ar = ledger.ar + d
             /\ \A k \in Invoices \ {i} : invoice'[k] = invoice[k]
             /\ posted' = posted \cup {<<"void", i>>} /\ ledger'.cash = ledger.cash
             /\ UNCHANGED <<payment, alloc, refund>>
  <2>1. invoice[i].status = "POSTED" /\ invoice[i].balance = invoice[i].total
    BY <1>2, <1>b DEF VoidInvoice, Voidable, Sound
  <2>2. /\ invoice'[i].balance = 0 /\ invoice'[i].status = "VOID"
        /\ \A k \in Invoices \ {i} : invoice'[k] = invoice[k]
        /\ ledger' = LedgerPlus(-invoice[i].total, 0, 0, invoice[i].total)
        /\ posted' = posted \cup {<<"void", i>>} /\ UNCHANGED <<payment, alloc, refund>>
    BY <1>2, <1>a DEF VoidInvoice, PostJournal, TypeOK
  <2>3. PICK d \in Int : d = -invoice[i].total
    BY <1>b
  <2>4. Owed(i)' = Owed(i) + d /\ ledger'.ar = ledger.ar + d
    BY <1>b, <2>1, <2>2, <2>3 DEF Owed, LedgerPlus
  <2>5. ledger'.cash = ledger.cash
    BY <1>b, <2>2 DEF LedgerPlus
  <2>. QED BY <2>2, <2>4, <2>5
<1>3. ASSUME NEW q \in Requests, NEW c \in CreditNotes, creditNote[c].invoice = i,
             PostCreditNoteWrite(q, c)
      PROVE  /\ \E d \in Int : /\ Owed(i)' = Owed(i) + d /\ ledger'.ar = ledger.ar + d
             /\ \A k \in Invoices \ {i} : invoice'[k] = invoice[k]
             /\ posted' = posted \cup {<<"credit", c>>} /\ ledger'.cash = ledger.cash
             /\ UNCHANGED <<payment, alloc, refund>>
  <2>1. invoice[i].status # "DRAFT"
    <3>1. request[q] = Crediting(c)
      BY <1>3 DEF PostCreditNoteWrite
    <3>2. creditNote[c].status # "NONE"
      BY <1>a, <3>1 DEF Typed, Linked, Crediting
    <3>. QED BY <1>3, <1>a, <3>2 DEF Applied
  <2>2. /\ invoice'[i].balance = invoice[i].balance - creditNote[c].total
        /\ invoice'[i].status # "DRAFT"
        /\ \A k \in Invoices \ {i} : invoice'[k] = invoice[k]
        /\ ledger' = LedgerPlus(-creditNote[c].total, 0, 0, creditNote[c].total)
        /\ posted' = posted \cup {<<"credit", c>>} /\ UNCHANGED <<payment, alloc, refund>>
    BY <1>3, <1>a DEF PostCreditNoteWrite, PostJournal, ReducedStatus, TypeOK
  <2>3. PICK d \in Int : d = -creditNote[c].total /\ creditNote[c].total \in Nat
    BY <1>a DEF TypeOK, CreditNoteRow
  <2>4. Owed(i)' = Owed(i) + d /\ ledger'.ar = ledger.ar + d
    BY <1>b, <2>1, <2>2, <2>3 DEF Owed, LedgerPlus
  <2>5. ledger'.cash = ledger.cash
    BY <1>b, <2>2 DEF LedgerPlus
  <2>. QED BY <2>2, <2>4, <2>5
<1>4. /\ \E d \in Int : /\ Owed(i)' = Owed(i) + d /\ ledger'.ar = ledger.ar + d
      /\ \A k \in Invoices \ {i} : invoice'[k] = invoice[k]
      /\ \E n \in Nat : \/ posted' = posted \cup {<<"invoice", n>>}
                        \/ posted' = posted \cup {<<"void", n>>}
                        \/ posted' = posted \cup {<<"credit", n>>}
      /\ ledger'.cash = ledger.cash /\ UNCHANGED <<payment, alloc, refund>>
  <2>1. CreditNotes \subseteq Nat
    BY DEF CreditNotes
  <2>. QED BY <1>b, <1>1, <1>2, <1>3, <2>1
<1>5. ReceivablesAgree'
  <2>1. \A k \in Invoices \ {i} : Owed(k)' = Owed(k)
    BY <1>4 DEF Owed
  <2>. QED BY <1>a, <1>4, <2>1, OneOwesMore
<1>6. \A p \in Payments : Refunded(p)' = Refunded(p)
  <2>1. /\ posted' \subseteq posted \cup ({"invoice", "void", "credit", "payment"} \X Nat)
        /\ posted \subseteq posted' /\ refund' = refund
    BY <1>4
  <2>. QED BY <1>a, <2>1, NoRefundPosted
<1>7. CashAgrees' /\ PaymentConserved'
  BY <1>a, <1>4, <1>6, KeptSame
<1>. QED BY <1>5, <1>7 DEF LedgerAgrees

\* Every step keeps the accounts in agreement.
LEMMA AgreementKept ==
  ASSUME Serial, LedgerInv, [Next]_vars
  PROVE  LedgerAgrees'
<1>a. TypeOK /\ TypeOK' /\ Typed /\ RefundsUnderDualControl /\ RefundsUnderDualControl'
  BY PartsKept
<1>b. LedgerAgrees
  BY DEF LedgerInv
<1>1. ASSUME NEW i \in Invoices, VoidInvoice(i) PROVE LedgerAgrees'
  BY <1>1, InvoiceAgrees
<1>2. ASSUME NEW i \in Invoices, NEW q \in Requests, PostInvoiceWrite(q, i) PROVE LedgerAgrees'
  BY <1>2, InvoiceAgrees
<1>3. ASSUME NEW q \in Requests, NEW c \in CreditNotes, PostCreditNoteWrite(q, c) PROVE LedgerAgrees'
  <2>1. creditNote[c].status # "NONE"
    BY <1>3, <1>a DEF PostCreditNoteWrite, Crediting, Typed, Linked
  <2>2. creditNote[c].invoice \in Invoices
    BY <1>a, <2>1 DEF Typed, Linked
  <2>. QED BY <1>3, <2>2, InvoiceAgrees
<1>4. ASSUME NEW q \in Requests, NEW what, Begin(q, what) PROVE LedgerAgrees'
  BY <1>4, <1>a, <1>b, AccountsSame DEF Begin
<1>5. ASSUME NEW q \in Requests, NEW c \in CreditNotes, NEW i \in Invoices, NEW x \in Amounts,
             CreateCreditNoteWrite(q, c, i, x)
      PROVE  LedgerAgrees'
  BY <1>5, <1>a, <1>b, AccountsSame DEF CreateCreditNoteWrite
<1>6. ASSUME NEW p \in Payments, NEW x \in Amounts, NEW a \in [Invoices -> 0..MaxAmount],
             Settle(p, x, a)
      PROVE  LedgerAgrees'
  BY <1>6, SettleAgrees
<1>7. ASSUME NEW p \in Payments, NEW a \in [Invoices -> 0..MaxAmount], Allocate(p, a)
      PROVE  LedgerAgrees'
  BY <1>7, AllocateAgrees
<1>8. ASSUME NEW p \in Payments, NEW q \in Requests, ReversePaymentWrite(q, p) PROVE LedgerAgrees'
  BY <1>8, ReverseAgrees
<1>9. ASSUME NEW r \in Refunds, NEW u \in Users, NEW p \in Payments, NEW x \in Amounts,
             RequestRefund(r, p, x, u)
      PROVE  LedgerAgrees'
  <2>1. \A k \in Refunds : refund[k].status # "EXECUTED" \/ refund'[k] = refund[k]
    BY <1>9, <1>a DEF RequestRefund, TypeOK
  <2>. QED BY <1>9, <1>a, <1>b, <2>1, AccountsSame DEF RequestRefund
<1>10. ASSUME NEW r \in Refunds, NEW u \in Users, NEW q \in Requests,
              NEW d \in {"APPROVED", "REJECTED"}, ApproveRefundWrite(q, r, u, d)
       PROVE  LedgerAgrees'
  <2>1. refund[r].status = "PENDING"
    BY <1>10 DEF ApproveRefundWrite, Approving, LedgerInv, RefundInv, OneAtATime
  <2>2. \A k \in Refunds : refund[k].status # "EXECUTED" \/ refund'[k] = refund[k]
    BY <1>10, <1>a, <2>1 DEF ApproveRefundWrite, TypeOK
  <2>. QED BY <1>10, <1>a, <1>b, <2>2, AccountsSame DEF ApproveRefundWrite
<1>11. ASSUME NEW r \in Refunds, NEW u \in Users, ExecuteRefund(r, u) PROVE LedgerAgrees'
  BY <1>11, RefundAgrees
<1>12. ASSUME NEW q \in Requests, RollBack(q) PROVE LedgerAgrees'
  BY <1>12, <1>a, <1>b, AccountsSame DEF RollBack
<1>13. CASE UNCHANGED vars
  BY <1>13, <1>a, <1>b, AccountsSame DEF vars
<1>14. CASE InvoiceNext
  BY <1>1, <1>2, <1>4, <1>14 DEF InvoiceNext, PostInvoiceRead
<1>15. CASE CreditNoteNext
  BY <1>3, <1>4, <1>5, <1>15 DEF CreditNoteNext, CreateCreditNoteRead, PostCreditNoteRead
<1>16. CASE PaymentNext
  BY <1>4, <1>6, <1>7, <1>8, <1>16
     DEF PaymentNext, RecordManual, SettleFromIntent, ReversePaymentRead
<1>17. CASE RefundNext
  BY <1>4, <1>9, <1>10, <1>11, <1>17 DEF RefundNext, ApproveRefundRead
<1>. QED BY <1>12, <1>13, <1>14, <1>15, <1>16, <1>17 DEF Next

\* What an allocation could leave a remainder of never arises.
LEMMA SplittableKept ==
  ASSUME Serial, ~SequencedOutbox \/ NumInvoices <= 2, LedgerInv, [Next]_vars
  PROVE  Splittable'
<1>a. TypeOK /\ TypeOK' /\ Keyed /\ Splittable
  BY PartsKept
<1>1. CASE NumInvoices <= 2
  <2>1. \A a : Narrow(a)
    <3>1. Invoices \ {1, 2} = {}
      BY <1>1, SizesAssumption DEF Invoices
    <3>. QED BY <3>1 DEF Narrow
  <2>. QED BY <2>1 DEF Splittable
<1>2. CASE ~SequencedOutbox
  <2>1. ASSUME NEW p \in Payments, \A k \in Payments \ {p} : alloc'[k] = alloc[k],
               \/ \A i \in Invoices : alloc[p][i] = 0 => alloc'[p][i] = 0
               \/ \E j \in Invoices : \A i \in Invoices \ {j} : alloc'[p][i] = 0
               \/ \A i \in Invoices : alloc'[p][i] = 0
        PROVE  Splittable'
    <3>1. Narrow(alloc'[p])
      <4>1. CASE \A i \in Invoices : alloc[p][i] = 0 => alloc'[p][i] = 0
        BY <1>a, <4>1 DEF Splittable, Narrow
      <4>2. ASSUME NEW j \in Invoices, \A i \in Invoices \ {j} : alloc'[p][i] = 0
            PROVE  Narrow(alloc'[p])
        <5>1. j \in Nat
          BY SizesAssumption DEF Invoices
        <5>. QED BY <4>2, <5>1 DEF Narrow
      <4>3. CASE \A i \in Invoices : alloc'[p][i] = 0
        <5>1. 1 \in Nat
          OBVIOUS
        <5>. QED BY <4>3, <5>1 DEF Narrow
      <4>. QED BY <2>1, <4>1, <4>2, <4>3
    <3>2. \A k \in Payments \ {p} : Narrow(alloc'[k])
      BY <1>a, <2>1 DEF Splittable
    <3>3. \A k \in Payments : Narrow(alloc'[k])
      BY <3>1, <3>2
    <3>. QED BY <3>3 DEF Splittable, Narrow
  <2>2. ASSUME NEW p \in Payments, NEW x \in Amounts, NEW a \in [Invoices -> 0..MaxAmount],
               RecordManual(p, x, a) \/ SettleFromIntent(p, x, a)
        PROVE  Splittable'
    <3>1. a = NoAllocation \/ \E j \in Invoices : a = OnInvoice(j, x)
      BY <1>2, <2>2 DEF RecordManual, SettleFromIntent
    <3>2. alloc'[p] = a /\ \A k \in Payments \ {p} : alloc'[k] = alloc[k]
      BY <1>a, <2>2 DEF RecordManual, SettleFromIntent, Settle, TypeOK
    <3>3. \/ \A i \in Invoices : a[i] = 0
          \/ \E j \in Invoices : \A i \in Invoices \ {j} : a[i] = 0
      BY <3>1 DEF NoAllocation, OnInvoice
    <3>. QED BY <2>1, <3>2, <3>3
  <2>3. ASSUME NEW p \in Payments, NEW a \in [Invoices -> 0..MaxAmount], Allocate(p, a) PROVE FALSE
    BY <1>2, <1>a, <2>3 DEF Allocate, Keyed, OutboxAccepts
  <2>4. ASSUME NEW p \in Payments, NEW q \in Requests, ReversePaymentWrite(q, p) PROVE Splittable'
    <3>1. /\ \A i \in Invoices : alloc'[p][i] = 0
          /\ \A k \in Payments \ {p} : alloc'[k] = alloc[k]
      BY <1>a, <2>4 DEF ReversePaymentWrite, NoAllocation, TypeOK
    <3>. QED BY <2>1, <3>1
  <2>5. ASSUME NEW r \in Refunds, NEW u \in Users, ExecuteRefund(r, u) PROVE Splittable'
    BY <2>1, <2>5, RefundAgrees
  <2>6. CASE UNCHANGED alloc
    BY <1>a, <2>6 DEF Splittable, Narrow
  <2>7. CASE InvoiceNext
    <3>1. UNCHANGED alloc
      BY <2>7 DEF InvoiceNext, VoidInvoice, PostInvoiceRead, PostInvoiceWrite, Begin
    <3>. QED BY <2>6, <3>1
  <2>8. CASE CreditNoteNext
    <3>1. UNCHANGED alloc
      BY <2>8 DEF CreditNoteNext, CreateCreditNoteRead, CreateCreditNoteWrite, PostCreditNoteRead,
                  PostCreditNoteWrite, Begin
    <3>. QED BY <2>6, <3>1
  <2>9. CASE PaymentNext
    <3>1. ASSUME NEW p \in Payments, NEW q \in Requests, ReversePaymentRead(q, p) PROVE UNCHANGED alloc
      BY <3>1 DEF ReversePaymentRead, Begin
    <3>. QED BY <2>2, <2>3, <2>4, <2>6, <2>9, <3>1 DEF PaymentNext
  <2>10. CASE RefundNext
    <3>1. \/ UNCHANGED alloc
          \/ \E r \in Refunds, u \in Users : ExecuteRefund(r, u)
      BY <2>10 DEF RefundNext, RequestRefund, ApproveRefundRead, ApproveRefundWrite, Begin
    <3>. QED BY <2>5, <2>6, <3>1
  <2>11. CASE UNCHANGED vars \/ \E q \in Requests : RollBack(q)
    <3>1. UNCHANGED alloc
      BY <2>11 DEF vars, RollBack
    <3>. QED BY <2>6, <3>1
  <2>. QED BY <2>7, <2>8, <2>9, <2>10, <2>11 DEF Next
<1>. QED BY <1>1, <1>2

\* No step takes a payment that is being reversed out of SETTLED but the reversal.
LEMMA ReversibleKept ==
  ASSUME Serial, LedgerInv, [Next]_vars
  PROVE  Reversible'
<1>a. TypeOK /\ TypeOK' /\ Reversible
  BY PartsKept
<1>b. \A q1, q2 \in Requests : request[q1] # Idle /\ request[q2] # Idle => q1 = q2
  BY DEF LedgerInv, RefundInv, OneAtATime
<1>1. ASSUME NEW q \in Requests, NEW what, Begin(q, what),
             what.op = "reverse" => payment[what.payment].status = "SETTLED"
      PROVE  Reversible'
  BY <1>1, <1>a DEF Begin, Reversible, TypeOK
<1>2. ASSUME NEW q \in Requests, request[q] # Idle, End(q) PROVE Reversible'
  <2>1. \A k \in Requests : request'[k] = Idle
    BY <1>2, <1>a, <1>b DEF End, TypeOK
  <2>. QED BY <2>1 DEF Reversible, Idle
<1>3. ASSUME MayStart, request' = request PROVE Reversible'
  BY <1>3 DEF MayStart, Reversible, Idle
<1>4. CASE UNCHANGED vars
  BY <1>4, <1>a DEF vars, Reversible
<1>5. CASE InvoiceNext
  <2>1. ASSUME NEW i \in Invoices, VoidInvoice(i) PROVE Reversible'
    BY <1>3, <2>1 DEF VoidInvoice
  <2>2. ASSUME NEW i \in Invoices, NEW q \in Requests, PostInvoiceRead(q, i) PROVE Reversible'
    BY <1>1, <2>2 DEF PostInvoiceRead, Posting
  <2>3. ASSUME NEW i \in Invoices, NEW q \in Requests, PostInvoiceWrite(q, i) PROVE Reversible'
    BY <1>2, <2>3 DEF PostInvoiceWrite, Posting, Idle
  <2>. QED BY <1>5, <2>1, <2>2, <2>3 DEF InvoiceNext
<1>6. CASE CreditNoteNext
  <2>1. ASSUME NEW q \in Requests, NEW i \in Invoices, NEW x \in Amounts, CreateCreditNoteRead(q, i, x)
        PROVE  Reversible'
    BY <1>1, <2>1 DEF CreateCreditNoteRead, Drafting
  <2>2. ASSUME NEW q \in Requests, NEW c \in CreditNotes, NEW i \in Invoices, NEW x \in Amounts,
               CreateCreditNoteWrite(q, c, i, x)
        PROVE  Reversible'
    BY <1>2, <2>2 DEF CreateCreditNoteWrite, Drafting, Idle
  <2>3. ASSUME NEW q \in Requests, NEW c \in CreditNotes, PostCreditNoteRead(q, c) PROVE Reversible'
    BY <1>1, <2>3 DEF PostCreditNoteRead, Crediting
  <2>4. ASSUME NEW q \in Requests, NEW c \in CreditNotes, PostCreditNoteWrite(q, c) PROVE Reversible'
    BY <1>2, <2>4 DEF PostCreditNoteWrite, Crediting, Idle
  <2>. QED BY <1>6, <2>1, <2>2, <2>3, <2>4 DEF CreditNoteNext
<1>7. CASE PaymentNext
  <2>1. ASSUME NEW p \in Payments, NEW x \in Amounts, NEW a \in [Invoices -> 0..MaxAmount],
               RecordManual(p, x, a) \/ SettleFromIntent(p, x, a)
        PROVE  Reversible'
    BY <1>3, <2>1 DEF RecordManual, SettleFromIntent, Settle
  <2>2. ASSUME NEW p \in Payments, NEW a \in [Invoices -> 0..MaxAmount], Allocate(p, a)
        PROVE  Reversible'
    BY <1>3, <2>2 DEF Allocate
  <2>3. ASSUME NEW p \in Payments, NEW q \in Requests, ReversePaymentRead(q, p) PROVE Reversible'
    BY <1>1, <2>3 DEF ReversePaymentRead, Reversing
  <2>4. ASSUME NEW p \in Payments, NEW q \in Requests, ReversePaymentWrite(q, p) PROVE Reversible'
    BY <1>2, <2>4 DEF ReversePaymentWrite, Idle
  <2>. QED BY <1>7, <2>1, <2>2, <2>3, <2>4 DEF PaymentNext
<1>8. CASE RefundNext
  <2>1. ASSUME NEW r \in Refunds, NEW u \in Users, NEW p \in Payments, NEW x \in Amounts,
               RequestRefund(r, p, x, u)
        PROVE  Reversible'
    BY <1>3, <2>1 DEF RequestRefund
  <2>2. ASSUME NEW r \in Refunds, NEW u \in Users, NEW q \in Requests, ApproveRefundRead(q, r, u)
        PROVE  Reversible'
    BY <1>1, <2>2 DEF ApproveRefundRead, Approving
  <2>3. ASSUME NEW r \in Refunds, NEW u \in Users, NEW q \in Requests,
               NEW d \in {"APPROVED", "REJECTED"}, ApproveRefundWrite(q, r, u, d)
        PROVE  Reversible'
    BY <1>2, <2>3 DEF ApproveRefundWrite, Approving, Idle
  <2>4. ASSUME NEW r \in Refunds, NEW u \in Users, ExecuteRefund(r, u) PROVE Reversible'
    BY <1>3, <2>4 DEF ExecuteRefund
  <2>. QED BY <1>8, <2>1, <2>2, <2>3, <2>4 DEF RefundNext
<1>9. ASSUME NEW q \in Requests, RollBack(q) PROVE Reversible'
  BY <1>2, <1>9 DEF RollBack
<1>. QED BY <1>4, <1>5, <1>6, <1>7, <1>8, <1>9 DEF Next

\* Nothing is owed, kept or allocated yet.
LEMMA BooksStart == Init => LedgerInv
<1>. SUFFICES ASSUME Init PROVE LedgerInv
  OBVIOUS
<1>1. /\ NumInvoices \in Nat /\ Invoices = 1..NumInvoices /\ NumPayments \in Nat
      /\ Payments = 1..NumPayments /\ 1 \in Nat
  BY SizesAssumption DEF Invoices, Payments
<1>2. Splittable /\ Reversible
  BY <1>1 DEF Init, Splittable, Narrow, Reversible, Idle
<1>3. ReceivablesAgree
  <2>1. [i \in Invoices |-> IF invoice[i].status = "DRAFT" THEN 0 ELSE invoice[i].balance]
        = [k \in 1..NumInvoices |-> 0]
    BY <1>1 DEF Init
  <2>. QED BY <1>1, <2>1, TotalZero DEF Init, ReceivablesAgree
<1>4. CashAgrees
  <2>1. [p \in Payments |-> IF payment[p].status = "SETTLED"
                            THEN payment[p].amount - Refunded(p) ELSE 0]
        = [k \in 1..NumPayments |-> 0]
    BY <1>1 DEF Init
  <2>. QED BY <1>1, <2>1, TotalZero DEF Init, CashAgrees
<1>5. PaymentConserved
  BY DEF Init, PaymentConserved
<1>. QED BY <1>2, <1>3, <1>4, <1>5, RefundInit, InvoiceInit DEF LedgerInv, LedgerAgrees

\* LedgerAgrees: one transaction at a time, the receivables and cash accounts are what
\* the rows of the invoices and payments say, and a settled payment is unallocated,
\* allocated or refunded, no part of it twice: under the outbox as it is for tables of
\* any size, and with a sequenced one where a payment has no more than two invoices to
\* go to.  With three, the rounded shares of a refund can leave a remainder that no
\* invoice gets back.
THEOREM AccountsAgree ==
  ASSUME Serial, ~SequencedOutbox \/ NumInvoices <= 2
  PROVE  Spec => []LedgerAgrees
<1>1. LedgerInv /\ [Next]_vars => LedgerInv'
  BY PartsKept, AgreementKept, SplittableKept, ReversibleKept DEF LedgerInv
<1>2. LedgerInv => LedgerAgrees
  BY DEF LedgerInv
<1>. QED BY <1>1, <1>2, BooksStart, PTL DEF Spec

=============================================================================
