------------------------------ MODULE Journals ------------------------------
(***************************************************************************)
(* The general ledger: what LedgerService writes for each business event.  *)
(* Every posting builds its lines and hands them to postBalancedJournal,   *)
(* which refuses a journal that does not balance and inserts the lines one *)
(* by one inside the caller's transaction.  A posting key is unique per    *)
(* tenant; PostgreSQL gives up the whole transaction at the first line     *)
(* whose key is taken.                                                     *)
(*                                                                         *)
(* Amounts are numbers of cents; roundMoney has nothing left to round.     *)
(* The lines of a journal differ in their keys, so it is a set of them.    *)
(***************************************************************************)
EXTENDS Integers, FiniteSets, Functions

CONSTANTS Sources,       \* invoices, credit notes, payments, refunds, dispositions
          Batches,       \* ids that tell the settlement journals of a payment apart
          Cents,         \* amounts a posting may carry, 0 among them
          MaxJournals

ASSUME JournalAssumption == Cents \subseteq Nat /\ MaxJournals \in Nat

VARIABLES entries,       \* the committed entries
          journals       \* how many journals were posted

journalVars == <<entries, journals>>

Accounts == {"AR", "REVENUE", "DEPOSIT_LIABILITY", "CASH", "BANK", "UNAPPLIED"}

Line(account, side, amount, key) ==
  [account |-> account, side |-> side, amount |-> amount, key |-> key]
Debit(account, amount, key) == Line(account, "DEBIT", amount, key)
Credit(account, amount, key) == Line(account, "CREDIT", amount, key)

\* Lines of nothing are left out.
NonZero(lines) == {l \in lines : l.amount > 0}

CashAccount(channel) == IF channel = "CASH" THEN "CASH" ELSE "BANK"

---------------------------------------------------------------------------

InvoiceLines(i, amount) ==
  {Debit("AR", amount, <<"invoice", i, "ar">>),
   Credit("REVENUE", amount, <<"invoice", i, "revenue">>)}

VoidLines(i, amount) ==
  {Debit("REVENUE", amount, <<"void", i, "revenue">>),
   Credit("AR", amount, <<"void", i, "ar">>)}

CreditNoteLines(n, amount) ==
  {Debit("REVENUE", amount, <<"credit_note", n, "revenue">>),
   Credit("AR", amount, <<"credit_note", n, "ar">>)}

\* A later allocation moves unapplied money to the receivables; a settlement takes
\* in the cash and splits it into what is allocated and what is not.
UnappliedLines(p, batch, amount) ==
  {Debit("UNAPPLIED", amount, <<"payment", p, batch, "unapplied">>),
   Credit("AR", amount, <<"payment", p, batch, "ar">>)}

SettlementLines(p, batch, channel, cash, amount) ==
  {Debit(CashAccount(channel), cash, <<"payment", p, batch, "cash">>)}
  \cup NonZero({Credit("AR", amount, <<"payment", p, batch, "ar">>),
                Credit("UNAPPLIED", cash - amount, <<"payment", p, batch, "unapplied">>)})

\* Reversals and refunds give the money back out of what was allocated and what was not.
OutOf(kind, s, channel, fromAr, fromUnapplied, amount) ==
  NonZero({Debit("AR", fromAr, <<kind, s, "ar">>),
           Debit("UNAPPLIED", fromUnapplied, <<kind, s, "unapplied">>)})
  \cup {Credit(CashAccount(channel), amount, <<kind, s, "cash">>)}

ReversalLines(r, channel, allocated, unallocated) ==
  OutOf("payment_reversal", r, channel, allocated, unallocated, allocated + unallocated)

RefundLines(r, channel, fromAr, fromUnapplied, amount) ==
  OutOf("refund", r, channel, fromAr, fromUnapplied, amount)

Offset == [REFUND |-> "CASH", FORFEIT |-> "REVENUE", DEDUCTION |-> "AR"]

DispositionLines(d, type, amount) ==
  {Debit("DEPOSIT_LIABILITY", amount, <<"deposit_disposition", d, "liability">>),
   Credit(Offset[type], amount, <<"deposit_disposition", d, "offset">>)}

---------------------------------------------------------------------------

\* What a set of lines has on one side.
Side(lines, side) ==
  SumFunctionOnSet([l \in lines |-> l.amount], {l \in lines : l.side = side})

\* At least two lines, every amount positive, debits equal to credits.
Balanced(lines) ==
  /\ Cardinality(lines) >= 2
  /\ \A l \in lines : l.amount > 0
  /\ Side(lines, "DEBIT") = Side(lines, "CREDIT")

\* A faulty variant of Entered: a line whose key is taken is skipped, the rest stays.
EnteredLineByLine(lines) == {l \in lines : \A e \in entries : e.key # l.key}

\* The lines that are in the ledger once the transaction is over.
Entered(lines) ==
  IF \E l \in lines, e \in entries : e.key = l.key THEN {} ELSE lines

\* postBalancedJournal: a refused journal takes the operation that asked with it.
PostBalanced(lines) ==
  /\ journals < MaxJournals
  /\ Balanced(lines) /\ {l.account : l \in lines} \subseteq Accounts
  /\ entries' = entries \cup Entered(lines)
  /\ journals' = journals + 1

---------------------------------------------------------------------------

JournalInit == entries = {} /\ journals = 0

\* Nothing is posted for nothing; a settlement is also posted when cash came in
\* and none of it was allocated.
JournalNext ==
  \E s \in Sources, batch \in Batches, amount \in Cents, channel \in {"CASH", "BANK_TRANSFER"} :
    \/ amount > 0 /\ PostBalanced(InvoiceLines(s, amount))
    \/ amount > 0 /\ PostBalanced(VoidLines(s, amount))
    \/ amount > 0 /\ PostBalanced(CreditNoteLines(s, amount))
    \/ amount > 0 /\ PostBalanced(UnappliedLines(s, batch, amount))
    \/ \E cash \in Cents : cash > 0 /\ PostBalanced(SettlementLines(s, batch, channel, cash, amount))
    \/ \E rest \in Cents : amount + rest > 0 /\ PostBalanced(ReversalLines(s, channel, amount, rest))
    \/ \E fromAr, rest \in Cents :
         amount > 0 /\ PostBalanced(RefundLines(s, channel, fromAr, rest, amount))
    \/ \E type \in DOMAIN Offset : amount > 0 /\ PostBalanced(DispositionLines(s, type, amount))

JournalSpec == JournalInit /\ [][JournalNext]_journalVars

---------------------------------------------------------------------------

\* The type invariant of the module.
JournalTypeOK ==
  /\ journals \in 0..MaxJournals
  /\ \A e \in entries : e.account \in Accounts /\ e.side \in {"DEBIT", "CREDIT"} /\ e.amount > 0

\* The ledger balances whatever is posted in whatever order, with whatever split
\* between allocated and unapplied money, and when a posting is repeated under keys
\* some of which are taken: none of its lines stays behind.
LedgerBalances == Side(entries, "DEBIT") = Side(entries, "CREDIT")
=============================================================================
