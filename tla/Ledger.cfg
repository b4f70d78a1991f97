\* Overlapping receivable operations, keys recorded last, settlements, numbers, journals.
SPECIFICATION LedgerSpec
CONSTANTS
  \* receivables
  NumInvoices = 2
  NumPayments = 1
  NumRefunds = 1
  NumCreditNotes = 1
  MaxAmount = 2
  Users = {ann, bob, eve}
  Requests = {r1, r2}
  None = None
  Serial = FALSE
  SequencedOutbox = FALSE
  \* idempotency keys
  Attempts = {r1, r2, r3}
  Hashes = {h1, h2}
  Nobody = Nobody
  ReserveFirst = FALSE
  \* settlements
  Intents = {i1}
  ProviderEvents = {e1, e2}
  ProviderPayments = {pp1}
  References = {ref1}
  NoId = NoId
  Deliveries = {d1, d2}
  Recorders = {m1}
  MaxPayments = 2
  \* numbers
  Postings = {t1, t2, t3, t4}
  Years = {1, 2}
  Counters = {1, 2}
  \* journals
  Sources = {s1}
  Batches = {b1, b2}
  Cents = {0, 1, 2}
  MaxJournals = 2
INVARIANTS
  LedgerTypeOK
  OneRequestPerKey
  InvoiceConserved
  AcceptedIsSettled
  NumbersWithoutGap
  LedgerBalances
PROPERTY
  VoidIsFinal
SYMMETRY LedgerSymmetry
\* bounds on amounts and rows stop every part
CHECK_DEADLOCK FALSE
