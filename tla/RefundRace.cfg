SPECIFICATION Spec
SYMMETRY Symmetry
CHECK_DEADLOCK FALSE
CONSTANTS
  NumInvoices = 1
  NumPayments = 1
  NumRefunds = 2
  NumCreditNotes = 0
  MaxAmount = 1
  Users = {ann, bob, eve}
  Requests = {r1, r2}
  None = None
  Serial = FALSE
  SequencedOutbox = FALSE
INVARIANTS
  RefundsWithinPayment
