SPECIFICATION Spec
SYMMETRY Symmetry
CHECK_DEADLOCK FALSE
CONSTANTS
  NumInvoices = 2
  NumPayments = 2
  NumRefunds = 1
  NumCreditNotes = 1
  MaxAmount = 2
  Users = {ann, bob, eve}
  Requests = {r1}
  None = None
  Serial = TRUE
  SequencedOutbox = TRUE
INVARIANTS
  TypeOK
  UnappliedAgrees
  LedgerAgrees
  StatusMatchesBalance
