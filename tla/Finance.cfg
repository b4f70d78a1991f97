\* Refunds, charging runs, deposits, reconciliation.
SPECIFICATION FinanceSpec
CONSTANTS
  \* payments and refunds
  NumInvoices = 2
  NumPayments = 1
  NumRefunds = 2
  NumCreditNotes = 0
  MaxAmount = 2
  Users = {ann, bob, eve}
  Requests = {r1}
  None = None
  Serial = TRUE
  SequencedOutbox = TRUE
  \* charging
  Leases = {l1, l2}
  BillingRuns = {b1, b2}
  UtilityRuns = {u1, u2}
  ChargeRequests = {q1, q2}
  NoRun = NoRun
  MaxRunVersion = 4
  SequencedCharges = FALSE
  \* deposits
  NumLines = 2
  DepositUsers = {ann, bob, eve}
  Nobody = Nobody
  DepositAmounts = {1, 2}
  LineAmounts = {1}
  Approvals = {p1, p2}
  SequencedDeposits = FALSE
  \* reconciliation
  Receipts = {p1}
  Runs = {r1}
  Items = {i1, i2}
  Clerks = {ann, bob, eve}
  NoOne = NoOne
  ReconAmounts = {1}
  Transactions = {t1}
  SequencedRecon = FALSE
INVARIANTS
  FinanceTypeOK
  RefundsWithinPayment
  RefundsUnderDualControl
  ChargesFit
  LiabilityFollowsHeld
  RunsAgree
\* kinds of charging runs are not mixed
CONSTRAINT RunsInScope
SYMMETRY StaffSymmetry
\* bounds on versions, amounts and rows stop every part
CHECK_DEADLOCK FALSE
