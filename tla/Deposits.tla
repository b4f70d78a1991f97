------------------------------- MODULE Deposits -------------------------------
(***************************************************************************)
(* The security deposit of a lease and its disposition                     *)
(* (apps/api/src/modules/billing/application/deposit.service.ts and        *)
(* modules/payments/application/deposit-disposition.service.ts).           *)
(*                                                                         *)
(* Activating a lease makes the deposit due.  Disposition lines are        *)
(* requested against what is held and not yet spoken for, approved by a    *)
(* second user and executed by a third.  Requesting locks the deposit,     *)
(* executing locks line and deposit; approving reads the line without a    *)
(* lock and updates it by its id.                                          *)
(*                                                                         *)
(* No code of the program raises amount_held: the money comes in from      *)
(* outside (payments.integration.spec.ts writes the row).                  *)
(***************************************************************************)
EXTENDS Totals, FiniteSets

CONSTANTS
  NumLines,          \* disposition lines that may be requested
  DepositUsers,
  Nobody,            \* SQL NULL of a user id
  DepositAmounts,    \* amounts a deposit may be collected in
  LineAmounts,       \* amounts of a line
  Approvals,         \* approval requests that may be open at once
  SequencedDeposits  \* outbox events of one aggregate get distinct sequences

Lines == 1..NumLines
Types == {"REFUND", "FORFEIT", "DEDUCTION", "TRANSFER", "REMAINING_HELD"}

ASSUME DepositAssumption ==
  /\ NumLines \in Nat /\ Nobody \notin DepositUsers /\ SequencedDeposits \in BOOLEAN
  /\ DepositAmounts \subseteq Nat /\ LineAmounts \subseteq Nat \ {0}

VARIABLES
  deposit,    \* the row of security_deposits: status and amount_held
  line,       \* rows of security_deposit_disposition_lines
  liability,  \* balance of the deposit liability account, from the collection on
  journalled, \* lines whose journal is in the ledger, by its posting key
  executed,   \* lines with an event in the outbox
  approval,   \* the line an open approval has read, and the decision
  taken       \* history: how often each line has been taken from the deposit

depositVars == <<deposit, line, liability, journalled, executed, approval, taken>>

NoLine == [status |-> "NONE", type |-> "REFUND", amount |-> 0,
           requester |-> Nobody, approver |-> Nobody]
NoApproval == [line |-> 0, status |-> "NONE", user |-> Nobody]

DepositInit ==
  /\ deposit = [status |-> "NONE", held |-> 0]
  /\ line = [i \in Lines |-> NoLine]
  /\ liability = 0
  /\ journalled = {} /\ executed = {}
  /\ approval = [a \in Approvals |-> NoApproval]
  /\ taken = [i \in Lines |-> 0]

\* ensureDepositForActivatedLease, in the transaction of the activation.
EnsureDeposit ==
  /\ deposit.status = "NONE"
  /\ deposit' = [deposit EXCEPT !.status = "DUE"]
  /\ UNCHANGED <<line, liability, journalled, executed, approval, taken>>

\* The money is collected outside the program.
Collect(amount) ==
  /\ deposit.status = "DUE"
  /\ deposit' = [status |-> "HELD", held |-> amount]
  /\ liability' = amount
  /\ UNCHANGED <<line, journalled, executed, approval, taken>>

\* What open lines speak for.
Reserved ==
  Total([i \in Lines |-> IF line[i].status \in {"PENDING_APPROVAL", "APPROVED"}
                         THEN line[i].amount ELSE 0], NumLines)

Unused == {i \in Lines : line[i] = NoLine}

\* One request makes several lines of one requester, refused as a whole.
CreateDispositions(user, amount, type) ==
  LET new == DOMAIN amount IN
  /\ new # {}
  /\ deposit.status # "NONE"
  /\ Total([i \in Lines |-> IF i \in new THEN amount[i] ELSE 0], NumLines)
       <= deposit.held - Reserved
  /\ line' = [i \in Lines |->
       IF i \in new
       THEN [status |-> "PENDING_APPROVAL", type |-> type[i], amount |-> amount[i],
             requester |-> user, approver |-> Nobody]
       ELSE line[i]]
  /\ UNCHANGED <<deposit, liability, journalled, executed, approval, taken>>

ApproveLineRead(a, i, user, decision) ==
  /\ approval[a] = NoApproval
  /\ line[i].status = "PENDING_APPROVAL"
  /\ line[i].requester # user
  /\ approval' = [approval EXCEPT ![a] = [line |-> i, status |-> decision, user |-> user]]
  /\ UNCHANGED <<deposit, line, liability, journalled, executed, taken>>

ApproveLineWrite(a) ==
  LET r == approval[a] IN
  /\ r # NoApproval
  /\ line' = [line EXCEPT ![r.line].status = r.status, ![r.line].approver = r.user]
  /\ approval' = [approval EXCEPT ![a] = NoApproval]
  /\ UNCHANGED <<deposit, liability, journalled, executed, taken>>

\* A faulty variant of Journalled: a deduction is not released from the liability.
JournalledUndeducted(i) == line[i].type \in {"REFUND", "FORFEIT"}

\* Which lines post a journal.
Journalled(i) == line[i].type \notin {"TRANSFER", "REMAINING_HELD"}

\* A faulty variant of EventFree: the unique index on outbox sequences is gone.
EventFreeAlways(i) == i \in Lines

\* The unique index on (aggregate_type, aggregate_id, sequence).
EventFree(i) == SequencedDeposits \/ i \notin executed

\* A posting key or an event that exists already fails the transaction.
ExecuteDisposition(i, user) ==
  LET held == deposit.held - line[i].amount IN
  /\ line[i].status = "APPROVED"
  /\ user \notin {line[i].requester, line[i].approver}
  /\ line[i].requester # line[i].approver
  /\ line[i].amount <= deposit.held
  /\ Journalled(i) => i \notin journalled
  /\ EventFree(i)
  /\ deposit' = [status |-> IF held = 0 THEN "CLOSED" ELSE "PARTIALLY_DISPOSED", held |-> held]
  /\ liability' = IF Journalled(i) THEN liability - line[i].amount ELSE liability
  /\ journalled' = IF Journalled(i) THEN journalled \cup {i} ELSE journalled
  /\ line' = [line EXCEPT ![i].status = "EXECUTED"]
  /\ executed' = executed \cup {i}
  /\ taken' = [taken EXCEPT ![i] = @ + 1]
  /\ UNCHANGED approval

DepositNext ==
  \/ EnsureDeposit
  \/ \E amount \in DepositAmounts : Collect(amount)
  \/ \E user \in DepositUsers, new \in SUBSET Unused :
       \E amount \in [new -> LineAmounts], type \in [new -> Types] :
         CreateDispositions(user, amount, type)
  \/ \E a \in Approvals :
       \/ ApproveLineWrite(a)
       \/ \E i \in Lines, user \in DepositUsers, decision \in {"APPROVED", "REJECTED"} :
            ApproveLineRead(a, i, user, decision)
  \/ \E i \in Lines, user \in DepositUsers : ExecuteDisposition(i, user)

DepositSpec == DepositInit /\ [][DepositNext]_depositVars

(***************************************************************************)
(* Properties.                                                             *)
(***************************************************************************)

\* Rows fit their tables; the held amount is never negative.
DepositTypeOK ==
  /\ deposit \in [status : {"NONE", "DUE", "HELD", "PARTIALLY_DISPOSED", "CLOSED"}, held : Nat]
  /\ \A i \in Lines :
       line[i] \in [status : {"NONE", "PENDING_APPROVAL", "APPROVED", "REJECTED", "EXECUTED"},
                    type : Types, amount : Nat, requester : DepositUsers \cup {Nobody},
                    approver : DepositUsers \cup {Nobody}]
  /\ liability \in Nat /\ journalled \subseteq Lines /\ executed \subseteq Lines
  /\ taken \in [Lines -> Nat]
  /\ \A a \in Approvals :
       approval[a] \in [line : Lines \cup {0}, status : {"NONE", "APPROVED", "REJECTED"},
                        user : DepositUsers \cup {Nobody}]

\* The liability account follows what is held: they differ by the transfers and
\* the lines marked as remaining held, which have no journal.  A line set back
\* to APPROVED by a stale approval is not taken from the deposit again: only
\* its outbox event (and its journal, if it has one), refused the second time,
\* stands in the way.
LiabilityFollowsHeld ==
  /\ \A i \in Lines : taken[i] <= 1
  /\ liability = deposit.held +
       Total([i \in Lines |-> IF line[i].type \in {"TRANSFER", "REMAINING_HELD"}
                              THEN line[i].amount * taken[i] ELSE 0], NumLines)

\* docs/01-business-requirements.md, BR-047: no amount disappears: what has left
\* the deposit is on record as executed.
DisposedOnRecord ==
  \A i \in Lines : taken[i] > 0 => line[i].status = "EXECUTED"

=============================================================================
