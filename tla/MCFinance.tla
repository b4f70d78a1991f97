------------------------------ MODULE MCFinance ------------------------------
(***************************************************************************)
(* Money that runs through several hands, in one run: refunds, charging    *)
(* runs, deposits and reconciliation.                                      *)
(*                                                                         *)
(* Each part keeps its own rows here, so nothing is gained by interleaving *)
(* them: `part`, chosen at the start, names the one that runs, the others  *)
(* rest.  The state space is the sum of theirs.                            *)
(***************************************************************************)
EXTENDS Receivables, Charging, Deposits, Reconciliation, TLC

VARIABLE part

Ledgers == {"receivables", "charging", "deposits", "reconciliation"}

ledgerVars == <<vars, chargeVars, depositVars, reconVars>>

\* Staff members are interchangeable.
StaffSymmetry == Permutations(Users)

\* Billing runs charge rent and utility runs utilities, with keys of their own:
\* the two kinds are not mixed.  A second billing run is made for one lease.
BillingInUse == {r \in BillingRuns : run[r].status # "NONE"}
Concerned == rented \cup {bill[i].lease : i \in DOMAIN bill}
             \cup UNION {run[r].lines : r \in BillingRuns}
             \cup UNION {charging[q].lines : q \in {p \in ChargeRequests : charging[p] # NoRequest}}

RunsInScope ==
  /\ BillingInUse = {} \/ \A u \in UtilityRuns : utility[u].status = "NONE"
  /\ Cardinality(BillingInUse) > 1 => Concerned \subseteq {CHOOSE l \in Leases : TRUE}

-----------------------------------------------------------------------------
FinanceInit ==
  /\ part \in Ledgers
  /\ Init /\ DepositInit /\ ReconInit
  /\ ChargeInit
  /\ part # "charging" => rented = {}

FinanceNext ==
  /\ UNCHANGED part
  /\ IF part = "receivables" THEN Next ELSE UNCHANGED vars
  /\ IF part = "charging" THEN ChargeNext ELSE UNCHANGED chargeVars
  /\ IF part = "deposits" THEN DepositNext ELSE UNCHANGED depositVars
  /\ IF part = "reconciliation" THEN ReconNext ELSE UNCHANGED reconVars

FinanceSpec == FinanceInit /\ [][FinanceNext]_<<part, ledgerVars>>

-----------------------------------------------------------------------------
\* Every row of every part fits its table.
FinanceTypeOK ==
  /\ part \in Ledgers
  /\ TypeOK /\ ChargeTypeOK /\ DepositTypeOK /\ ReconTypeOK
=============================================================================
