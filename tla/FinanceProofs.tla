---------------------------- MODULE FinanceProofs ----------------------------
(***************************************************************************)
(* Proofs about deposits, about what billing and utility runs charge, and  *)
(* about the reconciliation of a period.                                   *)
(***************************************************************************)
EXTENDS MCFinance, ReceivablesProofs, SequenceTheorems

-----------------------------------------------------------------------------
(***************************************************************************)
(* Deposits.                                                               *)
(***************************************************************************)

LineRow ==
  [status : {"NONE", "PENDING_APPROVAL", "APPROVED", "REJECTED", "EXECUTED"}, type : Types,
   amount : Nat, requester : DepositUsers \cup {Nobody}, approver : DepositUsers \cup {Nobody}]

DepositTyped ==
  /\ deposit \in [status : {"NONE", "DUE", "HELD", "PARTIALLY_DISPOSED", "CLOSED"}, held : Nat]
  /\ line \in [Lines -> LineRow]
  /\ liability \in Int /\ journalled \subseteq Lines /\ executed \subseteq Lines
  /\ approval \in [Approvals -> [line : Lines \cup {0}, status : {"NONE", "APPROVED", "REJECTED"},
                                 user : DepositUsers \cup {Nobody}]]

\* What was requested is for some amount, and only that is approved or executed.
Requested ==
  /\ \A i \in Lines : line[i].status # "NONE" => line[i].amount > 0
  /\ \A i \in executed : line[i].status # "NONE"
  /\ \A a \in Approvals : approval[a] # NoApproval =>
       /\ approval[a].line \in Lines /\ approval[a].status # "NONE"
       /\ line[approval[a].line].status # "NONE"

\* The event of a line, unique, counts its executions.
TakenOnce == taken = [i \in Lines |-> IF i \in executed THEN 1 ELSE 0]

\* What left the deposit without a journal.
Aside(l, e) ==
  [i \in Lines |-> IF i \in e /\ l[i].type \in {"TRANSFER", "REMAINING_HELD"} THEN l[i].amount ELSE 0]

Agrees == liability = deposit.held + Total(Aside(line, executed), NumLines)

NothingYet ==
  deposit.status \in {"NONE", "DUE"} => deposit.held = 0 /\ liability = 0 /\ executed = {}

DepositInv == DepositTyped /\ Requested /\ TakenOnce /\ Agrees /\ NothingYet

-----------------------------------------------------------------------------
LEMMA AsideTyped ==
  ASSUME NEW l \in [Lines -> LineRow], NEW e
  PROVE  Aside(l, e) \in [1..NumLines -> Nat] /\ Aside(l, e) \in [1..NumLines -> Int]
BY DEF Aside, LineRow, Lines

\* Lines that nobody has executed put nothing aside.
LEMMA AsideNothing ==
  ASSUME NEW l
  PROVE  Total(Aside(l, {}), NumLines) = 0
<1>1. Aside(l, {}) = [k \in 1..NumLines |-> 0]
  BY DEF Aside, Lines
<1> QED BY <1>1, TotalZero, DepositAssumption

LEMMA StartsAgreed == DepositInit => DepositInv
<1> SUFFICES ASSUME DepositInit PROVE DepositInv
  OBVIOUS
<1>1. NoLine \in LineRow
  BY DEF NoLine, LineRow, Types
<1>2. DepositTyped
  BY <1>1 DEF DepositInit, DepositTyped, NoApproval
<1>3. Requested /\ TakenOnce /\ NothingYet
  BY DEF DepositInit, Requested, TakenOnce, NothingYet, NoLine
<1>4. Agrees
  BY AsideNothing DEF DepositInit, Agrees
<1> QED BY <1>2, <1>3, <1>4 DEF DepositInv

LEMMA EnsureKeeps == DepositInv /\ EnsureDeposit => DepositInv'
BY DEF EnsureDeposit, DepositInv, DepositTyped, Requested, TakenOnce, Agrees, NothingYet

\* The deposit is collected before anything is taken from it.
LEMMA CollectKeeps ==
  ASSUME DepositInv, NEW amount \in DepositAmounts, Collect(amount)
  PROVE  DepositInv'
<1>1. amount \in Nat
  BY DepositAssumption
<1>2. executed = {}
  BY DEF DepositInv, NothingYet, Collect
<1>3. Agrees'
  BY <1>1, <1>2, AsideNothing DEF Collect, Agrees
<1>4. DepositTyped' /\ Requested' /\ TakenOnce' /\ NothingYet'
  BY <1>1 DEF Collect, DepositInv, DepositTyped, Requested, TakenOnce, NothingYet
<1> QED BY <1>3, <1>4 DEF DepositInv

\* New lines take the place of rows that have no event.
LEMMA CreateKeeps ==
  ASSUME DepositInv, NEW user \in DepositUsers, NEW new \in SUBSET Unused,
         NEW amount \in [new -> LineAmounts], NEW type \in [new -> Types],
         CreateDispositions(user, amount, type)
  PROVE  DepositInv'
<1>1. new \subseteq Lines /\ \A i \in new : line[i].status = "NONE"
  BY DEF Unused, NoLine
<1>2. \A i \in new : i \notin executed
  BY <1>1 DEF DepositInv, Requested
<1>3. /\ line' = [i \in Lines |->
            IF i \in new
            THEN [status |-> "PENDING_APPROVAL", type |-> type[i], amount |-> amount[i],
                  requester |-> user, approver |-> Nobody]
            ELSE line[i]]
      /\ UNCHANGED <<deposit, liability, journalled, executed, approval, taken>>
  BY DEF CreateDispositions
<1>4. \A i \in new : amount[i] \in Nat \ {0}
  BY DepositAssumption
<1>5. line' \in [Lines -> LineRow]
  BY <1>3, <1>4 DEF DepositInv, DepositTyped, LineRow
<1>6. \A i \in Lines \ new : line'[i] = line[i]
  BY <1>3
<1>7. \A i \in new : line'[i].status = "PENDING_APPROVAL" /\ line'[i].amount > 0
  BY <1>1, <1>3, <1>4
<1>8. Aside(line', executed') = Aside(line, executed)
  BY <1>2, <1>3, <1>6 DEF Aside
<1>9. Requested'
  BY <1>3, <1>6, <1>7 DEF DepositInv, DepositTyped, Requested
<1> QED
  BY <1>3, <1>5, <1>8, <1>9 DEF DepositInv, DepositTyped, TakenOnce, Agrees, NothingYet

LEMMA LineReadKeeps ==
  ASSUME DepositInv, NEW a \in Approvals, NEW i \in Lines, NEW user \in DepositUsers,
         NEW decision \in {"APPROVED", "REJECTED"}, ApproveLineRead(a, i, user, decision)
  PROVE  DepositInv'
<1>1. /\ approval' = [approval EXCEPT ![a] = [line |-> i, status |-> decision, user |-> user]]
      /\ line[i].status = "PENDING_APPROVAL"
      /\ UNCHANGED <<deposit, line, liability, journalled, executed, taken>>
  BY DEF ApproveLineRead
<1>2. DepositTyped' /\ Requested'
  BY <1>1 DEF DepositInv, DepositTyped, Requested
<1> QED BY <1>1, <1>2 DEF DepositInv, TakenOnce, Agrees, NothingYet

\* A stale approval changes the status of a line and nothing that was taken.
LEMMA LineWriteKeeps ==
  ASSUME DepositInv, NEW a \in Approvals, ApproveLineWrite(a)
  PROVE  DepositInv'
<1>1. PICK i \in Lines, status \in {"APPROVED", "REJECTED"}, user \in DepositUsers \cup {Nobody} :
        approval[a] = [line |-> i, status |-> status, user |-> user]
  BY DEF DepositInv, DepositTyped, Requested, ApproveLineWrite
<1>2. /\ line' = [line EXCEPT ![i].status = status, ![i].approver = user]
      /\ approval' = [approval EXCEPT ![a] = NoApproval]
      /\ UNCHANGED <<deposit, liability, journalled, executed, taken>>
  BY <1>1 DEF ApproveLineWrite
<1>3. line[i].status # "NONE"
  BY <1>1 DEF DepositInv, Requested, ApproveLineWrite
<1>4. /\ line' \in [Lines -> LineRow]
      /\ \A j \in Lines : line'[j].type = line[j].type /\ line'[j].amount = line[j].amount
      /\ \A j \in Lines : line'[j].status = "NONE" <=> line[j].status = "NONE"
  <2> DEFINE row == [line[i] EXCEPT !.status = status, !.approver = user]
  <2>1. line' = [line EXCEPT ![i] = row]
    BY <1>2 DEF DepositInv, DepositTyped
  <2>2. line \in [Lines -> LineRow] /\ line[i] \in LineRow
    BY DEF DepositInv, DepositTyped
  <2>3. row \in LineRow /\ row.type = line[i].type /\ row.amount = line[i].amount
        /\ row.status # "NONE"
    BY <2>2 DEF LineRow
  <2> HIDE DEF row
  <2> QED BY <2>1, <2>2, <2>3, <1>3
<1>5. Aside(line', executed') = Aside(line, executed)
  BY <1>2, <1>4 DEF Aside
<1>6. DepositTyped' /\ Requested'
  BY <1>2, <1>4 DEF DepositInv, DepositTyped, Requested, NoApproval
<1> QED BY <1>2, <1>5, <1>6 DEF DepositInv, TakenOnce, Agrees, NothingYet

\* One execution takes the amount of its line from the deposit, and from the
\* liability or to the side.
LEMMA ExecuteKeeps ==
  ASSUME ~SequencedDeposits, DepositInv, NEW i \in Lines, NEW user \in DepositUsers,
         ExecuteDisposition(i, user)
  PROVE  DepositInv'
<1>1. PICK amount \in Nat : line[i].amount = amount /\ amount > 0
  BY DEF DepositInv, DepositTyped, LineRow, Requested, ExecuteDisposition
<1>2. i \notin executed /\ executed' = executed \cup {i}
  BY DEF ExecuteDisposition, EventFree
<1>3. /\ line[i].status = "APPROVED" /\ line' = [line EXCEPT ![i].status = "EXECUTED"]
      /\ UNCHANGED approval
  BY DEF ExecuteDisposition
<1>4. /\ amount <= deposit.held /\ deposit'.held = deposit.held - amount
      /\ deposit' \in [status : {"PARTIALLY_DISPOSED", "CLOSED"}, held : Nat]
  BY <1>1 DEF ExecuteDisposition, DepositInv, DepositTyped
<1>5. liability' = IF Journalled(i) THEN liability - amount ELSE liability
  BY <1>1 DEF ExecuteDisposition
<1>6. /\ line' \in [Lines -> LineRow]
      /\ \A j \in Lines : line'[j].type = line[j].type /\ line'[j].amount = line[j].amount
      /\ \A j \in Lines : line'[j].status = "NONE" <=> line[j].status = "NONE"
  BY <1>3 DEF DepositInv, DepositTyped, LineRow
<1>7. DepositTyped'
  BY <1>1, <1>2, <1>3, <1>4, <1>5, <1>6 DEF DepositInv, DepositTyped, ExecuteDisposition
<1>8. Requested' /\ NothingYet'
  BY <1>2, <1>3, <1>4, <1>6 DEF DepositInv, DepositTyped, Requested, NothingYet
<1>9. TakenOnce'
  BY <1>2 DEF DepositInv, DepositTyped, TakenOnce, ExecuteDisposition
<1>10. Agrees'
  <2> DEFINE f == Aside(line, executed)
             h == Aside(line', executed')
  <2>1. f \in [1..NumLines -> Int] /\ h \in [1..NumLines -> Int] /\ i \in 1..NumLines
    BY <1>6, AsideTyped DEF DepositInv, DepositTyped, Lines
  <2>2. \A j \in 1..NumLines \ {i} : h[j] = f[j]
    BY <1>2, <1>6 DEF Aside, Lines
  <2>3. PICK d \in Int : d = IF Journalled(i) THEN 0 ELSE amount
    OBVIOUS
  <2>4. h[i] = f[i] + d
    BY <1>1, <1>2, <1>6, <2>3 DEF Aside, Journalled, Lines
  <2> HIDE DEF f, h
  <2>5. Total(h, NumLines) = Total(f, NumLines) + d /\ Total(f, NumLines) \in Int
    <3>1. NumLines \in Nat
      BY DepositAssumption
    <3>2. Total(f, NumLines) \in Int
      BY <2>1, <3>1, TotalType
    <3> QED BY <2>1, <2>2, <2>3, <2>4, <3>1, <3>2, TotalOneRow
  <2>6. liability = deposit.held + Total(f, NumLines)
    BY DEF DepositInv, Agrees, f
  <2>7. liability' = deposit'.held + Total(h, NumLines)
    BY <1>4, <1>5, <2>3, <2>5, <2>6 DEF DepositInv, DepositTyped
  <2> QED BY <2>7 DEF Agrees, h
<1> QED BY <1>7, <1>8, <1>9, <1>10 DEF DepositInv

LEMMA DepositInvariant == ASSUME ~SequencedDeposits PROVE DepositSpec => []DepositInv
<1>1. DepositInit => DepositInv
  BY StartsAgreed
<1>2. DepositInv /\ [DepositNext]_depositVars => DepositInv'
  <2> SUFFICES ASSUME DepositInv, [DepositNext]_depositVars PROVE DepositInv'
    OBVIOUS
  <2>1. CASE UNCHANGED depositVars
    BY <2>1 DEF depositVars, DepositInv, DepositTyped, Requested, TakenOnce, Agrees, NothingYet
  <2>2. CASE EnsureDeposit
    BY <2>2, EnsureKeeps
  <2>3. ASSUME NEW amount \in DepositAmounts, Collect(amount)
        PROVE  DepositInv'
    BY <2>3, CollectKeeps
  <2>4. ASSUME NEW user \in DepositUsers, NEW new \in SUBSET Unused,
               NEW amount \in [new -> LineAmounts], NEW type \in [new -> Types],
               CreateDispositions(user, amount, type)
        PROVE  DepositInv'
    BY <2>4, CreateKeeps
  <2>5. ASSUME NEW a \in Approvals, ApproveLineWrite(a)
        PROVE  DepositInv'
    BY <2>5, LineWriteKeeps
  <2>6. ASSUME NEW a \in Approvals, NEW i \in Lines, NEW user \in DepositUsers,
               NEW decision \in {"APPROVED", "REJECTED"}, ApproveLineRead(a, i, user, decision)
        PROVE  DepositInv'
    BY <2>6, LineReadKeeps
  <2>7. ASSUME NEW i \in Lines, NEW user \in DepositUsers, ExecuteDisposition(i, user)
        PROVE  DepositInv'
    BY <2>7, ExecuteKeeps
  <2> QED BY <2>1, <2>2, <2>3, <2>4, <2>5, <2>6, <2>7 DEF DepositNext
<1> QED BY <1>1, <1>2, PTL DEF DepositSpec

-----------------------------------------------------------------------------
\* What is held and the liability account differ by the transfers and the lines
\* that remain held, and no line is taken from the deposit twice, however approvals
\* overlap executions (deposit-disposition.service.ts): the unique index on events
\* makes it so.
THEOREM LiabilityFollows == ASSUME ~SequencedDeposits PROVE DepositSpec => []LiabilityFollowsHeld
<1>1. ASSUME DepositInv
      PROVE  LiabilityFollowsHeld
  <2>1. \A i \in Lines : taken[i] = IF i \in executed THEN 1 ELSE 0
    BY <1>1 DEF DepositInv, TakenOnce
  <2>2. \A i \in Lines : line[i].amount \in Nat /\ line[i].amount * 0 = 0
                         /\ line[i].amount * 1 = line[i].amount
    BY <1>1 DEF DepositInv, DepositTyped, LineRow
  <2>3. Aside(line, executed) =
          [i \in Lines |-> IF line[i].type \in {"TRANSFER", "REMAINING_HELD"}
                           THEN line[i].amount * taken[i] ELSE 0]
    BY <2>1, <2>2 DEF Aside
  <2> QED BY <1>1, <2>1, <2>3 DEF DepositInv, Agrees, LiabilityFollowsHeld
<1> QED BY <1>1, DepositInvariant, PTL

-----------------------------------------------------------------------------
(***************************************************************************)
(* Charging.                                                               *)
(*                                                                         *)
(* For any number of leases, billing runs, utility runs, and requests at   *)
(* once.                                                                   *)
(***************************************************************************)

AnyStatus == {"POSTED", "PAID", "VOID"}
ChargeRow == [kind : Kinds, lease : Leases, by : BillingRuns \cup UtilityRuns, status : AnyStatus]

\* A request has read, or means to charge, leases only; the lines of a utility run
\* do not change once they have been read.
ChargingFits(r) ==
  /\ r.op \in {"preview", "commit"} => r.of \in BillingRuns /\ r.lines \subseteq Leases
  /\ r.op = "approve" => r.of \in BillingRuns
  /\ r.op = "utility" => /\ r.of \in UtilityRuns /\ r.lines = utility[r.of].lines
                         /\ utility[r.of].status # "NONE"

ChargeTyped ==
  /\ rented \subseteq Leases
  /\ run \in [BillingRuns -> RunRow]
  /\ utility \in [UtilityRuns -> UtilityRow]
  /\ bill \in Seq(ChargeRow)
  /\ events \subseteq BillingRuns
  /\ charging = [q \in ChargeRequests |-> charging[q]]
  /\ \A q \in ChargeRequests : ChargingFits(charging[q])

\* The unique index: void or not, a charge key is used once.
KeysUnique ==
  \A i, j \in DOMAIN bill :
    i # j => <<bill[i].kind, bill[i].lease>> # <<bill[j].kind, bill[j].lease>>

\* The order in which WithCharges takes the leases.
InOrder(leases) ==
  CHOOSE s \in [1..Cardinality(leases) -> leases] :
    \A l \in leases : \E i \in DOMAIN s : s[i] = l

ChargeInv == ChargeTyped /\ KeysUnique /\ AllocatedToAll

-----------------------------------------------------------------------------
LEMMA ChargesStart == ChargeInit => ChargeInv
<1> SUFFICES ASSUME ChargeInit PROVE ChargeInv
  OBVIOUS
<1>1. bill = <<>> /\ bill \in Seq(ChargeRow) /\ DOMAIN bill = {}
  BY DEF ChargeInit
<1>2. run \in [BillingRuns -> RunRow] /\ utility \in [UtilityRuns -> UtilityRow]
  BY DEF ChargeInit, RunRow, UtilityRow
<1>3. \A q \in ChargeRequests : charging[q].op = "idle"
  BY DEF ChargeInit, NoRequest
<1>4. ChargeTyped
  BY <1>1, <1>2, <1>3 DEF ChargeInit, ChargeTyped, ChargingFits
<1>5. AllocatedToAll
  BY DEF ChargeInit, AllocatedToAll
<1> QED BY <1>1, <1>4, <1>5 DEF ChargeInv, KeysUnique

\* The leases of a set, one after the other and each once.
LEMMA ListedOnce ==
  ASSUME ChargingAssumption, NEW leases \in SUBSET Leases
  PROVE  /\ Cardinality(leases) \in Nat
         /\ InOrder(leases) \in [1..Cardinality(leases) -> leases]
         /\ \A l \in leases : \E i \in 1..Cardinality(leases) : InOrder(leases)[i] = l
         /\ \A i, j \in 1..Cardinality(leases) : i # j => InOrder(leases)[i] # InOrder(leases)[j]
<1> PICK n : n = Cardinality(leases)
  OBVIOUS
<1> PICK order : order = InOrder(leases)
  OBVIOUS
<1>1. IsFiniteSet(leases) /\ n \in Nat
  BY FS_Subset, FS_CardinalityType DEF ChargingAssumption
<1>2. PICK s : s \in Bijection(1..n, leases)
  BY <1>1, FS_CardinalityType DEF ExistsBijection
<1>3. s \in [1..n -> leases] /\ \A l \in leases : \E i \in DOMAIN s : s[i] = l
  BY <1>2 DEF Bijection, Surjection
<1>4. order \in [1..n -> leases] /\ \A l \in leases : \E i \in DOMAIN order : order[i] = l
  BY <1>3 DEF InOrder
<1>5. order \in Surjection(1..n, leases)
  BY <1>4 DEF Surjection
<1>6. IsFiniteSet(1..n) /\ Cardinality(1..n) = n
  BY <1>1, FS_Interval
<1>7. order \in Injection(1..n, leases)
  BY <1>5, <1>6, FS_SurjSameCardinalityImpliesInj
<1>8. \A i, j \in 1..n : i # j => order[i] # order[j]
  BY <1>4, <1>7 DEF Injection, IsInjective
<1> QED BY <1>1, <1>4, <1>8

LEMMA Joined ==
  ASSUME NEW S, NEW m, NEW n, NEW s \in Seq(S), NEW t \in Seq(S), Len(s) = m, Len(t) = n
  PROVE  /\ s \o t \in Seq(S) /\ DOMAIN (s \o t) = 1..(m + n)
         /\ \A i \in 1..m : (s \o t)[i] = s[i]
         /\ \A i \in 1..n : (s \o t)[m + i] = t[i]
OBVIOUS

\* What charging adds to the invoices: one for each lease, and nothing else.
LEMMA ChargesAdd ==
  ASSUME ChargingAssumption, ChargeInv, NEW kind \in Kinds, NEW leases \in SUBSET Leases,
         NEW by \in BillingRuns \cup UtilityRuns,
         bill' = WithCharges(kind, leases, by), leases \cap ChargeKeyTaken(kind) = {}
  PROVE  /\ bill' \in Seq(ChargeRow) /\ KeysUnique'
         /\ \A i \in DOMAIN bill : i \in DOMAIN bill' /\ bill'[i] = bill[i]
         /\ leases \subseteq ChargedIn(kind, {"POSTED"})'
<1> PICK order, n : order = InOrder(leases) /\ n = Cardinality(leases)
  OBVIOUS
<1>1. /\ n \in Nat /\ order \in [1..n -> leases]
      /\ \A l \in leases : \E i \in 1..n : order[i] = l
      /\ \A i, j \in 1..n : i # j => order[i] # order[j]
  BY ListedOnce
<1>0. PICK new : new = [i \in 1..n |-> [kind |-> kind, lease |-> order[i], by |-> by, status |-> "POSTED"]]
  OBVIOUS
<1>2. new \in Seq(ChargeRow) /\ Len(new) = n /\ DOMAIN new = 1..n
  <2>1. \A i \in 1..n : new[i] \in ChargeRow
    BY <1>0, <1>1 DEF ChargeRow, AnyStatus
  <2> QED BY <1>0, <1>1, <2>1
<1>3. bill' = bill \o new
  <2>1. DOMAIN order = 1..n
    BY <1>1
  <2>2. bill' = bill \o [i \in DOMAIN order |->
                  [kind |-> kind, lease |-> order[i], by |-> by, status |-> "POSTED"]]
    BY DEF WithCharges, InOrder
  <2> QED BY <1>0, <2>1, <2>2
<1>4. bill \in Seq(ChargeRow) /\ Len(bill) \in Nat /\ DOMAIN bill = 1..Len(bill)
  BY DEF ChargeInv, ChargeTyped
<1> PICK m : m = Len(bill)
  OBVIOUS
<1>5. /\ bill' \in Seq(ChargeRow) /\ DOMAIN bill' = 1..(m + n)
      /\ \A i \in 1..m : bill'[i] = bill[i]
      /\ \A i \in 1..n : bill'[m + i] = new[i]
  <2> PICK old : old = bill
    OBVIOUS
  <2>1. old \in Seq(ChargeRow) /\ Len(old) = m
    BY <1>4
  <2>2. /\ old \o new \in Seq(ChargeRow) /\ DOMAIN (old \o new) = 1..(m + n)
        /\ \A i \in 1..m : (old \o new)[i] = old[i]
        /\ \A i \in 1..n : (old \o new)[m + i] = new[i]
    BY <1>2, <2>1, Joined
  <2>3. bill' = old \o new
    BY <1>3
  <2> QED BY <2>2, <2>3
<1>8. \A i \in 1..n : new[i].kind = kind /\ new[i].lease = order[i] /\ new[i].status = "POSTED"
  BY <1>0
<1>9. \A l \in leases : \E i \in DOMAIN bill' :
        bill'[i].kind = kind /\ bill'[i].lease = l /\ bill'[i].status = "POSTED"
  <2> TAKE l \in leases
  <2>1. PICK i \in 1..n : order[i] = l
    BY <1>1
  <2>2. m + i \in DOMAIN bill'
    BY <1>1, <1>4, <1>5
  <2> QED BY <1>5, <1>8, <2>1, <2>2
<1>10. \A i \in 1..m, j \in 1..n :
         <<bill[i].kind, bill[i].lease>> # <<new[j].kind, new[j].lease>>
  <2> SUFFICES ASSUME NEW i \in 1..m, NEW j \in 1..n, bill[i].kind = kind, bill[i].lease = order[j]
               PROVE  FALSE
    BY <1>8
  <2>1. bill[i].status \in AnyStatus /\ order[j] \in leases
    <3>1. bill[i] \in ChargeRow
      BY <1>4
    <3> QED BY <1>1, <3>1 DEF ChargeRow
  <2>2. order[j] \in ChargeKeyTaken(kind)
    BY <1>4, <2>1 DEF ChargeKeyTaken, ChargedIn, AnyStatus
  <2> QED BY <2>1, <2>2
<1>11. KeysUnique'
  <2> SUFFICES ASSUME NEW i \in 1..(m + n), NEW j \in 1..(m + n), i # j,
                      bill'[i].kind = bill'[j].kind, bill'[i].lease = bill'[j].lease
               PROVE  FALSE
    BY <1>5 DEF KeysUnique
  <2>0. m \in Nat /\ n \in Nat
        /\ \A k \in 1..(m + n) : k > m => k - m \in 1..n /\ bill'[k] = new[k - m]
    <3>1. m \in Nat /\ n \in Nat
      BY <1>1, <1>4
    <3>2. ASSUME NEW k \in 1..(m + n), k > m PROVE k - m \in 1..n /\ m + (k - m) = k
      BY <3>1, <3>2
    <3> QED BY <1>5, <3>1, <3>2
  <2>1. CASE i <= m /\ j <= m
    BY <1>4, <1>5, <2>1 DEF ChargeInv, KeysUnique
  <2>2. CASE i <= m /\ j > m
    <3>1. i \in 1..m /\ bill'[i] = bill[i] /\ j - m \in 1..n /\ bill'[j] = new[j - m]
      BY <1>5, <2>0, <2>2
    <3> QED BY <1>10, <3>1
  <2>3. CASE i > m /\ j <= m
    <3>1. j \in 1..m /\ i - m \in 1..n /\ bill'[j] = bill[j] /\ bill'[i] = new[i - m]
      BY <1>5, <2>0, <2>3
    <3> QED BY <1>10, <3>1
  <2>4. CASE i > m /\ j > m
    <3>1. i - m \in 1..n /\ j - m \in 1..n /\ i - m # j - m
          /\ bill'[i] = new[i - m] /\ bill'[j] = new[j - m]
      BY <1>5, <2>0, <2>4
    <3> QED BY <1>1, <1>8, <3>1
  <2> QED BY <1>1, <1>4, <2>1, <2>2, <2>3, <2>4
<1>12. \A i \in DOMAIN bill : i \in DOMAIN bill' /\ bill'[i] = bill[i]
  BY <1>1, <1>4, <1>5
<1>13. leases \subseteq ChargedIn(kind, {"POSTED"})'
  BY <1>9 DEF ChargedIn
<1> QED BY <1>5, <1>11, <1>12, <1>13

\* A request opened, closed or given up: no other is touched.
LEMMA RequestsFit ==
  ASSUME ChargeTyped, NEW q \in ChargeRequests, NEW r,
         charging' = [charging EXCEPT ![q] = r], ChargingFits(r)',
         \A u \in UtilityRuns : utility[u].status # "NONE" =>
           utility'[u].lines = utility[u].lines /\ utility'[u].status # "NONE"
  PROVE  /\ charging' = [p \in ChargeRequests |-> charging'[p]]
         /\ \A p \in ChargeRequests : ChargingFits(charging[p])'
<1>1. /\ charging'[q] = r /\ \A p \in ChargeRequests : p # q => charging'[p] = charging[p]
      /\ charging' = [p \in ChargeRequests |-> charging'[p]]
  BY DEF ChargeTyped
<1>2. ASSUME NEW p \in ChargeRequests PROVE ChargingFits(charging[p])'
  BY <1>1 DEF ChargeTyped, ChargingFits
<1> QED BY <1>1, <1>2

\* Utility runs that are committed stay charged while invoices only grow or change status.
LEMMA StayAllocated ==
  ASSUME ChargeInv, UNCHANGED utility, bill' \in Seq(ChargeRow),
         \A i \in DOMAIN bill : i \in DOMAIN bill' /\ bill'[i].kind = bill[i].kind
                                                 /\ bill'[i].lease = bill[i].lease
  PROVE  AllocatedToAll'
<1>1. \A i \in DOMAIN bill' : bill'[i].status \in AnyStatus
  <2>1. \A i \in DOMAIN bill' : bill'[i] \in ChargeRow
    OBVIOUS
  <2> QED BY <2>1 DEF ChargeRow
<1>2. ChargedIn("UTILITY", AnyStatus) \subseteq ChargedIn("UTILITY", AnyStatus)'
  BY <1>1 DEF ChargedIn
<1> QED BY <1>2 DEF ChargeInv, AllocatedToAll, AnyStatus

\* An invoice paid or voided keeps its charge key.
LEMMA SettleKeeps ==
  ASSUME ChargeInv, NEW i \in DOMAIN bill, Pay(i) \/ Void(i)
  PROVE  ChargeInv'
<1> PICK s \in AnyStatus : bill' = [bill EXCEPT ![i].status = s]
  BY DEF Pay, Void, AnyStatus
<1>1. UNCHANGED <<rented, run, utility, events, charging>>
  BY DEF Pay, Void
<1>2. \A j \in DOMAIN bill : bill[j] \in ChargeRow
  BY DEF ChargeInv, ChargeTyped
<1>3. bill' = [bill EXCEPT ![i] = [bill[i] EXCEPT !.status = s]]
  OBVIOUS
<1>4. [bill[i] EXCEPT !.status = s] \in ChargeRow
  BY <1>2 DEF ChargeRow
<1>5. bill \in Seq(ChargeRow)
  BY DEF ChargeInv, ChargeTyped
<1>6. bill' \in Seq(ChargeRow) /\ DOMAIN bill' = DOMAIN bill
  BY <1>3, <1>4, <1>5
<1>7. \A j \in DOMAIN bill : bill'[j].kind = bill[j].kind /\ bill'[j].lease = bill[j].lease
  BY <1>2, <1>3 DEF ChargeRow
<1>8. ChargeTyped'
  BY <1>1, <1>6 DEF ChargeInv, ChargeTyped, ChargingFits
<1>9. KeysUnique'
  BY <1>6, <1>7 DEF ChargeInv, KeysUnique
<1> QED BY <1>1, <1>6, <1>7, <1>8, <1>9, StayAllocated DEF ChargeInv

\* Reads, and writes of rows that no invoice comes from.
LEMMA RunsKeep ==
  ASSUME ChargeInv,
         \/ UNCHANGED chargeVars
         \/ \E l \in Leases : ChangeRented(l)
         \/ \E r \in BillingRuns :
              CreateBillingRun(r)
              \/ \E q \in ChargeRequests : PreviewRead(q, r) \/ ApproveRead(q, r) \/ CommitRead(q, r)
         \/ \E u \in UtilityRuns : PreviewUtility(u) \/ \E q \in ChargeRequests : UtilityRead(q, u)
         \/ \E q \in ChargeRequests : GiveUp(q) \/ PreviewWrite(q) \/ ApproveWrite(q) \/ CommitAborts(q)
  PROVE  ChargeInv'
<1>1. UNCHANGED <<bill, events>>
  BY DEF chargeVars, ChangeRented, CreateBillingRun, PreviewRead, ApproveRead, CommitRead, PreviewUtility,
         UtilityRead, GiveUp, PreviewWrite, ApproveWrite, CommitAborts, Opened
<1>2. KeysUnique' /\ bill' \in Seq(ChargeRow) /\ events' \subseteq BillingRuns
  BY <1>1 DEF ChargeInv, ChargeTyped, KeysUnique
<1>3. CASE UNCHANGED chargeVars
  BY <1>3 DEF chargeVars, ChargeInv, ChargeTyped, ChargingFits, KeysUnique, AllocatedToAll, ChargedIn
<1>4. ASSUME NEW l \in Leases, ChangeRented(l) PROVE ChargeInv'
  <2>1. rented' \subseteq Leases /\ UNCHANGED <<run, utility, charging>>
    BY <1>4 DEF ChangeRented, ChargeInv, ChargeTyped
  <2>2. ChargeTyped'
    BY <1>2, <2>1 DEF ChargeInv, ChargeTyped, ChargingFits
  <2> QED BY <1>1, <1>2, <2>1, <2>2, StayAllocated DEF ChargeInv
<1>5. ASSUME NEW r \in BillingRuns, CreateBillingRun(r) PROVE ChargeInv'
  <2>1. run' \in [BillingRuns -> RunRow] /\ UNCHANGED <<rented, utility, charging>>
    BY <1>5 DEF CreateBillingRun, ChargeInv, ChargeTyped, RunRow
  <2>2. ChargeTyped'
    BY <1>2, <2>1 DEF ChargeInv, ChargeTyped, ChargingFits
  <2> QED BY <1>1, <1>2, <2>1, <2>2, StayAllocated DEF ChargeInv
<1>6. ASSUME NEW u \in UtilityRuns, PreviewUtility(u) PROVE ChargeInv'
  <2>1. /\ UNCHANGED <<rented, run, charging>> /\ utility[u].status = "NONE"
        /\ utility' = [utility EXCEPT ![u] = [status |-> "PREVIEWED", lines |-> rented]]
    BY <1>6 DEF PreviewUtility
  <2>2. utility' \in [UtilityRuns -> UtilityRow]
    BY <2>1 DEF ChargeInv, ChargeTyped, UtilityRow
  <2>3. \A q \in ChargeRequests : ChargingFits(charging[q])'
    BY <2>1 DEF ChargeInv, ChargeTyped, ChargingFits
  <2>4. ChargeTyped'
    BY <1>2, <2>1, <2>2, <2>3 DEF ChargeInv, ChargeTyped
  <2>5. AllocatedToAll'
    BY <1>1, <2>1 DEF ChargeInv, ChargeTyped, AllocatedToAll, ChargedIn
  <2> QED BY <1>2, <2>4, <2>5 DEF ChargeInv
<1>7. ASSUME NEW q \in ChargeRequests, NEW op, NEW of, NEW lines, Opened(q, op, of, lines),
             ChargingFits([op |-> op, of |-> of, lines |-> lines])
      PROVE  ChargeInv'
  <2>1. /\ charging' = [charging EXCEPT ![q] = [op |-> op, of |-> of, lines |-> lines]]
        /\ UNCHANGED <<rented, run, utility>>
    BY <1>7 DEF Opened
  <2>2. ChargingFits([op |-> op, of |-> of, lines |-> lines])'
    BY <1>7, <2>1 DEF ChargingFits
  <2>3. ChargeTyped'
    BY <1>2, <2>1, <2>2, RequestsFit DEF ChargeInv, ChargeTyped
  <2> QED BY <1>1, <1>2, <2>1, <2>3, StayAllocated DEF ChargeInv
<1>8. ASSUME NEW r \in BillingRuns, NEW q \in ChargeRequests,
             PreviewRead(q, r) \/ ApproveRead(q, r) \/ CommitRead(q, r)
      PROVE  ChargeInv'
  <2>1. PICK op \in {"preview", "approve", "commit"}, lines \in SUBSET Leases : Opened(q, op, r, lines)
    BY <1>8 DEF PreviewRead, ApproveRead, CommitRead, ChargeInv, ChargeTyped, RunRow
  <2>2. ChargingFits([op |-> op, of |-> r, lines |-> lines])
    BY DEF ChargingFits
  <2> QED BY <1>7, <2>1, <2>2
<1>9. ASSUME NEW u \in UtilityRuns, NEW q \in ChargeRequests, UtilityRead(q, u) PROVE ChargeInv'
  <2>1. Opened(q, "utility", u, utility[u].lines) /\ utility[u].status = "PREVIEWED"
    BY <1>9 DEF UtilityRead
  <2>2. ChargingFits([op |-> "utility", of |-> u, lines |-> utility[u].lines])
    BY <2>1 DEF ChargingFits
  <2> QED BY <1>7, <2>1, <2>2
<1>10. ASSUME NEW q \in ChargeRequests, GiveUp(q) \/ PreviewWrite(q) \/ ApproveWrite(q) \/ CommitAborts(q)
       PROVE  ChargeInv'
  <2>1. /\ charging' = [charging EXCEPT ![q] = NoRequest] /\ UNCHANGED <<rented, utility>>
    BY <1>10 DEF GiveUp, PreviewWrite, ApproveWrite, CommitAborts, Closed
  <2>2. run' \in [BillingRuns -> RunRow]
    <3>1. CASE UNCHANGED run
      BY <3>1 DEF ChargeInv, ChargeTyped
    <3>2. CASE PreviewWrite(q)
      <4> PICK r, lines : r = charging[q].of /\ lines = charging[q].lines
        OBVIOUS
      <4>1. r \in BillingRuns /\ lines \subseteq Leases /\ run[r] \in RunRow
        BY <3>2 DEF PreviewWrite, ChargeInv, ChargeTyped, ChargingFits
      <4>2. run' = [run EXCEPT ![r] = [status |-> "PREVIEWED", lines |-> lines,
                                       version |-> run[r].version + 1]]
        BY <3>2 DEF PreviewWrite
      <4> QED BY <4>1, <4>2 DEF ChargeInv, ChargeTyped, RunRow
    <3>3. CASE ApproveWrite(q)
      <4> PICK r : r = charging[q].of
        OBVIOUS
      <4>1. r \in BillingRuns /\ run[r] \in RunRow
        BY <3>3 DEF ApproveWrite, ChargeInv, ChargeTyped, ChargingFits
      <4>2. run' = [run EXCEPT ![r].status = "APPROVED", ![r].version = run[r].version + 1]
        BY <3>3 DEF ApproveWrite
      <4> QED BY <4>1, <4>2 DEF ChargeInv, ChargeTyped, RunRow
    <3> QED BY <1>10, <3>1, <3>2, <3>3 DEF GiveUp, CommitAborts
  <2>3. ChargingFits(NoRequest)'
    BY DEF ChargingFits, NoRequest
  <2>4. ChargeTyped'
    BY <1>2, <2>1, <2>2, <2>3, RequestsFit DEF ChargeInv, ChargeTyped
  <2> QED BY <1>1, <1>2, <2>1, <2>4, StayAllocated DEF ChargeInv
<1> QED BY <1>3, <1>4, <1>5, <1>6, <1>8, <1>9, <1>10

\* The commit of a billing run charges what the index admits.
LEMMA CommitWriteKeeps ==
  ASSUME ChargingAssumption, ChargeInv, NEW q \in ChargeRequests, CommitWrite(q)
  PROVE  ChargeInv'
<1> PICK r, lines : r = charging[q].of /\ lines = CommitLines(q)
  OBVIOUS
<1> PICK kept : kept = IF charging[q].lines = {} THEN lines ELSE run[r].lines
  OBVIOUS
<1>1. /\ Insertable("RENT", lines)
      /\ bill' = WithCharges("RENT", ToCharge("RENT", lines), r)
      /\ run' = [run EXCEPT ![r] = [status |-> "COMPLETED", version |-> run[r].version + 2, lines |-> kept]]
      /\ events' = events \cup {r} /\ charging' = [charging EXCEPT ![q] = NoRequest]
      /\ UNCHANGED <<rented, utility>> /\ charging[q].op = "commit"
  BY DEF CommitWrite, Closed
<1>2. r \in BillingRuns /\ charging[q].lines \subseteq Leases /\ rented \subseteq Leases
  BY <1>1 DEF ChargeInv, ChargeTyped, ChargingFits
<1>3. lines \subseteq Leases /\ ToCharge("RENT", lines) \in SUBSET Leases
  BY <1>2 DEF CommitLines, ToCharge
<1>4. /\ bill' \in Seq(ChargeRow) /\ KeysUnique'
      /\ \A i \in DOMAIN bill : i \in DOMAIN bill' /\ bill'[i] = bill[i]
  BY <1>1, <1>2, <1>3, ChargesAdd DEF Insertable, Kinds
<1>5. run' \in [BillingRuns -> RunRow]
  <2>1. run \in [BillingRuns -> RunRow] /\ run[r] \in RunRow
    BY <1>2 DEF ChargeInv, ChargeTyped
  <2>2. kept \in SUBSET Leases /\ run[r].version + 2 \in Nat
    BY <1>3, <2>1 DEF RunRow
  <2>3. [status |-> "COMPLETED", version |-> run[r].version + 2, lines |-> kept] \in RunRow
    BY <2>2 DEF RunRow
  <2> QED BY <1>1, <1>2, <2>1, <2>3
<1>6. ChargingFits(NoRequest)'
  BY DEF ChargingFits, NoRequest
<1>7. ChargeTyped'
  BY <1>1, <1>2, <1>4, <1>5, <1>6, RequestsFit DEF ChargeInv, ChargeTyped
<1>8. AllocatedToAll'
  BY <1>1, <1>4, StayAllocated
<1> QED BY <1>4, <1>7, <1>8 DEF ChargeInv

\* The commit of a utility run charges every lease it lists that is not charged yet.
LEMMA UtilityWriteKeeps ==
  ASSUME ChargingAssumption, ChargeInv, NEW q \in ChargeRequests, UtilityWrite(q)
  PROVE  ChargeInv'
<1> PICK u, lines : u = charging[q].of /\ lines = charging[q].lines
  OBVIOUS
<1>1. /\ Insertable("UTILITY", lines)
      /\ bill' = WithCharges("UTILITY", ToCharge("UTILITY", lines), u)
      /\ utility' = [utility EXCEPT ![u].status = "COMMITTED"]
      /\ charging' = [charging EXCEPT ![q] = NoRequest]
      /\ UNCHANGED <<rented, run, events>> /\ charging[q].op = "utility"
  BY DEF UtilityWrite, Closed
<1>2. u \in UtilityRuns /\ lines = utility[u].lines /\ utility[u] \in UtilityRow
  BY <1>1 DEF ChargeInv, ChargeTyped, ChargingFits
<1>3. lines \subseteq Leases /\ ToCharge("UTILITY", lines) \in SUBSET Leases
  BY <1>2 DEF ToCharge, UtilityRow
<1>4. /\ bill' \in Seq(ChargeRow) /\ KeysUnique'
      /\ \A i \in DOMAIN bill : i \in DOMAIN bill' /\ bill'[i] = bill[i]
      /\ ToCharge("UTILITY", lines) \subseteq ChargedIn("UTILITY", {"POSTED"})'
  BY <1>1, <1>2, <1>3, ChargesAdd DEF Insertable, Kinds
<1>5. /\ utility' \in [UtilityRuns -> UtilityRow]
      /\ \A v \in UtilityRuns : utility'[v].lines = utility[v].lines
      /\ \A v \in UtilityRuns : v # u => utility'[v] = utility[v]
      /\ \A v \in UtilityRuns : utility[v].status # "NONE" => utility'[v].status # "NONE"
  BY <1>1, <1>2 DEF ChargeInv, ChargeTyped, UtilityRow
<1>6. ChargingFits(NoRequest)'
  BY DEF ChargingFits, NoRequest
<1>7. ChargeTyped'
  BY <1>1, <1>4, <1>5, <1>6, RequestsFit DEF ChargeInv, ChargeTyped
<1>8. \A l \in Leases, kind \in Kinds :
        l \in ChargedIn(kind, AnyStatus) => l \in ChargedIn(kind, AnyStatus)'
  BY <1>4 DEF ChargedIn
<1>9. lines \subseteq ChargedIn("UTILITY", AnyStatus)'
  <2> SUFFICES ASSUME NEW l \in lines PROVE l \in ChargedIn("UTILITY", AnyStatus)'
    OBVIOUS
  <2>1. CASE l \in ToCharge("UTILITY", lines)
    BY <1>3, <1>4, <2>1 DEF ChargedIn, AnyStatus
  <2>2. CASE l \notin ToCharge("UTILITY", lines)
    <3>1. l \in ChargedIn("UTILITY", {"POSTED"})
      BY <2>2 DEF ToCharge, PassedOver
    <3>2. l \in ChargedIn("UTILITY", AnyStatus)
      BY <3>1 DEF ChargedIn, AnyStatus
    <3> QED BY <1>3, <1>8, <3>2 DEF Kinds
  <2> QED BY <2>1, <2>2
<1>10. AllocatedToAll'
  <2> SUFFICES ASSUME NEW v \in UtilityRuns, utility'[v].status = "COMMITTED"
               PROVE  utility'[v].lines \subseteq ChargedIn("UTILITY", AnyStatus)'
    BY DEF AllocatedToAll, AnyStatus
  <2>1. CASE v = u
    BY <1>2, <1>5, <1>9, <2>1
  <2>2. CASE v # u
    <3>1. utility[v].lines \subseteq ChargedIn("UTILITY", AnyStatus)
      BY <1>5, <2>2 DEF ChargeInv, AllocatedToAll, AnyStatus
    <3>2. utility[v].lines \subseteq Leases
      BY DEF ChargeInv, ChargeTyped, UtilityRow
    <3> QED BY <1>5, <1>8, <3>1, <3>2 DEF Kinds
  <2> QED BY <2>1, <2>2
<1> QED BY <1>4, <1>7, <1>10 DEF ChargeInv

LEMMA ChargeStep == ChargingAssumption /\ ChargeInv /\ [ChargeNext]_chargeVars => ChargeInv'
BY SettleKeeps, RunsKeep, CommitWriteKeeps, UtilityWriteKeeps DEF ChargeNext

\* ChargesFit for any number of leases, runs and requests under way: no lease is
\* charged twice for the period and no lease of a committed utility run is left out,
\* whatever overlaps, is retried, approved again, paid or voided.
THEOREM ChargesStayFit == ChargeSpec => []ChargesFit
<1>1. ChargeInv => ChargesFit
  BY DEF ChargeInv, KeysUnique, ChargesFit, ChargedOnce
<1> QED BY <1>1, ChargingAssumption, ChargesStart, ChargeStep, PTL DEF ChargeSpec

-----------------------------------------------------------------------------
(***************************************************************************)
(* Reconciliation.                                                         *)
(*                                                                         *)
(* For any number of runs, items and payments, one transaction at a time.  *)
(***************************************************************************)

Open == {"DRAFT", "IN_PROGRESS"}
PaidRow == [amount : ReconAmounts \cup {0}, status : {"NONE", "SETTLED", "REVERSED"},
            recon : {"UNRECONCILED", "MATCHED", "EXCEPTION"}]
ReconRow == [status : {"NONE", "COMPLETED"} \cup Open, preparer : Clerks \cup {NoOne},
           approver : Clerks \cup {NoOne}, control : Nat, matched : Int, unmatched : Int,
           override : BOOLEAN]
ItemRow == [status : {"NONE"} \cup Done \cup Unsettled, run : Runs \cup {NoOne},
            amount : ReconAmounts \cup {0}, payment : Receipts \cup {NoOne}]

ReconTyped ==
  /\ paid \in [Receipts -> PaidRow] /\ recon \in [Runs -> ReconRow] /\ item \in [Items -> ItemRow]
  /\ trans = [t \in Transactions |-> trans[t]]

\* An item that is there belongs to a run that is there; no payment is matched before
\* it is recorded, and no run has totals before it is created.
RowsFit ==
  /\ \A i \in Items : \/ item[i] = NoItem
                      \/ /\ item[i].run \in Runs /\ recon[item[i].run].status # "NONE"
                         /\ item[i].status \in Done \cup Unsettled
  /\ \A p \in Receipts : paid[p].status = "NONE" => paid[p].recon # "MATCHED"
  /\ \A r \in Runs : recon[r].status = "NONE" => recon[r].matched = 0 /\ recon[r].unmatched = 0

\* Totals that have been summed are those of the rows.
Summed(q, rows) ==
  q.summed => /\ q.matched = TotalOf(rows, q.run, MatchedStatuses)
              /\ q.unmatched = TotalOf(rows, q.run, Unsettled)

PostFits(q) ==
  /\ q \in [op : {"record", "reverse"}, payment : Receipts, amount : ReconAmounts \cup {0}]
  /\ q.op = "reverse" => q.amount = paid[q.payment].amount

IngestFits(q) ==
  /\ q \in [op : {"ingest"}, run : Runs, item : Items, summed : BOOLEAN, matched : Int,
            unmatched : Int, row : ItemRow]
  /\ recon[q.run].status \in Open /\ item[q.item] = NoItem
  /\ q.row.run = q.run /\ q.row.status \in Unsettled
  /\ Summed(q, [item EXCEPT ![q.item] = q.row])

ResolveFits(q) ==
  /\ q \in [op : {"resolve"}, run : Runs, item : Items, summed : BOOLEAN, matched : Int,
            unmatched : Int, row : ItemRow]
  /\ item[q.item].status \in Unsettled /\ item[q.item].run = q.run /\ q.row.run = q.run
  /\ q.row.status \in Done \cup Unsettled /\ q.row.amount = item[q.item].amount
  /\ q.row.status = "MATCHED" => /\ q.row.payment \in Receipts
                                 /\ paid[q.row.payment].status # "NONE"
                                 /\ paid[q.row.payment].amount = q.row.amount
  /\ Summed(q, [item EXCEPT ![q.item] = q.row])

CompleteFits(q) ==
  /\ q \in [op : {"complete"}, run : Runs, user : Clerks \cup {NoOne}, reason : BOOLEAN,
            summed : BOOLEAN, matched : Int, unmatched : Int]
  /\ recon[q.run].status \in Open
  /\ Summed(q, item)

\* What the transaction under way has read still holds.
TransFits(q) ==
  q = NoTrans \/ PostFits(q) \/ IngestFits(q) \/ ResolveFits(q) \/ CompleteFits(q)

ReconInv == ReconTyped /\ RowsFit /\ RunsAgree /\ \A t \in Transactions : TransFits(trans[t])

OneTransaction == \A s, t \in Transactions : s = t

-----------------------------------------------------------------------------
LEMMA AmountsNat == ReconAssumption => ReconAmounts \cup {0} \subseteq Nat
<1>1. ReconAssumption => \A n \in ReconAmounts : n \in Nat \ {0}
  BY DEF ReconAssumption
<1>2. \A n \in ReconAmounts \cup {0} : n \in ReconAmounts \/ n = 0
  OBVIOUS
<1> QED BY <1>1, <1>2

LEMMA AmountInt ==
  ASSUME ReconAssumption, NEW row \in ItemRow PROVE row.amount \in Int
<1>1. row.amount \in ReconAmounts \cup {0}
  BY DEF ItemRow
<1>2. row.amount \in Nat
  BY <1>1, AmountsNat, Zenon
<1> QED BY <1>2

LEMMA TotalInt ==
  ASSUME ReconAssumption, NEW rows \in [Items -> ItemRow], NEW r, NEW S
  PROVE  TotalOf(rows, r, S) \in Int
<1> DEFINE f == [i \in Items |-> rows[i].amount]
           T == {i \in Items : rows[i].run = r /\ rows[i].status \in S}
<1>1. IsFiniteSet(T) /\ \A i \in T : f[i] \in Int
  <2>1. T \subseteq Items /\ IsFiniteSet(Items)
    BY DEF ReconAssumption
  <2>2. \A i \in Items : rows[i].amount \in Int
    BY AmountInt
  <2> QED BY <2>1, <2>2, FS_Subset
<1>2. TotalOf(rows, r, S) = SumFunctionOnSet(f, T)
  BY DEF TotalOf
<1> HIDE DEF f, T
<1> QED BY <1>1, <1>2, SumType

\* The totals of a run depend on its own items only.
LEMMA TotalSame ==
  ASSUME ReconAssumption, NEW rows \in [Items -> ItemRow], NEW rows2 \in [Items -> ItemRow],
         NEW r, NEW S,
         \A i \in Items : rows2[i] = rows[i] \/ (rows[i].run # r /\ rows2[i].run # r)
  PROVE  TotalOf(rows2, r, S) = TotalOf(rows, r, S)
<1> DEFINE f == [i \in Items |-> rows[i].amount]
           h == [i \in Items |-> rows2[i].amount]
           T == {i \in Items : rows[i].run = r /\ rows[i].status \in S}
<1>1. IsFiniteSet(T) /\ \A i \in T : f[i] \in Int /\ h[i] = f[i]
  <2>1. T \subseteq Items /\ IsFiniteSet(Items)
    BY DEF ReconAssumption
  <2>2. \A i \in Items : rows[i].amount \in Int
    BY AmountInt
  <2> QED BY <2>1, <2>2, FS_Subset
<1>2. {i \in Items : rows2[i].run = r /\ rows2[i].status \in S} = T
  OBVIOUS
<1>3. TotalOf(rows, r, S) = SumFunctionOnSet(f, T) /\ TotalOf(rows2, r, S) = SumFunctionOnSet(h, T)
  BY <1>2 DEF TotalOf
<1> HIDE DEF f, h, T
<1> QED BY <1>1, <1>3, SumSame

LEMMA NothingToSum ==
  ASSUME NEW rows, NEW r, NEW S, \A i \in Items : ~(rows[i].run = r /\ rows[i].status \in S)
  PROVE  TotalOf(rows, r, S) = 0
<1>1. {i \in Items : rows[i].run = r /\ rows[i].status \in S} = {}
  OBVIOUS
<1> QED BY <1>1, SumEmpty DEF TotalOf

LEMMA ReconStart == ReconAssumption /\ ReconInit => ReconInv
<1> SUFFICES ASSUME ReconAssumption, ReconInit PROVE ReconInv
  OBVIOUS
<1>1. NoItem \in ItemRow /\ NoRunYet \in ReconRow
      /\ [amount |-> 0, status |-> "NONE", recon |-> "UNRECONCILED"] \in PaidRow
  BY DEF NoItem, NoRunYet, NoControl, ItemRow, ReconRow, PaidRow
<1>2. ReconTyped
  BY <1>1 DEF ReconInit, ReconTyped
<1>3. RowsFit
  <2>1. NoRunYet.matched = 0 /\ NoRunYet.unmatched = 0
    BY DEF NoRunYet
  <2> QED BY <2>1 DEF ReconInit, RowsFit
<1>4. \A S : \A r \in Runs : TotalOf(item, r, S) = 0
  <2> SUFFICES ASSUME NEW r \in Runs, NEW S PROVE TotalOf(item, r, S) = 0
    OBVIOUS
  <2>1. \A i \in Items : item[i].run # r
    BY DEF ReconInit, NoItem, ReconAssumption
  <2> QED BY <2>1, NothingToSum
<1>5. RunsAgree
  BY <1>4 DEF ReconInit, RunsAgree, CompletedClean, TotalsOfItems, NoRunYet
<1>6. \A t \in Transactions : TransFits(trans[t])
  BY DEF ReconInit, TransFits
<1> QED BY <1>2, <1>3, <1>5, <1>6 DEF ReconInv

\* The period and the outbox decide who may go on, and no more.
LEMMA PeriodKeeps ==
  ASSUME ReconInv, UNCHANGED <<paid, recon, item, trans>>
  PROVE  ReconInv'
<1>1. ReconTyped' /\ RowsFit' /\ RunsAgree'
  BY DEF ReconInv, ReconTyped, RowsFit, RunsAgree, CompletedClean, TotalsOfItems
<1>2. \A t \in Transactions : TransFits(trans[t])'
  BY DEF ReconInv, TransFits, PostFits, IngestFits, ResolveFits, CompleteFits, Summed
<1> QED BY <1>1, <1>2 DEF ReconInv

\* A transaction that begins, sums or ends, with nothing written.
LEMMA OnlyTrans ==
  ASSUME ReconInv, OneTransaction, NEW t \in Transactions, NEW q, TransFits(q),
         trans' = [trans EXCEPT ![t] = q], UNCHANGED <<paid, recon, item>>
  PROVE  ReconInv'
<1>1. trans' = [s \in Transactions |-> trans'[s]] /\ \A s \in Transactions : trans'[s] = q
  BY DEF OneTransaction, ReconInv, ReconTyped
<1>2. TransFits(q)'
  BY DEF TransFits, PostFits, IngestFits, ResolveFits, CompleteFits, Summed
<1>3. \A s \in Transactions : TransFits(trans[s])'
  BY <1>1, <1>2, Zenon
<1>4. ReconTyped' /\ RowsFit' /\ RunsAgree'
  BY <1>1 DEF ReconInv, ReconTyped, RowsFit, RunsAgree, CompletedClean, TotalsOfItems
<1> QED BY <1>3, <1>4 DEF ReconInv

LEMMA AbortKeeps ==
  ASSUME ReconInv, OneTransaction, NEW t \in Transactions, Abort(t) PROVE ReconInv'
BY OnlyTrans DEF Abort, Ended, TransFits

LEMMA BeginPostKeeps ==
  ASSUME ReconInv, OneTransaction, NEW t \in Transactions, NEW p \in Receipts, NEW amount \in ReconAmounts,
         BeginPost(t, p, amount)
  PROVE  ReconInv'
<1> PICK q : q = [op |-> "record", payment |-> p, amount |-> amount]
  OBVIOUS
<1> PICK r : r = [op |-> "reverse", payment |-> p, amount |-> amount]
  OBVIOUS
<1>1. PostFits(q) /\ (amount = paid[p].amount => PostFits(r))
  BY DEF PostFits
<1>2. Begun(t, q) \/ (Begun(t, r) /\ amount = paid[p].amount)
  BY DEF BeginPost
<1> QED BY <1>1, <1>2, OnlyTrans DEF Begun, TransFits

LEMMA BeginIngestKeeps ==
  ASSUME ReconInv, OneTransaction, NEW t \in Transactions, NEW r \in Runs, NEW i \in Items,
         NEW amount \in ReconAmounts, NEW p \in Receipts \cup {NoOne}, BeginIngest(t, r, i, amount, p)
  PROVE  ReconInv'
<1> PICK status \in {"SUGGESTED", "UNMATCHED"}, pay \in Receipts \cup {NoOne} :
      Begun(t, [op |-> "ingest", run |-> r, item |-> i, summed |-> FALSE, matched |-> 0, unmatched |-> 0,
                row |-> [status |-> status, run |-> r, amount |-> amount, payment |-> pay]])
  BY DEF BeginIngest
<1> PICK row : row = [status |-> status, run |-> r, amount |-> amount, payment |-> pay]
  OBVIOUS
<1> PICK q : q = [op |-> "ingest", run |-> r, item |-> i, summed |-> FALSE, matched |-> 0,
                  unmatched |-> 0, row |-> row]
  OBVIOUS
<1>1. row \in ItemRow /\ row.run = r /\ row.status \in Unsettled
  BY DEF ItemRow, Unsettled
<1>2. IngestFits(q)
  BY <1>1 DEF IngestFits, BeginIngest, Open, Summed
<1> QED BY <1>2, OnlyTrans DEF Begun, TransFits

LEMMA BeginResolveKeeps ==
  ASSUME ReconInv, OneTransaction, NEW t \in Transactions, NEW i \in Items, NEW p \in Receipts \cup {NoOne},
         NEW status \in {"MATCHED", "UNMATCHED", "EXCEPTION_ACCEPTED", "DISPUTED"},
         BeginResolve(t, i, status, p)
  PROVE  ReconInv'
<1> PICK given : given = IF p # NoOne THEN p ELSE item[i].payment
  OBVIOUS
<1> PICK pay : pay = IF status = "UNMATCHED" THEN NoOne ELSE given
  OBVIOUS
<1> PICK row : row = [item[i] EXCEPT !.status = status, !.payment = pay]
  OBVIOUS
<1> PICK q : q = [op |-> "resolve", run |-> item[i].run, item |-> i, summed |-> FALSE,
                  matched |-> 0, unmatched |-> 0, row |-> row]
  OBVIOUS
<1>1. item[i].status \in Unsettled /\ (status = "MATCHED" => Matchable(given, item[i].amount))
      /\ Begun(t, q)
  BY DEF BeginResolve
<1>2. item[i] \in ItemRow /\ item[i].run \in Runs
  BY <1>1 DEF ReconInv, ReconTyped, RowsFit, NoItem, Unsettled
<1>3. pay \in Receipts \cup {NoOne}
  BY <1>2 DEF ItemRow
<1>4. row \in ItemRow /\ row.run = item[i].run /\ row.status = status /\ row.payment = pay
      /\ row.amount = item[i].amount
  BY <1>2, <1>3 DEF ItemRow, Done, Unsettled
<1>5. status = "MATCHED" => pay \in Receipts /\ paid[pay].status # "NONE"
                             /\ paid[pay].amount = item[i].amount
  BY <1>1, <1>3 DEF Matchable
<1>6. /\ q \in [op : {"resolve"}, run : Runs, item : Items, summed : BOOLEAN, matched : Int,
                unmatched : Int, row : ItemRow]
      /\ q.item = i /\ q.run = item[i].run /\ q.row = row /\ ~q.summed
  BY <1>2, <1>4
<1>7. status \in Done \cup Unsettled
  BY DEF Done, Unsettled
<1>8. ResolveFits(q)
  BY <1>1, <1>4, <1>5, <1>6, <1>7 DEF ResolveFits, Summed
<1> QED BY <1>1, <1>8, OnlyTrans DEF Begun, TransFits

LEMMA BeginCompleteKeeps ==
  ASSUME ReconInv, OneTransaction, NEW t \in Transactions, NEW r \in Runs, NEW user \in Clerks \cup {NoOne},
         NEW reason \in BOOLEAN, BeginComplete(t, r, user, reason)
  PROVE  ReconInv'
<1> PICK q : q = [op |-> "complete", run |-> r, user |-> user, reason |-> reason, summed |-> FALSE,
                  matched |-> 0, unmatched |-> 0]
  OBVIOUS
<1>1. CompleteFits(q) /\ Begun(t, q)
  BY DEF CompleteFits, BeginComplete, Open, Summed
<1> QED BY <1>1, OnlyTrans DEF Begun, TransFits

LEMMA SumKeeps ==
  ASSUME ReconAssumption, ReconInv, OneTransaction, NEW t \in Transactions, Sum(t)
  PROVE  ReconInv'
<1> PICK q : q = trans[t]
  OBVIOUS
<1> PICK m, u : m = TotalOf(Seen(t), q.run, MatchedStatuses) /\ u = TotalOf(Seen(t), q.run, Unsettled)
  OBVIOUS
<1> PICK x : x = [q EXCEPT !.summed = TRUE, !.matched = m, !.unmatched = u]
  OBVIOUS
<1>1. trans' = [trans EXCEPT ![t] = x] /\ UNCHANGED <<paid, recon, item>>
      /\ q.op \in {"ingest", "resolve", "complete"}
  BY DEF Sum
<1>2. TransFits(q) /\ item \in [Items -> ItemRow]
  BY DEF ReconInv, ReconTyped
<1>3. CASE q.op = "ingest" \/ q.op = "resolve"
  <2> PICK rows : rows = [item EXCEPT ![q.item] = q.row]
    OBVIOUS
  <2>1. IngestFits(q) \/ ResolveFits(q)
    BY <1>2, <1>3 DEF TransFits, PostFits, CompleteFits, NoTrans
  <2>2. rows \in [Items -> ItemRow] /\ Seen(t) = rows
    BY <1>2, <1>3, <2>1 DEF IngestFits, ResolveFits, Seen
  <2>3. m \in Int /\ u \in Int
    BY <2>2, TotalInt
  <2>4. Summed(x, rows) /\ rows = [item EXCEPT ![x.item] = x.row]
    BY <2>1, <2>2 DEF Summed, IngestFits, ResolveFits
  <2>5. CASE IngestFits(q)
    <3>1. IngestFits(x)
      BY <2>3, <2>4, <2>5 DEF IngestFits
    <3> QED BY <1>1, <3>1, OnlyTrans DEF TransFits
  <2>6. CASE ResolveFits(q)
    <3>1. ResolveFits(x)
      BY <2>3, <2>4, <2>6 DEF ResolveFits
    <3> QED BY <1>1, <3>1, OnlyTrans DEF TransFits
  <2> QED BY <2>1, <2>5, <2>6
<1>4. CASE q.op = "complete"
  <2>1. CompleteFits(q)
    BY <1>2, <1>4 DEF TransFits, PostFits, IngestFits, ResolveFits, NoTrans
  <2>2. Seen(t) = item
    BY <1>4 DEF Seen
  <2>3. m \in Int /\ u \in Int
    BY <1>2, <2>2, TotalInt
  <2>4. CompleteFits(x)
    BY <2>1, <2>2, <2>3 DEF CompleteFits, Summed
  <2> QED BY <1>1, <2>4, OnlyTrans DEF TransFits
<1> QED BY <1>1, <1>3, <1>4

\* Rows are written and the transaction ends.
LEMMA RowsWriteKeeps ==
  ASSUME ReconInv, OneTransaction, NEW t \in Transactions, Ended(t),
         (ReconTyped /\ RowsFit /\ RunsAgree)' \/ (paid' \in [Receipts -> PaidRow]
            /\ recon' \in [Runs -> ReconRow] /\ item' \in [Items -> ItemRow] /\ RowsFit' /\ RunsAgree')
  PROVE  ReconInv'
<1>1. trans' = [s \in Transactions |-> trans'[s]] /\ \A s \in Transactions : trans'[s] = NoTrans
  BY DEF OneTransaction, ReconInv, ReconTyped, Ended
<1>2. \A s \in Transactions : TransFits(trans[s])'
  BY <1>1 DEF TransFits
<1> QED BY <1>1, <1>2 DEF ReconInv, ReconTyped

LEMMA CreateRunKeeps ==
  ASSUME ReconAssumption, ReconInv, NEW r \in Runs, NEW user \in Clerks,
         NEW control \in ReconAmounts \cup {NoControl}, CreateRun(r, user, control)
  PROVE  ReconInv'
<1>0. PICK row : row = [NoRunYet EXCEPT !.status = "DRAFT", !.preparer = user, !.control = control]
  OBVIOUS
<1>1. recon' = [recon EXCEPT ![r] = row] /\ recon[r].status = "NONE"
      /\ UNCHANGED <<paid, item, trans>>
  BY <1>0 DEF CreateRun
<1>2. control \in Nat
  BY DEF ReconAssumption, NoControl
<1>3. row \in ReconRow /\ row.status = "DRAFT" /\ row.matched = 0 /\ row.unmatched = 0
  <2>1. row = [status |-> "DRAFT", preparer |-> user, approver |-> NoOne, control |-> control,
               matched |-> 0, unmatched |-> 0, override |-> FALSE]
    BY <1>0 DEF NoRunYet
  <2>2. NoOne \in Clerks \cup {NoOne} /\ user \in Clerks \cup {NoOne}
    OBVIOUS
  <2> QED BY <1>2, <2>1, <2>2 DEF ReconRow, Open
<1>4. recon[r].matched = 0 /\ recon[r].unmatched = 0 /\ recon \in [Runs -> ReconRow]
  BY <1>1 DEF ReconInv, ReconTyped, RowsFit
<1>5. recon' \in [Runs -> ReconRow] /\ recon'[r] = row /\ \A s \in Runs \ {r} : recon'[s] = recon[s]
  BY <1>1, <1>3, <1>4
<1>6. ReconTyped'
  BY <1>1, <1>5 DEF ReconInv, ReconTyped
<1>7. RowsFit'
  BY <1>1, <1>3, <1>5 DEF ReconInv, RowsFit
<1>8. CompletedClean'
  <2> SUFFICES ASSUME NEW s \in Runs, recon'[s].status = "COMPLETED" /\ ~recon'[s].override
               PROVE  /\ \A i \in Items : item'[i].run = s => item'[i].status \in Done
                      /\ recon'[s].control \in {NoControl, TotalOf(item', s, Done)}
    BY DEF CompletedClean
  <2>1. recon'[s] = recon[s]
    BY <1>3, <1>5
  <2> QED BY <1>1, <2>1 DEF ReconInv, RunsAgree, CompletedClean
<1>9. TotalsOfItems'
  BY <1>1, <1>3, <1>4, <1>5 DEF ReconInv, RunsAgree, TotalsOfItems
<1>10. \A s \in Transactions : TransFits(trans[s])'
  <2> SUFFICES ASSUME NEW s \in Transactions PROVE TransFits(trans[s])'
    OBVIOUS
  <2> PICK q : q = trans[s]
    OBVIOUS
  <2>1. trans'[s] = q /\ TransFits(q)
    BY <1>1 DEF ReconInv
  <2>2. q = NoTrans \/ PostFits(q) => TransFits(q)'
    BY <1>1 DEF TransFits, PostFits
  <2>3. IngestFits(q) => TransFits(q)'
    BY <1>1, <1>5 DEF TransFits, IngestFits, Summed, Open
  <2>4. ResolveFits(q) => TransFits(q)'
    BY <1>1 DEF TransFits, ResolveFits, Summed
  <2>5. CompleteFits(q) => TransFits(q)'
    BY <1>1, <1>5 DEF TransFits, CompleteFits, Summed, Open
  <2> QED BY <2>1, <2>2, <2>3, <2>4, <2>5 DEF TransFits
<1> QED BY <1>6, <1>7, <1>8, <1>9, <1>10 DEF ReconInv, RunsAgree

LEMMA FinishPostKeeps ==
  ASSUME ReconAssumption, ReconInv, OneTransaction, NEW t \in Transactions, FinishPost(t)
  PROVE  ReconInv'
<1> PICK q : q = trans[t]
  OBVIOUS
<1> PICK p, status : p = q.payment /\ status = IF q.op = "record" THEN "SETTLED" ELSE "REVERSED"
  OBVIOUS
<1>1. PostFits(q) /\ Ended(t) /\ UNCHANGED <<recon, item>>
  <2>1. q.op \in {"record", "reverse"} /\ Ended(t) /\ UNCHANGED <<recon, item>>
    BY DEF FinishPost
  <2>2. TransFits(q)
    BY DEF ReconInv
  <2> QED BY <2>1, <2>2 DEF TransFits, NoTrans, IngestFits, ResolveFits, CompleteFits
<1>2. paid' = [paid EXCEPT ![p].amount = q.amount, ![p].status = status]
      /\ paid[p].status = IF q.op = "record" THEN "NONE" ELSE "SETTLED"
  BY DEF FinishPost
<1>3. p \in Receipts /\ paid \in [Receipts -> PaidRow] /\ q.amount \in ReconAmounts \cup {0}
      /\ (q.op # "record" => q.amount = paid[p].amount)
  BY <1>1 DEF PostFits, ReconInv, ReconTyped
<1>4. /\ paid' \in [Receipts -> PaidRow]
      /\ paid'[p].status # "NONE" /\ paid'[p].recon = paid[p].recon /\ paid'[p].amount = q.amount
      /\ \A r \in Receipts \ {p} : paid'[r] = paid[r]
  BY <1>2, <1>3 DEF PaidRow
<1>5. paid'[p].recon = "MATCHED" => paid'[p].amount = paid[p].amount
  BY <1>2, <1>3, <1>4 DEF ReconInv, RowsFit
<1>6. RowsFit'
  BY <1>1, <1>4 DEF ReconInv, RowsFit
<1>7. RunsAgree'
  BY <1>1, <1>4, <1>5 DEF ReconInv, RunsAgree, CompletedClean, TotalsOfItems
<1> QED BY <1>1, <1>4, <1>6, <1>7, RowsWriteKeeps DEF ReconInv, ReconTyped

LEMMA FinishIngestKeeps ==
  ASSUME ReconAssumption, ReconInv, OneTransaction, NEW t \in Transactions, FinishIngest(t)
  PROVE  ReconInv'
<1> PICK q : q = trans[t]
  OBVIOUS
<1> PICK i, r, row, m, u : i = q.item /\ r = q.run /\ row = q.row /\ m = q.matched /\ u = q.unmatched
  OBVIOUS
<1>0. PICK rn : rn = [recon[r] EXCEPT !.matched = m, !.unmatched = u, !.status = "IN_PROGRESS"]
  OBVIOUS
<1>1. q.op = "ingest" /\ q.summed /\ Ended(t) /\ UNCHANGED paid
      /\ item' = [item EXCEPT ![i] = row] /\ recon' = [recon EXCEPT ![r] = rn]
  BY <1>0 DEF FinishIngest, Totalled
<1>2. IngestFits(q)
  <2>1. TransFits(q)
    BY DEF ReconInv
  <2> QED BY <1>1, <2>1 DEF TransFits, NoTrans, PostFits, ResolveFits, CompleteFits
<1>3. /\ i \in Items /\ r \in Runs /\ row \in ItemRow /\ m \in Int /\ u \in Int
      /\ recon[r].status \in Open /\ item[i] = NoItem /\ row.run = r /\ row.status \in Unsettled
      /\ m = TotalOf(item', r, MatchedStatuses) /\ u = TotalOf(item', r, Unsettled)
  BY <1>1, <1>2 DEF IngestFits, Summed
<1>4. item \in [Items -> ItemRow] /\ recon \in [Runs -> ReconRow] /\ paid \in [Receipts -> PaidRow]
  BY DEF ReconInv, ReconTyped
<1>5. rn \in ReconRow /\ rn.matched = m /\ rn.unmatched = u /\ rn.status = "IN_PROGRESS"
  <2>1. recon[r] \in ReconRow
    BY <1>3, <1>4
  <2> QED BY <1>0, <1>3, <2>1 DEF ReconRow, Open
<1>6. /\ item' \in [Items -> ItemRow] /\ item'[i] = row /\ \A j \in Items \ {i} : item'[j] = item[j]
      /\ recon' \in [Runs -> ReconRow] /\ recon'[r] = rn /\ \A s \in Runs \ {r} : recon'[s] = recon[s]
  BY <1>1, <1>3, <1>4, <1>5
<1>7. RowsFit'
  BY <1>1, <1>3, <1>5, <1>6 DEF ReconInv, RowsFit
<1>8. \A S : \A s \in Runs \ {r} : TotalOf(item', s, S) = TotalOf(item, s, S)
  <2> SUFFICES ASSUME NEW s \in Runs, s # r, NEW S PROVE TotalOf(item', s, S) = TotalOf(item, s, S)
    OBVIOUS
  <2>1. item[i].run # s
    BY <1>3 DEF NoItem, ReconAssumption
  <2> QED BY <1>3, <1>4, <1>6, <2>1, TotalSame
<1>9. CompletedClean'
  <2> SUFFICES ASSUME NEW s \in Runs, recon'[s].status = "COMPLETED" /\ ~recon'[s].override
               PROVE  /\ \A j \in Items : item'[j].run = s => item'[j].status \in Done
                      /\ recon'[s].control \in {NoControl, TotalOf(item', s, Done)}
    BY DEF CompletedClean
  <2>1. s # r /\ recon'[s] = recon[s]
    BY <1>5, <1>6
  <2> QED BY <1>3, <1>6, <1>8, <2>1 DEF ReconInv, RunsAgree, CompletedClean
<1>10. TotalsOfItems'
  <2>1. ASSUME NEW s \in Runs PROVE recon'[s].matched = TotalOf(item', s, Done)
                                     /\ recon'[s].unmatched = TotalOf(item', s, Unsettled)
    <3>1. CASE s = r
      BY <1>3, <1>5, <1>6, <3>1 DEF MatchedStatuses, Done
    <3>2. CASE s # r
      BY <1>6, <1>8, <3>2 DEF ReconInv, RunsAgree, TotalsOfItems
    <3> QED BY <3>1, <3>2
  <2>2. ASSUME NEW p \in Receipts, paid'[p].recon = "MATCHED"
        PROVE  \E j \in Items : item'[j].status = "MATCHED" /\ item'[j].payment = p
                                /\ item'[j].amount = paid'[p].amount
    <3>1. PICK j \in Items : item[j].status = "MATCHED" /\ item[j].payment = p
                             /\ item[j].amount = paid[p].amount
      BY <1>1, <2>2 DEF ReconInv, RunsAgree, TotalsOfItems
    <3>2. j # i
      BY <1>3, <3>1 DEF NoItem
    <3> QED BY <1>1, <1>6, <3>1, <3>2
  <2> QED BY <2>1, <2>2 DEF TotalsOfItems
<1> QED BY <1>1, <1>4, <1>6, <1>7, <1>9, <1>10, RowsWriteKeeps DEF RunsAgree

LEMMA FinishResolveKeeps ==
  ASSUME ReconAssumption, ReconInv, OneTransaction, NEW t \in Transactions, FinishResolve(t)
  PROVE  ReconInv'
<1> PICK q : q = trans[t]
  OBVIOUS
<1> PICK i, r, row, m, u : i = q.item /\ r = q.run /\ row = q.row /\ m = q.matched /\ u = q.unmatched
  OBVIOUS
<1> PICK p : p = row.payment
  OBVIOUS
<1>0. PICK rn : rn = [recon[r] EXCEPT !.matched = m, !.unmatched = u]
  OBVIOUS
<1>1. /\ q.op = "resolve" /\ q.summed /\ Ended(t)
      /\ item' = [item EXCEPT ![i] = row] /\ recon' = [recon EXCEPT ![r] = rn]
      /\ paid' = IF row.status = "MATCHED" THEN [paid EXCEPT ![p].recon = "MATCHED"]
                 ELSE IF row.status = "EXCEPTION_ACCEPTED" /\ p # NoOne
                 THEN [paid EXCEPT ![p].recon = "EXCEPTION"] ELSE paid
  BY <1>0 DEF FinishResolve, Totalled
<1>2. ResolveFits(q)
  <2>1. TransFits(q)
    BY DEF ReconInv
  <2> QED BY <1>1, <2>1 DEF TransFits, NoTrans, PostFits, IngestFits, CompleteFits
<1>3. /\ i \in Items /\ r \in Runs /\ row \in ItemRow /\ m \in Int /\ u \in Int
      /\ item[i].status \in Unsettled /\ item[i].run = r /\ row.run = r
      /\ row.status \in Done \cup Unsettled /\ row.amount = item[i].amount
      /\ (row.status = "MATCHED" => /\ p \in Receipts /\ paid[p].status # "NONE"
                                    /\ paid[p].amount = row.amount)
      /\ m = TotalOf(item', r, MatchedStatuses) /\ u = TotalOf(item', r, Unsettled)
  BY <1>1, <1>2 DEF ResolveFits, Summed
<1>4. item \in [Items -> ItemRow] /\ recon \in [Runs -> ReconRow] /\ paid \in [Receipts -> PaidRow]
      /\ recon[r].status # "NONE"
  BY <1>3 DEF ReconInv, ReconTyped, RowsFit, NoItem, Unsettled
<1>5. /\ rn \in ReconRow /\ rn.matched = m /\ rn.unmatched = u /\ rn.status = recon[r].status
      /\ rn.override = recon[r].override
  <2>1. recon[r] \in ReconRow
    BY <1>3, <1>4
  <2> QED BY <1>0, <1>3, <2>1 DEF ReconRow
<1>6. /\ item' \in [Items -> ItemRow] /\ item'[i] = row /\ \A j \in Items \ {i} : item'[j] = item[j]
      /\ recon' \in [Runs -> ReconRow] /\ recon'[r] = rn /\ \A s \in Runs \ {r} : recon'[s] = recon[s]
  BY <1>1, <1>3, <1>4, <1>5
<1>7. p \in Receipts \cup {NoOne}
  BY <1>3 DEF ItemRow
<1>8. /\ paid' \in [Receipts -> PaidRow]
      /\ \A s \in Receipts :
           /\ paid'[s].amount = paid[s].amount /\ paid'[s].status = paid[s].status
           /\ paid'[s].recon = "MATCHED" =>
                paid[s].recon = "MATCHED" \/ (s = p /\ row.status = "MATCHED")
  <2>0. ASSUME NEW mark \in {"MATCHED", "EXCEPTION"}, p \in Receipts,
               paid' = [paid EXCEPT ![p].recon = mark]
        PROVE  /\ paid' \in [Receipts -> PaidRow]
               /\ paid'[p].amount = paid[p].amount /\ paid'[p].status = paid[p].status
               /\ paid'[p].recon = mark
               /\ \A s \in Receipts \ {p} : paid'[s] = paid[s]
    <3>1. paid[p] \in PaidRow
      BY <1>4, <2>0
    <3>2. /\ [paid[p] EXCEPT !.recon = mark] \in PaidRow
          /\ [paid[p] EXCEPT !.recon = mark].amount = paid[p].amount
          /\ [paid[p] EXCEPT !.recon = mark].status = paid[p].status
          /\ [paid[p] EXCEPT !.recon = mark].recon = mark
      BY <3>1 DEF PaidRow
    <3>3. paid' = [paid EXCEPT ![p] = [paid[p] EXCEPT !.recon = mark]]
      BY <1>4, <2>0
    <3> QED BY <1>4, <2>0, <3>2, <3>3
  <2>1. CASE row.status = "MATCHED"
    <3>1. p \in Receipts /\ paid' = [paid EXCEPT ![p].recon = "MATCHED"]
      BY <1>1, <1>3, <2>1
    <3> QED BY <2>0, <2>1, <3>1
  <2>2. CASE row.status = "EXCEPTION_ACCEPTED" /\ p # NoOne
    <3>1. p \in Receipts /\ paid' = [paid EXCEPT ![p].recon = "EXCEPTION"]
      BY <1>1, <1>7, <2>2
    <3> QED BY <2>0, <3>1
  <2>3. CASE row.status # "MATCHED" /\ ~(row.status = "EXCEPTION_ACCEPTED" /\ p # NoOne)
    BY <1>1, <1>4, <2>3
  <2> QED BY <2>1, <2>2, <2>3
<1>9. RowsFit'
  <2>1. \A j \in Items : \/ item'[j] = NoItem
                          \/ /\ item'[j].run \in Runs /\ recon'[item'[j].run].status # "NONE"
                             /\ item'[j].status \in Done \cup Unsettled
    BY <1>3, <1>4, <1>5, <1>6 DEF ReconInv, RowsFit
  <2>2. \A s \in Receipts : paid'[s].status = "NONE" => paid'[s].recon # "MATCHED"
    BY <1>3, <1>8 DEF ReconInv, RowsFit
  <2>3. \A s \in Runs : recon'[s].status = "NONE" => recon'[s].matched = 0 /\ recon'[s].unmatched = 0
    BY <1>4, <1>5, <1>6 DEF ReconInv, RowsFit
  <2> QED BY <2>1, <2>2, <2>3 DEF RowsFit
<1>10. \A S : \A s \in Runs \ {r} : TotalOf(item', s, S) = TotalOf(item, s, S)
  BY <1>3, <1>4, <1>6, TotalSame
<1>11. CompletedClean'
  <2> SUFFICES ASSUME NEW s \in Runs, recon'[s].status = "COMPLETED" /\ ~recon'[s].override
               PROVE  /\ \A j \in Items : item'[j].run = s => item'[j].status \in Done
                      /\ recon'[s].control \in {NoControl, TotalOf(item', s, Done)}
    BY DEF CompletedClean
  <2>1. s # r
    <3>1. CASE s = r
      <4>1. recon[r].status = "COMPLETED" /\ ~recon[r].override
        BY <1>5, <1>6, <3>1
      <4>2. item[i].status \in Done
        BY <1>3, <4>1 DEF ReconInv, RunsAgree, CompletedClean
      <4> QED BY <1>3, <4>2 DEF Done, Unsettled
    <3> QED BY <3>1
  <2>2. recon'[s] = recon[s]
    BY <1>6, <2>1
  <2> QED BY <1>3, <1>6, <1>10, <2>1, <2>2 DEF ReconInv, RunsAgree, CompletedClean
<1>12. TotalsOfItems'
  <2>1. ASSUME NEW s \in Runs PROVE recon'[s].matched = TotalOf(item', s, Done)
                                     /\ recon'[s].unmatched = TotalOf(item', s, Unsettled)
    <3>1. CASE s = r
      BY <1>3, <1>5, <1>6, <3>1 DEF MatchedStatuses, Done
    <3>2. CASE s # r
      BY <1>6, <1>10, <3>2 DEF ReconInv, RunsAgree, TotalsOfItems
    <3> QED BY <3>1, <3>2
  <2>2. ASSUME NEW s \in Receipts, paid'[s].recon = "MATCHED"
        PROVE  \E j \in Items : item'[j].status = "MATCHED" /\ item'[j].payment = s
                                /\ item'[j].amount = paid'[s].amount
    <3>1. CASE s = p /\ row.status = "MATCHED"
      BY <1>3, <1>6, <1>8, <3>1
    <3>2. CASE paid[s].recon = "MATCHED"
      <4>1. PICK j \in Items : item[j].status = "MATCHED" /\ item[j].payment = s
                               /\ item[j].amount = paid[s].amount
        BY <3>2 DEF ReconInv, RunsAgree, TotalsOfItems
      <4>2. j # i
        BY <1>3, <4>1 DEF Unsettled
      <4> QED BY <1>6, <1>8, <4>1, <4>2
    <3> QED BY <1>8, <2>2, <3>1, <3>2
  <2> QED BY <2>1, <2>2 DEF TotalsOfItems
<1> QED BY <1>1, <1>6, <1>8, <1>9, <1>11, <1>12, RowsWriteKeeps DEF RunsAgree

\* The totals are of the committed rows, so that a run that needs no override is clean.
LEMMA FinishCompleteKeeps ==
  ASSUME ReconAssumption, ReconInv, OneTransaction, NEW t \in Transactions, FinishComplete(t)
  PROVE  ReconInv'
<1> PICK q : q = trans[t]
  OBVIOUS
<1> PICK r, m, u : r = q.run /\ m = q.matched /\ u = q.unmatched
  OBVIOUS
<1>0. PICK old, user : old = [recon[r] EXCEPT !.matched = m, !.unmatched = u]
                       /\ user = IF q.user # NoOne THEN q.user ELSE old.approver
  OBVIOUS
<1>r. PICK rn : rn = [old EXCEPT !.status = "COMPLETED", !.override = q.reason, !.approver = user]
  OBVIOUS
<1>1. /\ q.op = "complete" /\ q.summed /\ Ended(t) /\ UNCHANGED <<paid, item>>
      /\ recon' = [recon EXCEPT ![r] = rn] /\ (NeedsOverride(r, old) => q.reason)
  <2>1. Totalled(t) = old
    BY <1>0 DEF Totalled
  <2>2. [old EXCEPT !.status = "COMPLETED", !.override = q.reason,
                    !.approver = IF q.user # NoOne THEN q.user ELSE @] = rn
    BY <1>0, <1>r
  <2> QED BY <2>1, <2>2 DEF FinishComplete
<1>2. CompleteFits(q)
  <2>1. TransFits(q)
    BY DEF ReconInv
  <2> QED BY <1>1, <2>1 DEF TransFits, NoTrans, PostFits, IngestFits, ResolveFits
<1>3. /\ r \in Runs /\ m \in Int /\ u \in Int /\ q.reason \in BOOLEAN
      /\ q.user \in Clerks \cup {NoOne} /\ recon[r].status \in Open
      /\ m = TotalOf(item, r, MatchedStatuses) /\ u = TotalOf(item, r, Unsettled)
  BY <1>1, <1>2 DEF CompleteFits, Summed
<1>4. item \in [Items -> ItemRow] /\ recon \in [Runs -> ReconRow] /\ paid \in [Receipts -> PaidRow]
  BY DEF ReconInv, ReconTyped
<1>5. old \in ReconRow /\ old.matched = m /\ old.unmatched = u /\ old.control = recon[r].control
  <2>1. recon[r] \in ReconRow
    BY <1>3, <1>4
  <2> QED BY <1>0, <1>3, <2>1 DEF ReconRow
<1>6. user \in Clerks \cup {NoOne}
  BY <1>0, <1>3, <1>5 DEF ReconRow
<1>7. /\ rn \in ReconRow /\ rn.matched = m /\ rn.unmatched = u /\ rn.status = "COMPLETED"
      /\ rn.override = q.reason /\ rn.control = recon[r].control
  BY <1>r, <1>3, <1>5, <1>6 DEF ReconRow
<1>8. recon' \in [Runs -> ReconRow] /\ recon'[r] = rn /\ \A s \in Runs \ {r} : recon'[s] = recon[s]
  BY <1>1, <1>3, <1>4, <1>7
<1>9. RowsFit'
  BY <1>1, <1>7, <1>8 DEF ReconInv, RowsFit
<1>10. CompletedClean'
  <2> SUFFICES ASSUME NEW s \in Runs, recon'[s].status = "COMPLETED" /\ ~recon'[s].override
               PROVE  /\ \A j \in Items : item'[j].run = s => item'[j].status \in Done
                      /\ recon'[s].control \in {NoControl, TotalOf(item', s, Done)}
    BY DEF CompletedClean
  <2>1. CASE s # r
    <3>1. recon'[s] = recon[s]
      BY <1>8, <2>1
    <3> QED BY <1>1, <3>1 DEF ReconInv, RunsAgree, CompletedClean
  <2>2. CASE s = r
    <3>1. ~NeedsOverride(r, old)
      BY <1>1, <1>7, <1>8, <2>2
    <3>2. \A j \in Items : item[j].run = r => item[j].status \in Done
      <4> SUFFICES ASSUME NEW j \in Items, item[j].run = r PROVE item[j].status \in Done
        OBVIOUS
      <4>1. item[j].status \notin Unsettled
        BY <3>1 DEF NeedsOverride
      <4>2. item[j] # NoItem
        BY <1>3 DEF NoItem, ReconAssumption
      <4> QED BY <4>1, <4>2 DEF ReconInv, RowsFit
    <3>3. old.control \in {NoControl, m}
      <4> PICK control : control = old.control
        OBVIOUS
      <4>1. control \in Nat
        BY <1>5 DEF ReconRow
      <4>2. ~(Variance(old) > 0)
        BY <3>1 DEF NeedsOverride
      <4>3. control # NoControl => Variance(old) = IF control >= m THEN control - m ELSE m - control
        BY <1>5 DEF Variance
      <4> QED BY <1>3, <4>1, <4>2, <4>3
    <3>4. recon'[s].control \in {NoControl, m} /\ m = TotalOf(item', s, Done)
      BY <1>1, <1>3, <1>5, <1>7, <1>8, <2>2, <3>3 DEF MatchedStatuses, Done
    <3>5. \A j \in Items : item'[j].run = s => item'[j].status \in Done
      BY <1>1, <2>2, <3>2
    <3> QED BY <3>4, <3>5
  <2> QED BY <2>1, <2>2
<1>11. TotalsOfItems'
  <2>1. ASSUME NEW s \in Runs PROVE recon'[s].matched = TotalOf(item', s, Done)
                                     /\ recon'[s].unmatched = TotalOf(item', s, Unsettled)
    <3>1. CASE s = r
      BY <1>1, <1>3, <1>7, <1>8, <3>1 DEF MatchedStatuses, Done
    <3>2. CASE s # r
      BY <1>1, <1>8, <3>2 DEF ReconInv, RunsAgree, TotalsOfItems
    <3> QED BY <3>1, <3>2
  <2>2. ASSUME NEW p \in Receipts, paid'[p].recon = "MATCHED"
        PROVE  \E j \in Items : item'[j].status = "MATCHED" /\ item'[j].payment = p
                                /\ item'[j].amount = paid'[p].amount
    BY <1>1, <2>2 DEF ReconInv, RunsAgree, TotalsOfItems
  <2> QED BY <2>1, <2>2 DEF TotalsOfItems
<1> QED BY <1>1, <1>4, <1>8, <1>9, <1>10, <1>11, RowsWriteKeeps DEF RunsAgree

LEMMA ReconStep ==
  ASSUME ReconAssumption, ReconInv, OneTransaction, [ReconNext]_reconVars
  PROVE  ReconInv'
<1>1. CASE ClosePeriod
  BY <1>1, PeriodKeeps DEF ClosePeriod
<1>2. CASE ReopenPeriod
  BY <1>2, PeriodKeeps DEF ReopenPeriod
<1>3. CASE \E r \in Runs, user \in Clerks, control \in ReconAmounts \cup {NoControl} :
             CreateRun(r, user, control)
  BY <1>3, CreateRunKeeps
<1>4. ASSUME NEW t \in Transactions,
             \/ Abort(t) \/ Sum(t)
             \/ FinishPost(t) \/ FinishIngest(t) \/ FinishResolve(t) \/ FinishComplete(t)
      PROVE  ReconInv'
  BY <1>4, AbortKeeps, SumKeeps, FinishPostKeeps, FinishIngestKeeps, FinishResolveKeeps,
     FinishCompleteKeeps
<1>5. ASSUME NEW t \in Transactions, NEW p \in Receipts, NEW amount \in ReconAmounts,
             BeginPost(t, p, amount)
      PROVE  ReconInv'
  BY <1>5, BeginPostKeeps
<1>6. ASSUME NEW t \in Transactions, NEW i \in Items, NEW p \in Receipts \cup {NoOne},
             \/ \E r \in Runs, amount \in ReconAmounts : BeginIngest(t, r, i, amount, p)
             \/ \E status \in {"MATCHED", "UNMATCHED", "EXCEPTION_ACCEPTED", "DISPUTED"} :
                  BeginResolve(t, i, status, p)
      PROVE  ReconInv'
  BY <1>6, BeginIngestKeeps, BeginResolveKeeps
<1>7. ASSUME NEW t \in Transactions, NEW r \in Runs, NEW user \in Clerks \cup {NoOne},
             NEW reason \in BOOLEAN, BeginComplete(t, r, user, reason)
      PROVE  ReconInv'
  BY <1>7, BeginCompleteKeeps
<1>8. CASE UNCHANGED reconVars
  BY <1>8, PeriodKeeps DEF reconVars
<1> QED BY <1>1, <1>2, <1>3, <1>4, <1>5, <1>6, <1>7, <1>8 DEF ReconNext

\* RunsAgree (completeRun, resolveItem, ingestSettlements, recomputeRunTotals): with one
\* transaction at a time, for any number of runs, items and payments, the totals of a run are
\* those of its items, a run completed without an override has no open item and no variance, and
\* a payment that is marked as matched has a matched line of its amount.  With two transactions
\* at a time the code does not keep it.
THEOREM ReconciledRunsAgree ==
  ASSUME \A s, t \in Transactions : s = t PROVE ReconSpec => []RunsAgree
<1>1. ReconInv /\ [ReconNext]_reconVars => ReconInv'
  BY ReconStep, ReconAssumption DEF OneTransaction
<1>2. ReconInv => RunsAgree
  BY DEF ReconInv
<1> QED BY <1>1, <1>2, ReconStart, ReconAssumption, PTL DEF ReconSpec

-----------------------------------------------------------------------------
(***************************************************************************)
(* Rows and types.                                                         *)
(*                                                                         *)
(* The invariants above ask for an outbox as it is, or for one transaction *)
(* at a time.  The rows fit their tables without that.                     *)
(***************************************************************************)

\* What is owed for deposits covers what is held, so it is never negative.
DepositRows ==
  DepositTyped /\ taken \in [Lines -> Nat] /\ liability >= deposit.held

LEMMA DepositRowsStep ==
  ASSUME DepositRows, [DepositNext]_depositVars
  PROVE  DepositRows'
<1> USE DepositAssumption DEF DepositRows, DepositTyped
<1>1. CASE EnsureDeposit
  BY <1>1 DEF EnsureDeposit
<1>2. ASSUME NEW amount \in DepositAmounts, Collect(amount) PROVE DepositRows'
  <2>1. amount \in Nat
    OBVIOUS
  <2> QED BY <1>2, <2>1 DEF Collect
<1>3. ASSUME NEW user \in DepositUsers, NEW new \in SUBSET Unused,
             NEW amount \in [new -> LineAmounts], NEW type \in [new -> Types],
             CreateDispositions(user, amount, type)
      PROVE  DepositRows'
  <2>1. \A i \in new : amount[i] \in Nat /\ type[i] \in Types
    OBVIOUS
  <2>2. line' \in [Lines -> LineRow]
    BY <1>3, <2>1 DEF CreateDispositions, LineRow
  <2> QED BY <1>3, <2>2 DEF CreateDispositions
<1>4. ASSUME NEW a \in Approvals, ApproveLineWrite(a) PROVE DepositRows'
  <2> PICK r : r = approval[a]
    OBVIOUS
  <2>1. r.status \in {"NONE", "APPROVED", "REJECTED"} /\ r.user \in DepositUsers \cup {Nobody}
    OBVIOUS
  <2>2. /\ line' = [line EXCEPT ![r.line].status = r.status, ![r.line].approver = r.user]
        /\ approval' = [approval EXCEPT ![a] = NoApproval]
        /\ UNCHANGED <<deposit, liability, journalled, executed, taken>>
    BY <1>4 DEF ApproveLineWrite
  <2>3. line' \in [Lines -> LineRow]
    <3>1. CASE r.line \in Lines
      <4> PICK row : row = [line[r.line] EXCEPT !.status = r.status, !.approver = r.user]
        OBVIOUS
      <4>1. line' = [line EXCEPT ![r.line] = row]
        BY <2>2, <3>1
      <4>2. row \in LineRow
        <5> PICK old, status, user : old = line[r.line] /\ status = r.status /\ user = r.user
          OBVIOUS
        <5>1. old \in LineRow
          BY <3>1
        <5>2. row = [old EXCEPT !.status = status, !.approver = user]
          OBVIOUS
        <5> HIDE DEF DepositRows, DepositTyped
        <5> QED BY <2>1, <5>1, <5>2 DEF LineRow
      <4> QED BY <4>1, <4>2
    <3>2. CASE r.line \notin Lines
      <4>1. line' = line
        BY <2>2, <3>2
      <4> QED BY <4>1
    <3> QED BY <3>1, <3>2
  <2>4. approval' \in [Approvals -> [line : Lines \cup {0}, status : {"NONE", "APPROVED", "REJECTED"},
                                    user : DepositUsers \cup {Nobody}]]
    BY <2>2 DEF NoApproval
  <2> QED BY <2>2, <2>3, <2>4
<1>5. ASSUME NEW a \in Approvals, NEW i \in Lines, NEW user \in DepositUsers,
             NEW decision \in {"APPROVED", "REJECTED"}, ApproveLineRead(a, i, user, decision)
      PROVE  DepositRows'
  BY <1>5 DEF ApproveLineRead
<1>6. ASSUME NEW i \in Lines, NEW user \in DepositUsers, ExecuteDisposition(i, user)
      PROVE  DepositRows'
  <2>1. line[i].amount \in Nat /\ deposit.held \in Nat /\ line[i].amount <= deposit.held
    BY <1>6 DEF ExecuteDisposition, LineRow
  <2>2. line' \in [Lines -> LineRow]
    BY <1>6 DEF ExecuteDisposition, LineRow
  <2>3. /\ deposit' \in [status : {"NONE", "DUE", "HELD", "PARTIALLY_DISPOSED", "CLOSED"}, held : Nat]
        /\ deposit'.held = deposit.held - line[i].amount
        /\ liability' \in Int /\ liability' >= deposit'.held
    BY <1>6, <2>1 DEF ExecuteDisposition
  <2>4. /\ journalled' \subseteq Lines /\ executed' \subseteq Lines /\ approval' = approval
        /\ taken' \in [Lines -> Nat]
    BY <1>6 DEF ExecuteDisposition
  <2> QED BY <2>2, <2>3, <2>4
<1>7. CASE UNCHANGED depositVars
  BY <1>7 DEF depositVars
<1> HIDE DEF DepositRows, DepositTyped
<1> QED BY <1>1, <1>2, <1>3, <1>4, <1>5, <1>6, <1>7 DEF DepositNext

\* The deposit is never overdrawn and no liability becomes a claim, with any outbox, any
\* lines and any approvals that overlap (executeDisposition, approveDispositionLine).
THEOREM DepositsTyped == DepositSpec => []DepositTypeOK
<1>1. DepositInit => DepositRows
  BY StartsAgreed DEF DepositInv, DepositRows, DepositInit
<1>2. DepositRows => DepositTypeOK
  BY DEF DepositRows, DepositTyped, DepositTypeOK, LineRow
<1> QED BY <1>1, <1>2, DepositRowsStep, PTL DEF DepositSpec

-----------------------------------------------------------------------------
\* Runs, invoices and events keep the types of their tables, for any number of them.
THEOREM ChargesTyped == ChargeSpec => []ChargeTypeOK
<1>1. ASSUME ChargeInv PROVE ChargeTypeOK
  <2>1. \A i \in DOMAIN bill : bill[i] \in ChargeRow
    BY <1>1 DEF ChargeInv, ChargeTyped
  <2> QED BY <1>1, <2>1 DEF ChargeInv, ChargeTyped, ChargeTypeOK, ChargeRow, AnyStatus
<1> QED BY <1>1, ChargingAssumption, ChargesStart, ChargeStep, PTL DEF ChargeSpec

-----------------------------------------------------------------------------
\* What an open transaction has read and will write.
TransTyped(q) ==
  \/ q = NoTrans
  \/ q \in [op : {"record", "reverse"}, payment : Receipts, amount : ReconAmounts \cup {0}]
  \/ q \in [op : {"ingest", "resolve"}, run : Runs \cup {NoOne}, item : Items, summed : BOOLEAN,
            matched : Nat, unmatched : Nat, row : ItemRow]
  \/ q \in [op : {"complete"}, run : Runs, user : Clerks \cup {NoOne}, reason : BOOLEAN,
            summed : BOOLEAN, matched : Nat, unmatched : Nat]

TotalledRow ==
  [status : {"NONE", "DRAFT", "IN_PROGRESS", "COMPLETED"}, preparer : Clerks \cup {NoOne},
   approver : Clerks \cup {NoOne}, control : Nat, matched : Nat, unmatched : Nat,
   override : BOOLEAN]

ReconRows ==
  /\ ReconTypeOK
  /\ trans = [t \in Transactions |-> trans[t]] /\ \A t \in Transactions : TransTyped(trans[t])

LEMMA ReconBegins ==
  ASSUME ReconRows, NEW t \in Transactions, NEW q, TransTyped(q), trans' = [trans EXCEPT ![t] = q],
         ReconTypeOK'
  PROVE  ReconRows'
BY DEF ReconRows

LEMMA ReconEnds ==
  ASSUME ReconRows, NEW t \in Transactions, Ended(t), ReconTypeOK'
  PROVE  ReconRows'
BY ReconBegins DEF Ended, TransTyped

LEMMA SumRows ==
  ASSUME ReconAssumption, ReconRows, NEW t \in Transactions, Sum(t)
  PROVE  ReconRows'
<1> PICK q : q = trans[t]
  OBVIOUS
<1>1. TransTyped(q) /\ q.op \in {"ingest", "resolve", "complete"}
  BY DEF ReconRows, Sum
<1>2. Seen(t) \in [Items -> ItemRow]
  BY <1>1 DEF Seen, TransTyped, NoTrans, ReconRows, ReconTypeOK, ItemRow
<1>3. ASSUME NEW rows \in [Items -> ItemRow], NEW r, NEW S PROVE TotalOf(rows, r, S) \in Nat
  <2> DEFINE f == [i \in Items |-> rows[i].amount]
             T == {i \in Items : rows[i].run = r /\ rows[i].status \in S}
  <2>1. IsFiniteSet(T) /\ \A i \in T : f[i] \in Nat
    <3>1. T \subseteq Items /\ IsFiniteSet(Items)
      BY DEF ReconAssumption
    <3>2. \A i \in Items : rows[i].amount \in Nat
      BY AmountsNat DEF ItemRow
    <3> QED BY <3>1, <3>2, FS_Subset
  <2>2. TotalOf(rows, r, S) = SumFunctionOnSet(f, T)
    BY DEF TotalOf
  <2> HIDE DEF f, T
  <2> QED BY <2>1, <2>2, SumNat
<1>4. PICK m \in Nat, n \in Nat : m = TotalOf(Seen(t), q.run, MatchedStatuses)
                                 /\ n = TotalOf(Seen(t), q.run, Unsettled)
  BY <1>2, <1>3
<1>5. trans' = [trans EXCEPT ![t] = [q EXCEPT !.summed = TRUE, !.matched = m, !.unmatched = n]]
      /\ UNCHANGED <<paid, recon, item, period, notified>>
  BY <1>4 DEF Sum
<1>6. TransTyped([q EXCEPT !.summed = TRUE, !.matched = m, !.unmatched = n])
  BY <1>1 DEF TransTyped, NoTrans
<1>7. ReconTypeOK'
  BY <1>5 DEF ReconRows, ReconTypeOK
<1> QED BY <1>5, <1>6, <1>7, ReconBegins

\* The beginnings only read.
LEMMA BeginRows ==
  ASSUME ReconAssumption, ReconRows, NEW t \in Transactions, NEW q, Begun(t, q), TransTyped(q)
  PROVE  ReconRows'
<1>1. ReconTypeOK'
  BY DEF Begun, ReconRows, ReconTypeOK
<1> QED BY <1>1, ReconBegins DEF Begun

\* A transaction that ends writes rows that fit.
LEMMA FinishRows ==
  ASSUME ReconAssumption, ReconRows, NEW t \in Transactions,
         FinishPost(t) \/ FinishIngest(t) \/ FinishResolve(t) \/ FinishComplete(t)
  PROVE  ReconRows'
<1> PICK q : q = trans[t]
  OBVIOUS
<1>1. TransTyped(q)
  BY DEF ReconRows
<1>2. CASE FinishPost(t)
  <2>1. q \in [op : {"record", "reverse"}, payment : Receipts, amount : ReconAmounts \cup {0}]
    BY <1>1, <1>2 DEF FinishPost, TransTyped, NoTrans
  <2>2. ReconTypeOK'
    BY <1>2, <2>1 DEF FinishPost, ReconRows, ReconTypeOK
  <2> QED BY <1>2, <2>2, ReconEnds DEF FinishPost
<1>3. ASSUME q.op \in {"ingest", "resolve"}
      PROVE  [item EXCEPT ![q.item] = q.row] \in [Items -> ItemRow]
  <2>1. q.item \in Items /\ q.row \in ItemRow
    BY <1>1, <1>3 DEF TransTyped, NoTrans
  <2> QED BY <2>1 DEF ReconRows, ReconTypeOK, ItemRow
<1>0. ASSUME NEW r \in Runs, q.run = r, q.op \in {"ingest", "resolve", "complete"}
      PROVE  Totalled(t) \in TotalledRow
  <2>1. q.matched \in Nat /\ q.unmatched \in Nat
    BY <1>0, <1>1 DEF TransTyped, NoTrans
  <2>2. recon[r] \in TotalledRow
    BY DEF ReconRows, ReconTypeOK, TotalledRow
  <2>3. Totalled(t) = [recon[r] EXCEPT !.matched = q.matched, !.unmatched = q.unmatched]
    BY <1>0 DEF Totalled
  <2> QED BY <2>1, <2>2, <2>3 DEF TotalledRow
<1>4. CASE FinishIngest(t)
  <2>1. item' \in [Items -> ItemRow]
    BY <1>3, <1>4 DEF FinishIngest
  <2>2. recon' \in [Runs -> TotalledRow]
    BY <1>4, <1>0 DEF FinishIngest, TotalledRow, ReconRows, ReconTypeOK
  <2>3. ReconTypeOK'
    BY <1>4, <2>1, <2>2 DEF FinishIngest, ReconRows, ReconTypeOK, ItemRow, TotalledRow
  <2> QED BY <1>4, <2>3, ReconEnds DEF FinishIngest
<1>5. CASE FinishResolve(t)
  <2>1. paid' \in [Receipts -> PaidRow]
    <3>1. paid \in [Receipts -> PaidRow]
      BY DEF ReconRows, ReconTypeOK, PaidRow
    <3>2. PICK p, way : way \in {"MATCHED", "EXCEPTION"} /\
            (paid' = paid \/ paid' = [paid EXCEPT ![p].recon = way])
      BY <1>5 DEF FinishResolve
    <3> QED BY <3>1, <3>2 DEF PaidRow
  <2>2. recon' \in [Runs -> TotalledRow]
    BY <1>5, <1>0 DEF FinishResolve, TotalledRow, ReconRows, ReconTypeOK
  <2>3. item' \in [Items -> ItemRow]
    BY <1>3, <1>5 DEF FinishResolve
  <2>4. ReconTypeOK'
    BY <1>5, <2>1, <2>2, <2>3 DEF FinishResolve, ReconRows, ReconTypeOK, ItemRow, PaidRow, TotalledRow
  <2> QED BY <1>5, <2>4, ReconEnds DEF FinishResolve
<1>6. CASE FinishComplete(t)
  <2>1. q \in [op : {"complete"}, run : Runs, user : Clerks \cup {NoOne}, reason : BOOLEAN,
               summed : BOOLEAN, matched : Nat, unmatched : Nat]
    BY <1>1, <1>6 DEF FinishComplete, TransTyped, NoTrans
  <2>2. Totalled(t) \in TotalledRow
    BY <1>0, <2>1
  <2>3. [Totalled(t) EXCEPT !.status = "COMPLETED", !.override = q.reason,
                           !.approver = IF q.user # NoOne THEN q.user ELSE @] \in TotalledRow
    BY <2>1, <2>2 DEF TotalledRow
  <2>4. recon' \in [Runs -> TotalledRow]
    BY <1>6, <2>3 DEF FinishComplete, TotalledRow, ReconRows, ReconTypeOK
  <2>5. ReconTypeOK'
    BY <1>6, <2>4 DEF FinishComplete, ReconRows, ReconTypeOK, TotalledRow
  <2> QED BY <1>6, <2>5, ReconEnds DEF FinishComplete
<1> QED BY <1>2, <1>4, <1>5, <1>6

LEMMA ReconRowsStep ==
  ASSUME ReconAssumption, ReconRows, [ReconNext]_reconVars
  PROVE  ReconRows'
<1>1. CASE ClosePeriod \/ ReopenPeriod
  BY <1>1 DEF ClosePeriod, ReopenPeriod, ReconRows, ReconTypeOK
<1>2. ASSUME NEW r \in Runs, NEW user \in Clerks, NEW control \in ReconAmounts \cup {NoControl},
             CreateRun(r, user, control)
      PROVE  ReconRows'
  <2>1. control \in Nat
    BY AmountsNat DEF NoControl
  <2> QED BY <1>2, <2>1 DEF CreateRun, NoRunYet, NoControl, ReconRows, ReconTypeOK
<1>3. ASSUME NEW t \in Transactions, Abort(t) PROVE ReconRows'
  <2>1. ReconTypeOK'
    BY <1>3 DEF Abort, ReconRows, ReconTypeOK
  <2> QED BY <1>3, <2>1, ReconEnds DEF Abort
<1>4. ASSUME NEW t \in Transactions, NEW p \in Receipts, NEW amount \in ReconAmounts,
             BeginPost(t, p, amount)
      PROVE  ReconRows'
  <2>1. PICK op \in {"record", "reverse"} : Begun(t, [op |-> op, payment |-> p, amount |-> amount])
    BY <1>4 DEF BeginPost
  <2> QED BY <2>1, BeginRows DEF TransTyped
<1>5. ASSUME NEW t \in Transactions, NEW r \in Runs, NEW i \in Items, NEW amount \in ReconAmounts,
             NEW p \in Receipts \cup {NoOne}, BeginIngest(t, r, i, amount, p)
      PROVE  ReconRows'
  <2>1. PICK row \in ItemRow :
          Begun(t, [op |-> "ingest", run |-> r, item |-> i, summed |-> FALSE, matched |-> 0,
                    unmatched |-> 0, row |-> row])
    BY <1>5 DEF BeginIngest, ItemRow, Unsettled
  <2> QED BY <2>1, BeginRows DEF TransTyped
<1>6. ASSUME NEW t \in Transactions, NEW i \in Items, NEW p \in Receipts \cup {NoOne},
             NEW status \in {"MATCHED", "UNMATCHED", "EXCEPTION_ACCEPTED", "DISPUTED"},
             BeginResolve(t, i, status, p)
      PROVE  ReconRows'
  <2>1. item[i] \in ItemRow
    BY DEF ReconRows, ReconTypeOK, ItemRow
  <2>2. PICK row \in ItemRow :
          Begun(t, [op |-> "resolve", run |-> item[i].run, item |-> i, summed |-> FALSE,
                    matched |-> 0, unmatched |-> 0, row |-> row])
    BY <1>6, <2>1 DEF BeginResolve, ItemRow, Unsettled, Done
  <2> QED BY <2>1, <2>2, BeginRows DEF TransTyped, ItemRow
<1>7. ASSUME NEW t \in Transactions, NEW r \in Runs, NEW user \in Clerks \cup {NoOne},
             NEW reason \in BOOLEAN, BeginComplete(t, r, user, reason)
      PROVE  ReconRows'
  <2>1. Begun(t, [op |-> "complete", run |-> r, user |-> user, reason |-> reason,
                  summed |-> FALSE, matched |-> 0, unmatched |-> 0])
    BY <1>7 DEF BeginComplete
  <2> QED BY <2>1, BeginRows DEF TransTyped
<1>8. CASE UNCHANGED reconVars
  BY <1>8 DEF reconVars, ReconRows, ReconTypeOK
<1> QED
  BY <1>1, <1>2, <1>3, <1>4, <1>5, <1>6, <1>7, <1>8, SumRows, FinishRows DEF ReconNext

\* Payments, runs and items keep the types of their tables, and no total is negative, for
\* any number of transactions that overlap: also where the totals are wrong.
THEOREM ReconciliationTyped == ReconSpec => []ReconTypeOK
<1>1. ReconInit => ReconRows
  BY DEF ReconInit, ReconRows, ReconTypeOK, NoRunYet, NoControl, NoItem, TransTyped
<1>2. ReconRows => ReconTypeOK
  BY DEF ReconRows
<1> QED BY <1>1, <1>2, ReconRowsStep, ReconAssumption, PTL DEF ReconSpec

-----------------------------------------------------------------------------
(***************************************************************************)
(* The hands together.  Each step of the run is a step of one part and a   *)
(* stutter of the others, so the run keeps all that is proved of a part.   *)
(***************************************************************************)

\* The specification TLC runs implements that of every part: what is proved of
\* receivables, charges, deposits and reconciliations holds of their sum.
THEOREM HandsRun == FinanceSpec => Spec /\ ChargeSpec /\ DepositSpec /\ ReconSpec
<1>1. FinanceInit => Init /\ ChargeInit /\ DepositInit /\ ReconInit
  BY DEF FinanceInit
<1>2. [FinanceNext]_<<part, ledgerVars>> =>
        [Next]_vars /\ [ChargeNext]_chargeVars /\ [DepositNext]_depositVars /\ [ReconNext]_reconVars
  BY DEF FinanceNext, ledgerVars
<1> QED BY <1>1, <1>2, PTL DEF FinanceSpec, Spec, ChargeSpec, DepositSpec, ReconSpec

\* Every row of every part fits its table, whatever amounts, leases, lines and
\* transactions there are.
THEOREM FinanceTyped == FinanceSpec => []FinanceTypeOK
<1>1. FinanceInit => part \in Ledgers
  BY DEF FinanceInit
<1>2. part \in Ledgers /\ [FinanceNext]_<<part, ledgerVars>> => (part \in Ledgers)'
  BY DEF FinanceNext
<1>3. FinanceSpec => [](part \in Ledgers)
  BY <1>1, <1>2, PTL DEF FinanceSpec
<1>4. part \in Ledgers /\ TypeOK /\ ChargeTypeOK /\ DepositTypeOK /\ ReconTypeOK => FinanceTypeOK
  BY DEF FinanceTypeOK
<1> QED
  BY <1>3, <1>4, HandsRun, TypeCorrect, ChargesTyped, DepositsTyped, ReconciliationTyped, PTL

=============================================================================
