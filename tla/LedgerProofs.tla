---------------------------- MODULE LedgerProofs ----------------------------
(***************************************************************************)
(* Proofs about the general ledger and what feeds it: payment intents and  *)
(* webhooks, the numbers of documents, and the journals.                   *)
(***************************************************************************)
EXTENDS MCLedger, ReceivablesProofs

-----------------------------------------------------------------------------
(***************************************************************************)
(* Settlements.                                                            *)
(***************************************************************************)

Receipt == [provider : ProviderPayments \cup {NoId}, intent : Intents \cup {NoId},
            reference : References \cup {NoId}]

SettleTyped ==
  /\ content \in [ProviderEvents -> Content] /\ Consistent(content)
  /\ intent \in [Intents -> {"NONE", "REQUIRES_ACTION", "SUCCEEDED"}]
  /\ webhook \in [ProviderEvents -> {"NONE", "PROCESSED", "IGNORED"}]
  /\ payable \subseteq Intents /\ told \subseteq ProviderEvents
  /\ receipt \in Seq(Receipt)
  /\ delivery \in [Deliveries -> ProviderEvents \cup {NoId}]
  /\ recording \in [Recorders -> References \cup {NoId}]

PaidFor(i) == \E p \in DOMAIN receipt : receipt[p].intent = i

\* A payment with an identity of the provider came with an event that says so,
\* which is how settleFromIntentInTx may trust the payment it finds.
Traced ==
  \A p \in DOMAIN receipt : receipt[p].provider # NoId =>
    \E e \in ProviderEvents :
      content[e].payment = receipt[p].provider /\ content[e].intent = receipt[p].intent

\* AcceptedIsSettled asks this of events that were answered; it is true of all.
Settled ==
  /\ \A i \in Intents : intent[i] = "SUCCEEDED" <=> PaidFor(i)
  /\ \A e \in ProviderEvents : webhook[e] = "PROCESSED" => PaidFor(content[e].intent)
  /\ \A e \in told : webhook[e] # "NONE"

SettleInv == SettleTyped /\ Traced /\ Settled

-----------------------------------------------------------------------------
\* A payment that is appended joins those that were there.
LEMMA Joined ==
  ASSUME receipt \in Seq(Receipt), NEW row \in Receipt, receipt' = Append(receipt, row)
  PROVE  /\ receipt' \in Seq(Receipt)
         /\ DOMAIN receipt' = DOMAIN receipt \cup {Len(receipt) + 1}
         /\ \A p \in DOMAIN receipt : receipt'[p] = receipt[p]
         /\ receipt'[Len(receipt) + 1] = row
OBVIOUS

LEMMA StartsSettled == SettleInit => SettleInv
<1>1. SettleInit => SettleTyped
  BY DEF SettleInit, SettleTyped
<1>2. SettleInit => Traced /\ Settled
  BY DEF SettleInit, Traced, Settled, PaidFor
<1> QED BY <1>1, <1>2 DEF SettleInv

\* An event that finds the payment, or brings it, leaves its intent settled.
LEMMA SucceedKeeps ==
  ASSUME SettlementAssumption, SettleInv, NEW d \in Deliveries, Succeed(d)
  PROVE  SettleInv'
<1>1. PICK e \in ProviderEvents : delivery[d] = e /\ e # NoId
  BY DEF SettleInv, SettleTyped, Succeed
<1>2. PICK i \in Intents : content[e].intent = i
  BY <1>1 DEF SettleInv, SettleTyped, Succeed, Content
<1>3. PICK id \in ProviderPayments \cup {NoId} : content[e].payment = id
  BY <1>1 DEF SettleInv, SettleTyped, Content
<1> DEFINE row == [provider |-> id, intent |-> i, reference |-> NoId]
<1>4. row \in Receipt
  BY DEF Receipt
<1>5. /\ content' = content /\ recording' = recording
      /\ intent' = [intent EXCEPT ![i] = "SUCCEEDED"]
      /\ webhook[e] = "NONE" /\ webhook' = [webhook EXCEPT ![e] = "PROCESSED"]
      /\ told' = told \cup {e}
      /\ delivery' = [delivery EXCEPT ![d] = NoId]
      /\ payable' \in {payable, payable \ {i}}
  BY <1>1, <1>2 DEF Succeed, Marked
<1>6. \/ AlreadySettled(id) /\ receipt' = receipt
      \/ receipt' = Append(receipt, row)
  BY <1>1, <1>2, <1>3 DEF Succeed, Received
<1>7. /\ receipt' \in Seq(Receipt) /\ PaidFor(i)' /\ Traced'
      /\ \A j \in Intents \ {i} : PaidFor(j)' <=> PaidFor(j)
      /\ \A j \in Intents \cup {NoId} : PaidFor(j) => PaidFor(j)'
  <2>1. CASE AlreadySettled(id) /\ receipt' = receipt
    <3>1. PICK p \in DOMAIN receipt : receipt[p].provider = id /\ id # NoId
      BY <2>1 DEF AlreadySettled
    <3>2. PICK f \in ProviderEvents :
            content[f].payment = id /\ content[f].intent = receipt[p].intent
      BY <3>1 DEF SettleInv, Traced
    <3>3. receipt[p].intent = i
      BY <1>2, <1>3, <3>1, <3>2 DEF SettleInv, SettleTyped, Consistent
    <3>4. PaidFor(i)'
      BY <2>1, <3>3 DEF PaidFor
    <3>5. \A j : PaidFor(j)' <=> PaidFor(j)
      BY <2>1 DEF PaidFor
    <3>6. Traced' /\ receipt' \in Seq(Receipt)
      BY <2>1, <1>5 DEF SettleInv, SettleTyped, Traced
    <3> QED BY <3>4, <3>5, <3>6
  <2>2. CASE receipt' = Append(receipt, row)
    <3>1. /\ receipt' \in Seq(Receipt)
          /\ DOMAIN receipt' = DOMAIN receipt \cup {Len(receipt) + 1}
          /\ \A p \in DOMAIN receipt : receipt'[p] = receipt[p]
          /\ receipt'[Len(receipt) + 1] = row
      BY <1>4, <2>2, Joined DEF SettleInv, SettleTyped
    <3>2. row.intent = i /\ row.provider = id
      OBVIOUS
    <3>3. Traced'
      BY <3>1, <3>2, <1>2, <1>3, <1>5 DEF SettleInv, Traced
    <3> QED BY <3>1, <3>2, <3>3 DEF PaidFor
  <2> QED BY <1>6, <2>1, <2>2
<1>8. SettleTyped'
  BY <1>1, <1>5, <1>7 DEF SettleInv, SettleTyped
<1>9. Settled'
  <2>1. \A j \in Intents : intent'[j] = "SUCCEEDED" <=> PaidFor(j)'
    BY <1>5, <1>7 DEF SettleInv, SettleTyped, Settled
  <2>2. \A f \in ProviderEvents : webhook'[f] = "PROCESSED" => PaidFor(content[f].intent)'
    <3>1. \A f \in ProviderEvents : content'[f].intent = content[f].intent
                                    /\ content[f].intent \in Intents \cup {NoId}
      BY <1>5 DEF SettleInv, SettleTyped, Content
    <3>2. ASSUME NEW f \in ProviderEvents, webhook'[f] = "PROCESSED"
          PROVE  PaidFor(content[f].intent)'
      <4>1. PICK j \in Intents \cup {NoId} : content[f].intent = j /\ content'[f].intent = j
        BY <3>1
      <4>2. PaidFor(j)'
        BY <4>1, <3>2, <1>1, <1>2, <1>5, <1>7 DEF SettleInv, SettleTyped, Settled
      <4> QED BY <4>1, <4>2 DEF PaidFor
    <3> QED BY <3>2
  <2>3. \A f \in told' : webhook'[f] # "NONE"
    BY <1>1, <1>5 DEF SettleInv, SettleTyped, Settled
  <2> QED BY <2>1, <2>2, <2>3 DEF Settled, PaidFor
<1> QED BY <1>7, <1>8, <1>9 DEF SettleInv

\* A recorded payment belongs to no intent and has no identity of the provider.
LEMMA RecordKeeps ==
  ASSUME SettlementAssumption, SettleInv, NEW r \in Recorders, RecordReference(r)
  PROVE  SettleInv'
<1> DEFINE row == [provider |-> NoId, intent |-> NoId, reference |-> recording[r]]
<1>1. row \in Receipt
  BY DEF SettleInv, SettleTyped, Receipt
<1>2. receipt' = receipt \/ receipt' = Append(receipt, row)
  BY DEF RecordReference, Received
<1>3. /\ receipt' \in Seq(Receipt) /\ Traced'
      /\ \A j \in Intents : PaidFor(j)' <=> PaidFor(j)
      /\ PaidFor(NoId) => PaidFor(NoId)'
  <2>1. CASE receipt' = receipt
    BY <2>1 DEF SettleInv, SettleTyped, Traced, PaidFor, RecordReference
  <2>2. CASE receipt' = Append(receipt, row)
    <3>1. /\ receipt' \in Seq(Receipt)
          /\ DOMAIN receipt' = DOMAIN receipt \cup {Len(receipt) + 1}
          /\ \A p \in DOMAIN receipt : receipt'[p] = receipt[p]
          /\ receipt'[Len(receipt) + 1] = row
      BY <1>1, <2>2, Joined DEF SettleInv, SettleTyped
    <3>2. row.intent = NoId /\ row.provider = NoId /\ NoId \notin Intents
      BY DEF SettlementAssumption
    <3>3. Traced'
      BY <3>1, <3>2 DEF SettleInv, Traced, RecordReference
    <3> QED BY <3>1, <3>2, <3>3 DEF PaidFor
  <2> QED BY <1>2, <2>1, <2>2
<1>4. SettleTyped'
  BY <1>3 DEF SettleInv, SettleTyped, RecordReference
<1>5. Settled'
  <2>1. \A f \in ProviderEvents : content[f].intent \in Intents \cup {NoId}
    BY DEF SettleInv, SettleTyped, Content
  <2> QED BY <1>3, <2>1 DEF SettleInv, Settled, RecordReference
<1> QED BY <1>3, <1>4, <1>5 DEF SettleInv

LEMMA StepSettled ==
  SettlementAssumption /\ SettleInv /\ [SettleNext]_settleVars => SettleInv'
<1> SUFFICES ASSUME SettlementAssumption, SettleInv, [SettleNext]_settleVars
             PROVE  SettleInv'
  OBVIOUS
<1>1. CASE ChangePeriod
  BY <1>1 DEF ChangePeriod, SettleInv, SettleTyped, Traced, Settled, PaidFor
<1>2. ASSUME NEW i \in Intents, ChangePayable(i)
      PROVE  SettleInv'
  BY <1>2 DEF ChangePayable, SettleInv, SettleTyped, Traced, Settled, PaidFor
<1>3. ASSUME NEW i \in Intents, CreateIntent(i)
      PROVE  SettleInv'
  BY <1>3 DEF CreateIntent, SettleInv, SettleTyped, Traced, Settled, PaidFor
<1>4. ASSUME NEW d \in Deliveries, NEW e \in ProviderEvents, Deliver(d, e)
      PROVE  SettleInv'
  BY <1>4 DEF Deliver, SettleInv, SettleTyped, Traced, Settled, PaidFor
<1>5. ASSUME NEW d \in Deliveries, Ignore(d)
      PROVE  SettleInv'
  BY <1>5 DEF Ignore, Marked, SettleInv, SettleTyped, Traced, Settled, PaidFor
<1>6. ASSUME NEW d \in Deliveries, Succeed(d)
      PROVE  SettleInv'
  BY <1>6, SucceedKeeps
<1>7. ASSUME NEW d \in Deliveries, Fail(d)
      PROVE  SettleInv'
  BY <1>7 DEF Fail, SettleInv, SettleTyped, Traced, Settled, PaidFor
<1>8. ASSUME NEW r \in Recorders, NEW ref \in References, SearchReference(r, ref)
      PROVE  SettleInv'
  BY <1>8 DEF SearchReference, SettleInv, SettleTyped, Traced, Settled, PaidFor
<1>9. ASSUME NEW r \in Recorders, RecordReference(r)
      PROVE  SettleInv'
  BY <1>9, RecordKeeps
<1>10. CASE UNCHANGED settleVars
  BY <1>10 DEF settleVars, SettleInv, SettleTyped, Traced, Settled, PaidFor
<1> QED
  BY <1>1, <1>2, <1>3, <1>4, <1>5, <1>6, <1>7, <1>8, <1>9, <1>10 DEF SettleNext

LEMMA SettleInvariant == SettleSpec => []SettleInv
<1>1. SettleInit => SettleInv
  BY StartsSettled
<1>2. SettleInv /\ [SettleNext]_settleVars => SettleInv'
  BY StepSettled, SettlementAssumption
<1> QED BY <1>1, <1>2, PTL DEF SettleSpec

-----------------------------------------------------------------------------
\* Intents, events, payments, deliveries and recordings keep the types of their
\* tables, whatever the provider sends and in whatever order.
THEOREM SettleTypeCorrect == SettleSpec => []SettleTypeOK
<1>1. ASSUME SettleInv
      PROVE  SettleTypeOK
  <2>1. \A p \in DOMAIN receipt : receipt[p] \in Receipt
    BY <1>1 DEF SettleInv, SettleTyped
  <2> QED BY <1>1, <2>1 DEF SettleInv, SettleTyped, SettleTypeOK, Receipt
<1> QED BY <1>1, SettleInvariant, PTL

\* An intent has succeeded exactly when money was received for it, and an event
\* that was answered as accepted has had its effect, for any number of duplicated,
\* reordered, failing and overlapping deliveries.
THEOREM AcceptedSettled == SettleSpec => []AcceptedIsSettled
<1>1. SettleInv => AcceptedIsSettled
  BY DEF SettleInv, SettleTyped, Settled, AcceptedIsSettled, PaidFor
<1> QED BY <1>1, SettleInvariant, PTL

-----------------------------------------------------------------------------
(***************************************************************************)
(* Numbering.                                                              *)
(***************************************************************************)

Used(y) == {n[2] : n \in {m \in numbered : m[1] = y}}

\* A number that may be given: the first of its year, or the next after one given.
Follows(y, n) == n = 1 \/ <<y, n - 1>> \in numbered

PostingRow ==
  [at : {"start", "create", "lock", "stamp", "first", "done"}, year : Years \cup {0},
   row : Counters \cup {0}, number : (Years \cup {0}) \X Nat]

NumTyped ==
  /\ counter \in [Counters -> [year : Years \cup {0}, seq : Nat]]
  /\ numbered \subseteq Years \X (Nat \ {0})
  /\ posting \in [Postings -> PostingRow]
  /\ \A p \in Postings :
       /\ posting[p].at \in {"create", "lock"} => posting[p].year \in Years
       /\ posting[p].at \in {"lock", "stamp", "first"} => posting[p].row \in Counters

\* A counter stands at a number that was given, and a posting under way holds one
\* that may be given: both stay true as more numbers are given.
CounterGiven ==
  \A c \in Counters : counter[c].seq = 0 \/ <<counter[c].year, counter[c].seq>> \in numbered

PendingFollow ==
  \A p \in Postings : posting[p].at \in {"stamp", "first"} =>
    /\ posting[p].number[1] \in Years /\ posting[p].number[2] \in Nat \ {0}
    /\ Follows(posting[p].number[1], posting[p].number[2])

NoGap == \A y \in Years : \E k \in Nat : Used(y) = 1..k

NumInv == NumTyped /\ CounterGiven /\ PendingFollow /\ NoGap

-----------------------------------------------------------------------------
\* One more number that follows leaves no gap.
LEMMA OneMore ==
  ASSUME numbered \subseteq Years \X (Nat \ {0}), NoGap,
         NEW y \in Years, NEW n \in Nat \ {0}, Follows(y, n), <<y, n>> \notin numbered,
         numbered' = numbered \cup {<<y, n>>}
  PROVE  NoGap'
<1>1. ASSUME NEW z \in Years \ {y}
      PROVE  Used(z)' = Used(z)
  BY <1>1 DEF Used
<1>2. Used(y)' = Used(y) \cup {n}
  BY DEF Used
<1>3. PICK k \in Nat : Used(y) = 1..k
  BY DEF NoGap
<1>4. n = k + 1
  <2>1. n \notin Used(y)
    BY DEF Used
  <2>2. n = 1 \/ n - 1 \in Used(y)
    BY DEF Follows, Used
  <2> QED BY <2>1, <2>2, <1>3
<1>5. Used(y)' = 1..(k + 1)
  BY <1>2, <1>3, <1>4
<1>6. ASSUME NEW z \in Years
      PROVE  \E j \in Nat : Used(z)' = 1..j
  <2>1. CASE z = y
    BY <2>1, <1>5
  <2>2. CASE z # y
    BY <2>2, <1>1 DEF NoGap
  <2> QED BY <2>1, <2>2
<1> QED BY <1>6 DEF NoGap

LEMMA StartsNumbered == NumberInit => NumInv
<1> SUFFICES ASSUME NumberInit PROVE NumInv
  OBVIOUS
<1>1. NumTyped /\ CounterGiven /\ PendingFollow
  BY DEF NumberInit, NumTyped, PostingRow, CounterGiven, PendingFollow, NoCounter, NotPosted
<1>2. \A y \in Years : Used(y) = 1..0
  BY DEF NumberInit, Used
<1> QED BY <1>1, <1>2 DEF NumInv, NoGap

\* A row of a posting under way keeps its type.
LEMMA RowTyped ==
  ASSUME NEW r \in PostingRow, NEW at \in {"start", "create", "lock", "stamp", "first", "done"},
         NEW y \in Years \cup {0}, NEW c \in Counters \cup {0},
         NEW number \in (Years \cup {0}) \X Nat
  PROVE  /\ [r EXCEPT !.at = at, !.year = y, !.row = c] \in PostingRow
         /\ [r EXCEPT !.at = at, !.number = number] \in PostingRow
         /\ [r EXCEPT !.at = at, !.row = c, !.number = number] \in PostingRow
BY DEF PostingRow

LEMMA FindKeeps ==
  ASSUME NumInv, NEW p \in Postings, NEW year \in Years, FindCounter(p, year)
  PROVE  NumInv'
<1>1. PICK c \in Counters \cup {0} :
        posting' = [posting EXCEPT ![p] = [@ EXCEPT
          !.at = IF c = 0 THEN "create" ELSE "lock", !.year = year, !.row = c]]
  BY DEF FindCounter
<1>2. UNCHANGED <<counter, numbered>>
  BY DEF FindCounter
<1>3. NumTyped'
  <2>1. PICK at \in {"create", "lock"} : at = IF c = 0 THEN "create" ELSE "lock"
    OBVIOUS
  <2>2. posting' = [posting EXCEPT ![p] = [posting[p] EXCEPT !.at = at, !.year = year, !.row = c]]
    BY <1>1, <2>1
  <2>3. [posting[p] EXCEPT !.at = at, !.year = year, !.row = c] \in PostingRow
    <3>1. posting[p] \in PostingRow /\ <<0, 0>> \in (Years \cup {0}) \X Nat
      BY DEF NumInv, NumTyped
    <3> QED BY <2>1, <3>1, RowTyped
  <2>4. posting' \in [Postings -> PostingRow]
    BY <2>2, <2>3 DEF NumInv, NumTyped
  <2> QED BY <1>2, <2>1, <2>2, <2>4 DEF NumInv, NumTyped, PostingRow
<1>4. PendingFollow'
  BY <1>1, <1>2 DEF NumInv, NumTyped, PostingRow, PendingFollow, Follows
<1> QED BY <1>2, <1>3, <1>4 DEF NumInv, CounterGiven, NoGap, Used

\* The counter's next number follows the one it stands at.
LEMMA LockKeeps ==
  ASSUME NumInv, NEW p \in Postings, LockCounter(p)
  PROVE  NumInv'
<1>1. PICK y \in Years : posting[p].year = y
  BY DEF NumInv, NumTyped, PostingRow, LockCounter
<1>2. PICK c \in Counters : posting[p].row = c
  BY DEF NumInv, NumTyped, PostingRow, LockCounter
<1>3. PICK n \in Nat \ {0} : n = NextSeq(c, y) /\ Follows(y, n)
  BY DEF NumInv, NumTyped, CounterGiven, NextSeq, Follows
<1>4. posting' = [posting EXCEPT ![p].at = "stamp", ![p].number = <<y, n>>]
  BY <1>1, <1>2, <1>3 DEF LockCounter
<1>5. UNCHANGED <<counter, numbered>>
  BY DEF LockCounter
<1>6. NumTyped'
  <2>1. posting' = [posting EXCEPT ![p] = [posting[p] EXCEPT !.at = "stamp", !.number = <<y, n>>]]
    BY <1>4
  <2>2. [posting[p] EXCEPT !.at = "stamp", !.number = <<y, n>>] \in PostingRow
    BY RowTyped DEF NumInv, NumTyped
  <2>3. posting' \in [Postings -> PostingRow]
    BY <2>1, <2>2 DEF NumInv, NumTyped
  <2> QED BY <1>2, <1>5, <2>1, <2>3 DEF NumInv, NumTyped, PostingRow
<1>7. PendingFollow'
  BY <1>3, <1>4, <1>5 DEF NumInv, NumTyped, PostingRow, PendingFollow, Follows
<1> QED BY <1>5, <1>6, <1>7 DEF NumInv, CounterGiven, NoGap, Used

LEMMA CreateKeeps ==
  ASSUME NumInv, NEW p \in Postings, NEW c \in Counters, CreateCounter(p, c)
  PROVE  NumInv'
<1>1. PICK y \in Years : posting[p].year = y
  BY DEF NumInv, NumTyped, PostingRow, CreateCounter
<1>2. posting' = [posting EXCEPT ![p] = [@ EXCEPT
                    !.at = "first", !.row = c, !.number = <<y, 1>>]]
  BY <1>1 DEF CreateCounter
<1>3. UNCHANGED <<counter, numbered>>
  BY DEF CreateCounter
<1>4. NumTyped'
  <2>1. [posting[p] EXCEPT !.at = "first", !.row = c, !.number = <<y, 1>>] \in PostingRow
    BY RowTyped DEF NumInv, NumTyped
  <2>2. posting' \in [Postings -> PostingRow]
    BY <1>2, <2>1 DEF NumInv, NumTyped
  <2> QED BY <1>2, <1>3, <2>2 DEF NumInv, NumTyped, PostingRow
<1>5. PendingFollow'
  BY <1>2, <1>3 DEF NumInv, NumTyped, PostingRow, PendingFollow, Follows
<1> QED BY <1>3, <1>4, <1>5 DEF NumInv, CounterGiven, NoGap, Used

LEMMA StampKeeps ==
  ASSUME NumInv, NEW p \in Postings, Stamp(p)
  PROVE  NumInv'
<1>1. PICK y \in Years, n \in Nat \ {0} : posting[p].number = <<y, n>> /\ Follows(y, n)
  BY DEF NumInv, NumTyped, PostingRow, PendingFollow, Stamp
<1>2. PICK c \in Counters : posting[p].row = c
  BY DEF NumInv, NumTyped, PostingRow, Stamp
<1>3. posting' = [posting EXCEPT ![p] = [NotPosted EXCEPT !.at = "done"]]
  BY DEF Stamp
<1>4. \/ UNCHANGED <<counter, numbered>>
      \/ /\ <<y, n>> \notin numbered /\ numbered' = numbered \cup {<<y, n>>}
         /\ counter' = [counter EXCEPT ![c] = [year |-> y, seq |-> n]]
  BY <1>1, <1>2 DEF Stamp
<1>5. /\ numbered \subseteq numbered' /\ numbered' \subseteq Years \X (Nat \ {0})
      /\ counter' \in [Counters -> [year : Years \cup {0}, seq : Nat]]
  BY <1>4 DEF NumInv, NumTyped
<1>6. NumTyped'
  BY <1>3, <1>5 DEF NumInv, NumTyped, PostingRow, NotPosted
<1>7. CounterGiven'
  BY <1>4, <1>5 DEF NumInv, NumTyped, CounterGiven
<1>8. PendingFollow'
  BY <1>3, <1>5 DEF NumInv, NumTyped, PostingRow, PendingFollow, Follows, NotPosted
<1>9. NoGap'
  <2>1. CASE UNCHANGED <<counter, numbered>>
    BY <2>1 DEF NumInv, NoGap, Used
  <2>2. CASE <<y, n>> \notin numbered /\ numbered' = numbered \cup {<<y, n>>}
    BY <2>2, <1>1, OneMore DEF NumInv, NumTyped
  <2> QED BY <1>4, <2>1, <2>2
<1> QED BY <1>6, <1>7, <1>8, <1>9 DEF NumInv

LEMMA NumberInvariant == NumberSpec => []NumInv
<1>1. NumberInit => NumInv
  BY StartsNumbered
<1>2. ASSUME NumInv, [NumberNext]_numberVars
      PROVE  NumInv'
  <2>1. CASE UNCHANGED numberVars
    BY <1>2, <2>1 DEF numberVars, NumInv, NumTyped, CounterGiven, PendingFollow, NoGap, Used, Follows
  <2>2. ASSUME NEW p \in Postings, NEW year \in Years, FindCounter(p, year)
        PROVE  NumInv'
    BY <1>2, <2>2, FindKeeps
  <2>3. ASSUME NEW p \in Postings, LockCounter(p)
        PROVE  NumInv'
    BY <1>2, <2>3, LockKeeps
  <2>4. ASSUME NEW p \in Postings, NEW c \in Counters, CreateCounter(p, c)
        PROVE  NumInv'
    BY <1>2, <2>4, CreateKeeps
  <2>5. ASSUME NEW p \in Postings, Stamp(p)
        PROVE  NumInv'
    BY <1>2, <2>5, StampKeeps
  <2> QED BY <1>2, <2>1, <2>2, <2>3, <2>4, <2>5 DEF NumberNext
<1> QED BY <1>1, <1>2, PTL DEF NumberSpec

-----------------------------------------------------------------------------
\* The numbers of the documents of a year run from 1 without a gap, whatever number
\* of postings race for the counter, are turned away or send dates of other years
\* (allocateDocumentNumber).
THEOREM WithoutGap == NumberSpec => []NumbersWithoutGap
<1>1. ASSUME NumInv
      PROVE  NumbersWithoutGap
  <2>1. ASSUME NEW y \in Years
        PROVE  Used(y) = 1..Cardinality(Used(y))
    <3>1. PICK k \in Nat : Used(y) = 1..k
      BY <1>1 DEF NumInv, NoGap
    <3>2. Cardinality(1..k) = k
      BY FS_Interval
    <3> QED BY <3>1, <3>2
  <2> QED BY <2>1 DEF NumbersWithoutGap, Used
<1> QED BY <1>1, NumberInvariant, PTL

-----------------------------------------------------------------------------
(***************************************************************************)
(* Journals.                                                               *)
(*                                                                         *)
(* For any number of documents, settlements and amounts.                   *)
(***************************************************************************)

LineAmounts(lines) == \A l \in lines : l.amount \in Int

JournalInv == IsFiniteSet(entries) /\ LineAmounts(entries) /\ LedgerBalances

-----------------------------------------------------------------------------
LEMMA Pair == ASSUME NEW a, NEW b PROVE IsFiniteSet({a, b})
<1>1. IsFiniteSet({a}) /\ {a, b} = {a} \cup {b}
  BY FS_Singleton
<1> QED BY <1>1, FS_AddElement

LEMMA NonZeroKeeps ==
  ASSUME NEW lines, IsFiniteSet(lines), LineAmounts(lines)
  PROVE  IsFiniteSet(NonZero(lines)) /\ LineAmounts(NonZero(lines))
<1>1. NonZero(lines) \subseteq lines
  BY DEF NonZero
<1> QED BY <1>1, FS_Subset DEF LineAmounts

\* Lines that are not among those of the ledger add to each side what is theirs.
LEMMA SideOfUnion ==
  ASSUME NEW S, NEW T, IsFiniteSet(S), IsFiniteSet(T), LineAmounts(S), LineAmounts(T), S \cap T = {},
         NEW side
  PROVE  Side(S \cup T, side) = Side(S, side) + Side(T, side)
<1> DEFINE f == [l \in S \cup T |-> l.amount]
           g == [l \in S |-> l.amount]
           h == [l \in T |-> l.amount]
           s == {l \in S : l.side = side}
           t == {l \in T : l.side = side}
<1>1. IsFiniteSet(s) /\ IsFiniteSet(t) /\ s \cap t = {}
  <2>1. s \subseteq S /\ t \subseteq T
    OBVIOUS
  <2> QED BY <2>1, FS_Subset
<1>2. \A l \in s \cup t : f[l] \in Int
  BY DEF LineAmounts
<1>3. \A l \in s : f[l] \in Int /\ g[l] = f[l]
  BY DEF LineAmounts
<1>4. \A l \in t : f[l] \in Int /\ h[l] = f[l]
  BY DEF LineAmounts
<1>5. {l \in S \cup T : l.side = side} = s \cup t
  OBVIOUS
<1>6. Side(S \cup T, side) = SumFunctionOnSet(f, s \cup t)
  BY <1>5 DEF Side
<1>7. Side(S, side) = SumFunctionOnSet(g, s) /\ Side(T, side) = SumFunctionOnSet(h, t)
  BY DEF Side
<1> HIDE DEF f, g, h, s, t
<1>8. SumFunctionOnSet(f, s \cup t) = SumFunctionOnSet(f, s) + SumFunctionOnSet(f, t)
  BY <1>1, <1>2, SumUnion
<1>9. SumFunctionOnSet(g, s) = SumFunctionOnSet(f, s)
  BY <1>1, <1>3, SumSame
<1>10. SumFunctionOnSet(h, t) = SumFunctionOnSet(f, t)
  BY <1>1, <1>4, SumSame
<1> QED BY <1>6, <1>7, <1>8, <1>9, <1>10

\* A journal enters whole or not at all, under keys that are new to the ledger.
LEMMA PostKeeps ==
  ASSUME JournalInv, NEW lines, IsFiniteSet(lines), LineAmounts(lines), PostBalanced(lines)
  PROVE  JournalInv'
<1>1. CASE Entered(lines) = {}
  <2>1. entries' = entries
    BY <1>1 DEF PostBalanced
  <2> QED BY <2>1 DEF JournalInv, LedgerBalances, LineAmounts
<1>2. CASE Entered(lines) # {}
  <2>1. entries' = entries \cup lines /\ \A l \in lines, e \in entries : e.key # l.key
    BY <1>2 DEF PostBalanced, Entered
  <2>2. entries \cap lines = {}
    BY <2>1
  <2>3. IsFiniteSet(entries \cup lines) /\ LineAmounts(entries \cup lines)
    BY FS_Union DEF JournalInv, LineAmounts
  <2>4. Side(lines, "DEBIT") = Side(lines, "CREDIT") /\ Side(entries, "DEBIT") = Side(entries, "CREDIT")
    BY DEF PostBalanced, Balanced, JournalInv, LedgerBalances
  <2>5. Side(entries \cup lines, "DEBIT") = Side(entries \cup lines, "CREDIT")
    BY <2>2, <2>4, SideOfUnion DEF JournalInv
  <2> QED BY <2>1, <2>3, <2>5 DEF JournalInv, LedgerBalances, LineAmounts
<1> QED BY <1>1, <1>2

LEMMA JournalStart == JournalInit => JournalInv
<1> SUFFICES ASSUME JournalInit PROVE JournalInv
  OBVIOUS
<1>1. entries = {} /\ IsFiniteSet(entries)
  BY FS_EmptySet DEF JournalInit
<1>2. \A side : {l \in entries : l.side = side} = {}
  BY <1>1
<1>3. \A side : Side(entries, side) = 0
  BY <1>2, SumEmpty DEF Side
<1> QED BY <1>1, <1>3 DEF JournalInv, LineAmounts, LedgerBalances

\* The lines of a posting are finitely many, with amounts.
Proper(lines) == IsFiniteSet(lines) /\ LineAmounts(lines)

LEMMA TwoLines ==
  ASSUME NEW x, NEW y, NEW m \in Int, NEW n \in Int, NEW k, NEW j, NEW s, NEW t
  PROVE  Proper({Line(x, s, m, k), Line(y, t, n, j)})
<1> DEFINE lines == {Line(x, s, m, k), Line(y, t, n, j)}
<1>1. IsFiniteSet(lines)
  BY Pair
<1>2. ASSUME NEW l \in lines PROVE l.amount \in Int
  BY DEF Line
<1> QED BY <1>1, <1>2 DEF Proper, LineAmounts

LEMMA OneLine ==
  ASSUME NEW x, NEW m \in Int, NEW k, NEW s PROVE Proper({Line(x, s, m, k)})
<1> DEFINE lines == {Line(x, s, m, k)}
<1>1. IsFiniteSet(lines)
  BY FS_Singleton
<1>2. ASSUME NEW l \in lines PROVE l.amount \in Int
  BY DEF Line
<1> QED BY <1>1, <1>2 DEF Proper, LineAmounts

LEMMA BothProper ==
  ASSUME NEW S, NEW T, Proper(S), Proper(T) PROVE Proper(S \cup T)
BY FS_Union DEF Proper, LineAmounts

LEMMA SettlementProper ==
  ASSUME NEW p, NEW batch, NEW channel, NEW cash \in Int, NEW amount \in Int
  PROVE  Proper(SettlementLines(p, batch, channel, cash, amount))
<1>1. Proper({Credit("AR", amount, <<"payment", p, batch, "ar">>),
              Credit("UNAPPLIED", cash - amount, <<"payment", p, batch, "unapplied">>)})
  BY TwoLines DEF Credit
<1>2. Proper(NonZero({Credit("AR", amount, <<"payment", p, batch, "ar">>),
              Credit("UNAPPLIED", cash - amount, <<"payment", p, batch, "unapplied">>)}))
  BY <1>1, NonZeroKeeps DEF Proper
<1>3. Proper({Debit(CashAccount(channel), cash, <<"payment", p, batch, "cash">>)})
  BY OneLine DEF Debit
<1> QED BY <1>2, <1>3, BothProper DEF SettlementLines

LEMMA OutOfProper ==
  ASSUME NEW kind, NEW s, NEW channel, NEW m \in Int, NEW n \in Int, NEW amount \in Int
  PROVE  Proper(OutOf(kind, s, channel, m, n, amount))
<1>1. Proper({Debit("AR", m, <<kind, s, "ar">>), Debit("UNAPPLIED", n, <<kind, s, "unapplied">>)})
  BY TwoLines DEF Debit
<1>2. Proper(NonZero({Debit("AR", m, <<kind, s, "ar">>),
                      Debit("UNAPPLIED", n, <<kind, s, "unapplied">>)}))
  BY <1>1, NonZeroKeeps DEF Proper
<1>3. Proper({Credit(CashAccount(channel), amount, <<kind, s, "cash">>)})
  BY OneLine DEF Credit
<1> QED BY <1>2, <1>3, BothProper DEF OutOf

LEMMA JournalStep == JournalAssumption /\ JournalInv /\ [JournalNext]_journalVars => JournalInv'
<1> SUFFICES ASSUME JournalAssumption, JournalInv, [JournalNext]_journalVars PROVE JournalInv'
  OBVIOUS
<1>1. CASE UNCHANGED journalVars
  BY <1>1 DEF journalVars, JournalInv, LedgerBalances, LineAmounts
<1>2. ASSUME NEW lines, Proper(lines), PostBalanced(lines) PROVE JournalInv'
  BY <1>2, PostKeeps DEF Proper
<1>3. Cents \subseteq Int
  BY DEF JournalAssumption
<1>4. ASSUME NEW s, NEW batch, NEW channel, NEW amount \in Cents
      PROVE  /\ Proper(InvoiceLines(s, amount)) /\ Proper(VoidLines(s, amount))
             /\ Proper(CreditNoteLines(s, amount)) /\ Proper(UnappliedLines(s, batch, amount))
             /\ \A type : Proper(DispositionLines(s, type, amount))
             /\ \A cash \in Cents : Proper(SettlementLines(s, batch, channel, cash, amount))
             /\ \A rest \in Cents : Proper(ReversalLines(s, channel, amount, rest))
             /\ \A fromAr, rest \in Cents : Proper(RefundLines(s, channel, fromAr, rest, amount))
  <2>1. /\ Proper(InvoiceLines(s, amount)) /\ Proper(VoidLines(s, amount))
        /\ Proper(CreditNoteLines(s, amount)) /\ Proper(UnappliedLines(s, batch, amount))
    BY <1>3, TwoLines DEF InvoiceLines, VoidLines, CreditNoteLines, UnappliedLines, Debit, Credit
  <2>2. \A type : Proper(DispositionLines(s, type, amount))
    BY <1>3, TwoLines DEF DispositionLines, Debit, Credit
  <2>3. \A cash \in Cents : Proper(SettlementLines(s, batch, channel, cash, amount))
    BY <1>3, SettlementProper
  <2>4. \A rest \in Cents : Proper(ReversalLines(s, channel, amount, rest))
    BY <1>3, OutOfProper DEF ReversalLines
  <2>5. \A fromAr, rest \in Cents : Proper(RefundLines(s, channel, fromAr, rest, amount))
    BY <1>3, OutOfProper DEF RefundLines
  <2> QED BY <2>1, <2>2, <2>3, <2>4, <2>5
<1>5. CASE JournalNext
  BY <1>2, <1>4, <1>5 DEF JournalNext
<1> QED BY <1>1, <1>5

\* The ledger balances, for any business events in any order with any amounts and
\* splits: a posting enters whole, balanced and under new keys, or not at all.
THEOREM LedgerStaysBalanced == JournalSpec => []LedgerBalances
<1>1. JournalInv => LedgerBalances
  BY DEF JournalInv
<1>2. JournalInv /\ [JournalNext]_journalVars => JournalInv'
  BY JournalAssumption, JournalStep
<1> QED BY <1>1, <1>2, JournalStart, PTL DEF JournalSpec

-----------------------------------------------------------------------------
(***************************************************************************)
(* Numbers: no more are given than postings were made.                     *)
(***************************************************************************)

Posted == {p \in Postings : posting[p].at = "done"}

NumbersCounted ==
  /\ IsFiniteSet(numbered)
  /\ Cardinality(numbered) <= Cardinality(Posted)

LEMMA PostedFinite ==
  NumberAssumption => IsFiniteSet(Posted) /\ Cardinality(Posted) \in Nat
                      /\ Cardinality(Posted) <= Cardinality(Postings)
                      /\ Cardinality(Postings) \in Nat
BY FS_Subset, FS_CardinalityType DEF Posted, NumberAssumption

LEMMA CountStarts == NumberInit => NumbersCounted
<1> SUFFICES ASSUME NumberInit PROVE NumbersCounted
  OBVIOUS
<1>1. numbered = {} /\ Posted = {}
  BY DEF NumberInit, Posted, NotPosted
<1> QED BY <1>1, FS_EmptySet DEF NumbersCounted

\* A posting that ends adds itself, and one number at most.
LEMMA StampCounts ==
  ASSUME NumberAssumption, NumInv, NumbersCounted, NEW p \in Postings, Stamp(p)
  PROVE  NumbersCounted'
<1>1. p \notin Posted /\ Posted' = Posted \cup {p}
  BY DEF Posted, Stamp, NumInv, NumTyped, NotPosted
<1>2. /\ IsFiniteSet(Posted) /\ Cardinality(Posted) \in Nat
      /\ Cardinality(Posted') = Cardinality(Posted) + 1
  BY <1>1, PostedFinite, FS_AddElement
<1>3. Cardinality(numbered) \in Nat
  BY FS_CardinalityType DEF NumbersCounted
<1>4. PICK n : numbered' = numbered \/ (n \notin numbered /\ numbered' = numbered \cup {n})
  BY DEF Stamp
<1>5. CASE numbered' = numbered
  BY <1>2, <1>3, <1>5 DEF NumbersCounted
<1>6. CASE n \notin numbered /\ numbered' = numbered \cup {n}
  <2>1. IsFiniteSet(numbered') /\ Cardinality(numbered') = Cardinality(numbered) + 1
    BY <1>6, FS_AddElement DEF NumbersCounted
  <2> QED BY <2>1, <1>2, <1>3 DEF NumbersCounted
<1> QED BY <1>4, <1>5, <1>6

LEMMA CountKept ==
  ASSUME NumberAssumption, NumInv, NumbersCounted, [NumberNext]_numberVars
  PROVE  NumbersCounted'
<1>1. ASSUME NEW p \in Postings, Stamp(p) PROVE NumbersCounted'
  BY <1>1, StampCounts
<1>2. ASSUME UNCHANGED numbered, Posted' = Posted PROVE NumbersCounted'
  BY <1>2 DEF NumbersCounted
<1>3. ASSUME NEW p \in Postings, NEW year \in Years, FindCounter(p, year) PROVE NumbersCounted'
  <2>1. UNCHANGED numbered
    BY <1>3 DEF FindCounter
  <2>2. PICK c \in Counters \cup {0} :
          posting' = [posting EXCEPT ![p] = [@ EXCEPT
            !.at = IF c = 0 THEN "create" ELSE "lock", !.year = year, !.row = c]]
    BY <1>3 DEF FindCounter
  <2>3. posting[p].at # "done" /\ posting'[p].at # "done"
    BY <1>3, <2>2 DEF FindCounter, NotPosted, NumInv, NumTyped, PostingRow
  <2>4. Posted' = Posted
    BY <2>2, <2>3 DEF Posted, NumInv, NumTyped, PostingRow
  <2> QED BY <1>2, <2>1, <2>4
<1>4. ASSUME NEW p \in Postings, LockCounter(p) PROVE NumbersCounted'
  <2>1. UNCHANGED numbered /\ Posted' = Posted
    BY <1>4 DEF LockCounter, Posted, NumInv, NumTyped, PostingRow
  <2> QED BY <1>2, <2>1
<1>5. ASSUME NEW p \in Postings, NEW c \in Counters, CreateCounter(p, c) PROVE NumbersCounted'
  <2>1. UNCHANGED numbered /\ Posted' = Posted
    BY <1>5 DEF CreateCounter, Posted, NumInv, NumTyped, PostingRow
  <2> QED BY <1>2, <2>1
<1>6. CASE UNCHANGED numberVars
  BY <1>2, <1>6 DEF numberVars, Posted
<1> QED BY <1>1, <1>3, <1>4, <1>5, <1>6 DEF NumberNext

\* A number is not above the count of those given: its year goes without a gap.
LEMMA NumberBounded ==
  ASSUME NumInv, IsFiniteSet(numbered), NEW y \in Years, NEW n \in Nat, <<y, n>> \in numbered
  PROVE  n <= Cardinality(numbered)
<1> DEFINE dated == {m \in numbered : m[1] = y}
           second == [m \in dated |-> m[2]]
<1>1. IsFiniteSet(dated) /\ Cardinality(dated) <= Cardinality(numbered)
  BY FS_Subset
<1>2. Used(y) = {m[2] : m \in dated}
  BY DEF Used
<1>3. IsFiniteSet(Used(y)) /\ Cardinality(Used(y)) <= Cardinality(dated)
  <2>1. second \in Surjection(dated, Used(y))
    BY <1>2 DEF Surjection
  <2> QED BY <2>1, <1>1, FS_Surjection
<1>4. PICK k \in Nat : Used(y) = 1..k
  BY DEF NumInv, NoGap
<1>5. Cardinality(Used(y)) = k
  BY <1>4, FS_Interval
<1>6. n \in Used(y)
  BY DEF Used
<1>7. Cardinality(dated) \in Nat /\ Cardinality(numbered) \in Nat
  BY <1>1, FS_CardinalityType
<1> QED BY <1>1, <1>3, <1>4, <1>5, <1>6, <1>7

\* Numbers and counters never exceed the number of postings made.
LEMMA NumbersFit ==
  ASSUME NumberAssumption, NumInv, NumbersCounted
  PROVE  NumberTypeOK
<1> DEFINE top == Cardinality(Postings)
<1>1. top \in Nat /\ Cardinality(numbered) \in Nat /\ Cardinality(numbered) <= top
  BY PostedFinite, FS_CardinalityType DEF NumbersCounted
<1>2. ASSUME NEW y \in Years, NEW n \in Nat, <<y, n>> \in numbered PROVE n <= top
  BY <1>1, <1>2, NumberBounded DEF NumbersCounted
<1> HIDE DEF top
<1>3. numbered \subseteq Years \X (1..top)
  BY <1>1, <1>2 DEF NumInv, NumTyped
<1>4. ASSUME NEW c \in Counters PROVE counter[c].seq \in 0..top
  <2>1. counter[c].seq = 0 \/ <<counter[c].year, counter[c].seq>> \in numbered
    BY DEF NumInv, CounterGiven
  <2> QED BY <2>1, <1>1, <1>3
<1>5. counter \in [Counters -> [year : Years \cup {0}, seq : 0..top]]
  BY <1>4 DEF NumInv, NumTyped
<1> QED BY <1>3, <1>5 DEF NumberTypeOK, NumInv, NumTyped, PostingRow, top

\* The counter and the numbers keep their types for any number of postings: no
\* number is above the count of the postings that were made.
THEOREM NumbersTyped == NumberSpec => []NumberTypeOK
<1>1. NumberSpec => []NumbersCounted
  <2>1. NumbersCounted /\ NumInv /\ [NumberNext]_numberVars => NumbersCounted'
    BY CountKept, NumberAssumption
  <2> QED BY <2>1, CountStarts, NumberInvariant, PTL DEF NumberSpec
<1>2. NumInv /\ NumbersCounted => NumberTypeOK
  BY NumbersFit, NumberAssumption
<1> QED BY <1>1, <1>2, NumberInvariant, PTL

-----------------------------------------------------------------------------
(***************************************************************************)
(* Journals: the rows of the ledger.                                       *)
(***************************************************************************)

Sided(lines) == \A l \in lines : l.side \in {"DEBIT", "CREDIT"}

LEMMA LinesSided ==
  ASSUME NEW s, NEW batch, NEW channel, NEW amount
  PROVE  /\ Sided(InvoiceLines(s, amount)) /\ Sided(VoidLines(s, amount))
         /\ Sided(CreditNoteLines(s, amount)) /\ Sided(UnappliedLines(s, batch, amount))
         /\ \A type : Sided(DispositionLines(s, type, amount))
         /\ \A cash : Sided(SettlementLines(s, batch, channel, cash, amount))
         /\ \A rest : Sided(ReversalLines(s, channel, amount, rest))
         /\ \A fromAr, rest : Sided(RefundLines(s, channel, fromAr, rest, amount))
BY DEF Sided, InvoiceLines, VoidLines, CreditNoteLines, UnappliedLines, DispositionLines,
       SettlementLines, ReversalLines, RefundLines, OutOf, NonZero, Debit, Credit, Line

LEMMA JournalTypeStep ==
  ASSUME JournalAssumption, JournalTypeOK, [JournalNext]_journalVars
  PROVE  JournalTypeOK'
<1>1. CASE UNCHANGED journalVars
  BY <1>1 DEF journalVars, JournalTypeOK
<1>2. ASSUME NEW lines, Sided(lines), PostBalanced(lines) PROVE JournalTypeOK'
  <2>1. journals' \in 0..MaxJournals
    BY <1>2 DEF PostBalanced, JournalTypeOK, JournalAssumption
  <2>2. entries' \subseteq entries \cup lines
    BY <1>2 DEF PostBalanced, Entered
  <2>3. \A l \in lines : l.account \in Accounts /\ l.side \in {"DEBIT", "CREDIT"} /\ l.amount > 0
    BY <1>2 DEF PostBalanced, Balanced, Sided
  <2> QED BY <2>1, <2>2, <2>3 DEF JournalTypeOK
<1>3. CASE JournalNext
  BY <1>2, <1>3, LinesSided DEF JournalNext
<1> QED BY <1>1, <1>3

\* Every entry of the ledger names an account and a side and is worth something.
THEOREM JournalsTyped == JournalSpec => []JournalTypeOK
<1>1. JournalInit => JournalTypeOK
  BY JournalAssumption DEF JournalInit, JournalTypeOK, JournalAssumption
<1>2. JournalTypeOK /\ [JournalNext]_journalVars => JournalTypeOK'
  BY JournalTypeStep, JournalAssumption
<1> QED BY <1>1, <1>2, PTL DEF JournalSpec

-----------------------------------------------------------------------------
(***************************************************************************)
(* The books together.  Each step of the run is a step of one part and a   *)
(* stutter of the others, so the run keeps all that is proved of a part.   *)
(***************************************************************************)

\* The specification TLC runs implements that of every part: what is proved of
\* receivables, keys, settlements, numbers and journals holds of their sum.
THEOREM BooksRun == LedgerSpec => Spec /\ KeySpec /\ SettleSpec /\ NumberSpec /\ JournalSpec
<1>1. LedgerInit => Init /\ KeyInit /\ SettleInit /\ NumberInit /\ JournalInit
  BY DEF LedgerInit
<1>2. [LedgerNext]_<<part, bookVars>> =>
        /\ [Next]_vars /\ [KeyNext]_keyVars /\ [SettleNext]_settleVars
        /\ [NumberNext]_numberVars /\ [JournalNext]_journalVars
  BY DEF LedgerNext, bookVars
<1> QED BY <1>1, <1>2, PTL DEF LedgerSpec, Spec, KeySpec, SettleSpec, NumberSpec, JournalSpec

LEMMA KeyTypeStep == KeyTypeOK /\ [KeyNext]_keyVars => KeyTypeOK'
<1> SUFFICES ASSUME KeyTypeOK, [KeyNext]_keyVars PROVE KeyTypeOK'
  OBVIOUS
<1> USE DEF KeyTypeOK, rowVars, Reply, GoTo
<1>1. CASE Expire
  BY <1>1 DEF Expire
<1>2. ASSUME NEW r \in Attempts, BeginReplays(r) \/ SearchReplays(r) PROVE KeyTypeOK'
  BY <1>2 DEF BeginReplays, SearchReplays, SameRequest, Free
<1>3. ASSUME NEW r \in Attempts,
             BeginRefuses(r) \/ ResolveRefuses(r) \/ InsertFails(r) \/ Search(r) \/ Operate(r)
      PROVE  KeyTypeOK'
  BY <1>3 DEF BeginRefuses, ResolveRefuses, InsertFails, Search, Operate
<1>4. ASSUME NEW r \in Attempts, BeginReserves(r) \/ Resolve(r) PROVE KeyTypeOK'
  BY <1>4 DEF BeginReserves, Resolve
<1>5. ASSUME NEW r \in Attempts, ResolveReplays(r) PROVE KeyTypeOK'
  BY <1>5 DEF ResolveReplays, SameRequest, Free
<1>6. ASSUME NEW r \in Attempts, Insert(r) \/ Abort(r) PROVE KeyTypeOK'
  BY <1>6 DEF Insert, Abort
<1>7. ASSUME NEW r \in Attempts, Commit(r) PROVE KeyTypeOK'
  BY <1>7 DEF Commit
<1>8. CASE UNCHANGED keyVars
  BY <1>8 DEF keyVars
<1> QED
  BY <1>1, <1>2, <1>3, <1>4, <1>5, <1>6, <1>7, <1>8 DEF KeyNext, Step

\* Every row of every part fits its table, whatever amounts, requests, deliveries and
\* postings there are.
THEOREM LedgerTyped == LedgerSpec => []LedgerTypeOK
<1>1. LedgerInit => part \in Books
  BY DEF LedgerInit
<1>2. part \in Books /\ [LedgerNext]_<<part, bookVars>> => (part \in Books)'
  BY DEF LedgerNext
<1>3. KeyInit => KeyTypeOK
  BY IdempotencyAssumption DEF KeyInit, KeyTypeOK
<1>4. KeySpec => []KeyTypeOK
  BY <1>3, KeyTypeStep, PTL DEF KeySpec
<1>5. LedgerSpec => [](part \in Books)
  BY <1>1, <1>2, PTL DEF LedgerSpec
<1>6. part \in Books /\ TypeOK /\ KeyTypeOK /\ SettleTypeOK /\ NumberTypeOK /\ JournalTypeOK
      => LedgerTypeOK
  BY DEF LedgerTypeOK
<1> QED
  BY <1>4, <1>5, <1>6, BooksRun, TypeCorrect, SettleTypeCorrect, NumbersTyped, JournalsTyped, PTL

=============================================================================
