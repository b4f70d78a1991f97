----------------------------- MODULE Settlements -----------------------------
(***************************************************************************)
(* How money that was paid elsewhere becomes a payment: intents settled by *)
(* the events of the payment provider, and payments an accountant records  *)
(* with the reference of a bank (apps/api/src/modules/payments).           *)
(*                                                                         *)
(* The provider delivers an event at least once and in any order.  A       *)
(* delivery looks for the event outside its transaction; the transaction   *)
(* inserts the event, which makes other deliveries of it wait, updates the *)
(* intent, which makes other events of it wait, and only then looks for    *)
(* the payment: it is one step.  When it fails, the mark FAILED is written *)
(* in the transaction that is rolled back, so only the provider knows of   *)
(* the event.  Recording by hand searches the reference without any lock,  *)
(* inserts later, and no index keeps references unique.                    *)
(*                                                                         *)
(* Signatures, time windows and amounts are left out; what becomes of the  *)
(* money is in Receivables, the idempotency key in Idempotency.            *)
(***************************************************************************)
EXTENDS Naturals, Sequences, FiniteSets

CONSTANTS
  Intents, ProviderEvents, ProviderPayments, References,
  NoId,          \* an id that is missing, in an event or in a row
  Deliveries,    \* deliveries of the provider that may be open at once
  Recorders,     \* manual recordings that may be open at once
  MaxPayments    \* bound on the payments

ASSUME SettlementAssumption ==
  /\ MaxPayments \in Nat
  /\ NoId \notin Intents \cup ProviderEvents \cup ProviderPayments \cup References

VARIABLES
  content,   \* what each event of the provider says
  intent,    \* status of payment_intents
  payable,   \* intents whose invoice takes the amount, or that name none
  open,      \* the accounting period of today is open
  webhook,   \* processing_status of provider_webhook_events
  receipt,   \* payments, in the order of their creation
  delivery,  \* the event each open delivery has not found
  recording, \* the reference each open recording has found free
  told       \* history: events whose delivery was answered as accepted

settleVars ==
  <<content, intent, payable, open, webhook, receipt, delivery, recording, told>>

\* What a provider may send: a payment belongs to one intent.
Content == [success : BOOLEAN, intent : Intents \cup {NoId}, payment : ProviderPayments \cup {NoId}]
Consistent(c) ==
  \A e, f \in ProviderEvents :
    c[e].payment = c[f].payment /\ c[e].payment # NoId => c[e].intent = c[f].intent

SettleInit ==
  /\ content \in {c \in [ProviderEvents -> Content] : Consistent(c)}
  /\ intent = [i \in Intents |-> "NONE"]
  /\ payable = Intents
  /\ open = TRUE
  /\ webhook = [e \in ProviderEvents |-> "NONE"]
  /\ receipt = <<>>
  /\ delivery = [d \in Deliveries |-> NoId]
  /\ recording = [r \in Recorders |-> NoId]
  /\ told = {}

(***************************************************************************)
(* The surroundings: somebody else pays the invoice of an intent, or a     *)
(* refund makes it payable again; the period is closed or reopened.        *)
(***************************************************************************)

ChangePayable(i) ==
  /\ intent[i] # "NONE"
  /\ payable' = IF i \in payable THEN payable \ {i} ELSE payable \cup {i}
  /\ UNCHANGED <<content, intent, open, webhook, receipt, delivery, recording, told>>

ChangePeriod ==
  /\ open' = ~open
  /\ UNCHANGED <<content, intent, payable, webhook, receipt, delivery, recording, told>>

(***************************************************************************)
(* Intents and their events.                                               *)
(***************************************************************************)

CreateIntent(i) ==
  /\ intent[i] = "NONE"
  /\ intent' = [intent EXCEPT ![i] = "REQUIRES_ACTION"]
  /\ UNCHANGED <<content, payable, open, webhook, receipt, delivery, recording, told>>

\* A delivery of event e; one that finds the event is answered at once.
Deliver(d, e) ==
  /\ delivery[d] = NoId
  /\ IF webhook[e] = "NONE"
     THEN /\ delivery' = [delivery EXCEPT ![d] = e]
          /\ UNCHANGED told
     ELSE /\ told' = told \cup {e}
          /\ UNCHANGED delivery
  /\ UNCHANGED <<content, intent, payable, open, webhook, receipt, recording>>

\* The processing_status of event e after its transaction.
Marked(e, status) ==
  /\ webhook[e] = "NONE"
  /\ webhook' = [webhook EXCEPT ![e] = status]
  /\ told' = told \cup {e}

\* An event of another type, or of an intent that is not known (yet).
Ignore(d) ==
  LET e == delivery[d]  c == content[e] IN
  /\ e # NoId
  /\ ~c.success \/ (c.intent # NoId /\ intent[c.intent] = "NONE")
  /\ Marked(e, "IGNORED")
  /\ delivery' = [delivery EXCEPT ![d] = NoId]
  /\ UNCHANGED <<content, intent, payable, open, receipt, recording>>

\* settleFromIntentInTx returns the payment it finds.  Without an id the
\* payment gets a new one, which is never found.
AlreadySettled(id) == id # NoId /\ \E p \in DOMAIN receipt : receipt[p].provider = id

\* The unique index on (tenant_id, provider, provider_payment_id).
Received(row) ==
  /\ Len(receipt) < MaxPayments
  /\ ~AlreadySettled(row.provider)
  /\ receipt' = Append(receipt, row)

Succeed(d) ==
  LET e == delivery[d]  c == content[e]  i == c.intent IN
  /\ e # NoId
  /\ c.success /\ i # NoId /\ intent[i] # "NONE"
  /\ \/ AlreadySettled(c.payment) /\ UNCHANGED <<receipt, payable>>
     \/ /\ ~AlreadySettled(c.payment) /\ open /\ i \in payable
        /\ Received([provider |-> c.payment, intent |-> i, reference |-> NoId])
        /\ payable' \in {payable, payable \ {i}}
  /\ intent' = [intent EXCEPT ![i] = "SUCCEEDED"]
  /\ Marked(e, "PROCESSED")
  /\ delivery' = [delivery EXCEPT ![d] = NoId]
  /\ UNCHANGED <<content, open, recording>>

\* A faulty variant of Fail: the error is not thrown again.
FailQuietly(d) ==
  LET e == delivery[d]  i == content[e].intent IN
  /\ e # NoId
  /\ Marked(e, "FAILED")
  /\ intent' = IF i \in Intents /\ intent[i] # "NONE" THEN [intent EXCEPT ![i] = "SUCCEEDED"] ELSE intent
  /\ delivery' = [delivery EXCEPT ![d] = NoId]
  /\ UNCHANGED <<content, payable, open, receipt, recording>>

\* No intent id, an invoice or period that does not take the payment, an event
\* that another delivery has inserted, or any error of the database: everything
\* is rolled back, the mark with it, and the provider gets an error.
Fail(d) ==
  /\ delivery[d] # NoId
  /\ delivery' = [delivery EXCEPT ![d] = NoId]
  /\ UNCHANGED <<content, intent, payable, open, webhook, receipt, recording, told>>

(***************************************************************************)
(* recordManual with an external reference.                                *)
(***************************************************************************)

SearchReference(r, reference) ==
  /\ recording[r] = NoId
  /\ \A p \in DOMAIN receipt : receipt[p].reference # reference
  /\ recording' = [recording EXCEPT ![r] = reference]
  /\ UNCHANGED <<content, intent, payable, open, webhook, receipt, delivery, told>>

\* Refused when the period is closed; a rollback is the other outcome.
RecordReference(r) ==
  /\ recording[r] # NoId
  /\ \/ open /\ Received([provider |-> NoId, intent |-> NoId, reference |-> recording[r]])
     \/ UNCHANGED receipt
  /\ recording' = [recording EXCEPT ![r] = NoId]
  /\ UNCHANGED <<content, intent, payable, open, webhook, delivery, told>>

SettleNext ==
  \/ ChangePeriod
  \/ \E i \in Intents : ChangePayable(i) \/ CreateIntent(i)
  \/ \E d \in Deliveries :
       \/ Ignore(d) \/ Succeed(d) \/ Fail(d)
       \/ \E e \in ProviderEvents : Deliver(d, e)
  \/ \E r \in Recorders :
       RecordReference(r) \/ \E reference \in References : SearchReference(r, reference)

SettleSpec == SettleInit /\ [][SettleNext]_settleVars

(***************************************************************************)
(* Properties.                                                             *)
(***************************************************************************)

\* Rows fit their tables.
SettleTypeOK ==
  /\ intent \in [Intents -> {"NONE", "REQUIRES_ACTION", "SUCCEEDED"}]
  /\ webhook \in [ProviderEvents -> {"NONE", "PROCESSED", "IGNORED"}]
  /\ payable \subseteq Intents /\ told \subseteq ProviderEvents
  /\ \A p \in DOMAIN receipt :
       receipt[p] \in [provider : ProviderPayments \cup {NoId}, intent : Intents \cup {NoId},
                       reference : References \cup {NoId}]
  /\ delivery \in [Deliveries -> ProviderEvents \cup {NoId}]
  /\ recording \in [Recorders -> References \cup {NoId}]

\* An intent has succeeded exactly when money was received for it, and an event
\* the provider was told is accepted has had its effect: a failed settlement
\* leaves neither a paid intent without payment nor an event nobody redelivers.
AcceptedIsSettled ==
  /\ \A i \in Intents :
       intent[i] = "SUCCEEDED" <=> \E p \in DOMAIN receipt : receipt[p].intent = i
  /\ \A e \in told :
       webhook[e] = "PROCESSED" => \E p \in DOMAIN receipt : receipt[p].intent = content[e].intent
  /\ \A e \in told : webhook[e] # "NONE"

\* docs/sprints/Sprint-11.md: duplicate external references are detected, and
\* recordManual refuses a reference that is already used for another payment.
ReferenceUnique ==
  \A p, q \in DOMAIN receipt :
    receipt[p].reference # NoId /\ receipt[p].reference = receipt[q].reference => p = q

\* docs/01-business-requirements.md, BR-046: a duplicate event of the provider
\* cannot create a second payment for the same intent.
IntentPaidOnce ==
  \A p, q \in DOMAIN receipt :
    receipt[p].intent # NoId /\ receipt[p].intent = receipt[q].intent => p = q

=============================================================================
