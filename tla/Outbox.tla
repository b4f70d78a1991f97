------------------------------- MODULE Outbox -------------------------------
(***************************************************************************)
(* The transactional outbox: API transactions append rows to outbox_events *)
(* (OutboxService), and the worker's pollers read them in batches, run the *)
(* handler of each event and record it in processed_messages               *)
(* (OutboxConsumerService).                                                *)
(*                                                                         *)
(* A poller is one call of poll(): the timer starts one every two seconds  *)
(* whether or not earlier calls have ended, in every instance of the       *)
(* worker, so polls overlap.  Each statement or transaction of             *)
(* processEvent is a step.  What a handler does is left to its own module; *)
(* here it fails or runs to its end.                                       *)
(***************************************************************************)
EXTENDS Integers, FiniteSets

CONSTANTS
  Events,        \* events that business transactions append
  Aggregates,    \* the aggregates they belong to
  ForeignEvents, \* events whose payload claims another tenant
  Pollers,       \* calls of poll() that may be open at the same time
  BatchSize,     \* `take` of the poll query
  MaxFailures,   \* bound on handler failures
  MaxCrashes     \* bound on crashes of a worker

ASSUME OutboxAssumption ==
  /\ ForeignEvents \subseteq Events
  /\ IsFiniteSet(Events)
  /\ BatchSize \in Nat \ {0} /\ MaxFailures \in Nat /\ MaxCrashes \in Nat

VARIABLES
  status,     \* status column of each event, "NONE" before it is appended
  indexed,    \* aggregates that have a row of sequence 1
  aborted,    \* events whose business transaction the unique index aborted
  occurredAt, \* when each event was appended: 1, 2, ...; 0 before
  due,        \* events whose availableAt has come
  processed,  \* processed_messages of this consumer
  handled,    \* events whose handler ran to its end at least once
  poll,       \* what each poller has left of its batch, and its next step
  failures, crashes

producerVars == <<indexed, aborted, occurredAt>>
vars == <<status, indexed, aborted, occurredAt, due, processed, handled, poll, failures, crashes>>

Finished == [batch |-> {}, next |-> "check"]

Sent      == {e \in Events : status[e] # "NONE"}
Published == {e \in Events : status[e] = "PUBLISHED"}
Rejected  == {e \in Events : status[e] = "FAILED"}

Init ==
  /\ status = [e \in Events |-> "NONE"]
  /\ indexed = {} /\ aborted = {} /\ occurredAt = [e \in Events |-> 0]
  /\ due = {} /\ processed = {} /\ handled = {}
  /\ poll = [w \in Pollers |-> Finished]
  /\ failures = 0 /\ crashes = 0

(***************************************************************************)
(* Producers.  Every caller leaves the sequence out, so every row has      *)
(* sequence 1 and the unique index admits one row per aggregate.           *)
(***************************************************************************)

\* A business transaction on aggregate a commits together with event e.
AppendInTransaction(e, a) ==
  /\ status[e] = "NONE" /\ e \notin aborted
  /\ a \notin indexed
  /\ indexed' = indexed \cup {a}
  /\ status' = [status EXCEPT ![e] = "PENDING"]
  /\ occurredAt' = [occurredAt EXCEPT ![e] = Cardinality(Sent) + 1]
  /\ due' = due \cup {e}
  /\ UNCHANGED <<aborted, processed, handled, poll, failures, crashes>>

\* The index refuses the row: the whole business transaction is rolled back.
AbortInTransaction(e, a) ==
  /\ status[e] = "NONE" /\ e \notin aborted
  /\ a \in indexed
  /\ aborted' = aborted \cup {e}
  /\ UNCHANGED <<status, indexed, occurredAt, due, processed, handled, poll, failures, crashes>>

(***************************************************************************)
(* The consumer.                                                           *)
(***************************************************************************)

Mark(e, s) == IF status[e] = "PENDING" THEN [status EXCEPT ![e] = s] ELSE status

\* w is about to do this step for event e, the oldest left in its batch.
At(w, step, e) ==
  /\ poll[w].next = step
  /\ e \in poll[w].batch
  /\ \A f \in poll[w].batch : occurredAt[e] <= occurredAt[f]

Continue(w, step) == poll' = [poll EXCEPT ![w].next = step]

\* w goes on with the rest of its batch.
Advance(w, e) == poll' = [poll EXCEPT ![w] = [batch |-> poll[w].batch \ {e}, next |-> "check"]]

\* A faulty variant of Pending: rows of transactions still open are read too.
PendingUncommitted == {e \in Events : status[e] \in {"NONE", "PENDING"}}

\* The oldest pending events that are due, at most BatchSize of them.
Pending ==
  LET ready == {e \in due : status[e] = "PENDING"}
  IN  {e \in ready : Cardinality({f \in ready : occurredAt[f] < occurredAt[e]}) < BatchSize}

Poll(w) ==
  /\ poll[w].batch = {}
  /\ Pending # {}
  /\ poll' = [poll EXCEPT ![w] = [batch |-> Pending, next |-> "check"]]
  /\ UNCHANGED <<status, producerVars, due, processed, handled, failures, crashes>>

\* validateOutboxTenantContext refuses the event.
Reject(w, e) ==
  /\ At(w, "check", e)
  /\ e \in ForeignEvents
  /\ status' = Mark(e, "FAILED")
  /\ due' = IF status[e] = "PENDING" THEN due \ {e} ELSE due
  /\ Advance(w, e)
  /\ UNCHANGED <<producerVars, processed, handled, failures, crashes>>

\* Another poll has recorded the event since this batch was read.
Skip(w, e) ==
  /\ At(w, "check", e)
  /\ e \notin ForeignEvents
  /\ e \in processed
  /\ status' = Mark(e, "PUBLISHED")
  /\ Advance(w, e)
  /\ UNCHANGED <<producerVars, due, processed, handled, failures, crashes>>

\* A faulty variant of Check: the event is recorded before it is handled.
CheckThenRecord(w, e) ==
  /\ At(w, "check", e)
  /\ e \notin ForeignEvents
  /\ e \notin processed
  /\ Continue(w, "record")
  /\ UNCHANGED <<status, producerVars, due, processed, handled, failures, crashes>>

Check(w, e) ==
  /\ At(w, "check", e)
  /\ e \notin ForeignEvents
  /\ e \notin processed
  /\ Continue(w, "dispatch")
  /\ UNCHANGED <<status, producerVars, due, processed, handled, failures, crashes>>

\* The handler runs to its end, outside the transaction that records it.
Dispatch(w, e) ==
  /\ At(w, "dispatch", e)
  /\ handled' = handled \cup {e}
  /\ Continue(w, "record")
  /\ UNCHANGED <<status, producerVars, due, processed, failures, crashes>>

\* Faulty variants of Postpone: a failed event is parked as FAILED; or it is
\* put back whatever another poll did with it in the meantime.
PostponeFailed(e) == status' = Mark(e, "FAILED") /\ due' = due \ {e}
PostponeAnyway(e) == status' = [status EXCEPT ![e] = "PENDING"] /\ due' = due \ {e}

\* A pending event becomes due again in 15 seconds.
Postpone(e) ==
  /\ status' = status
  /\ due' = IF status[e] = "PENDING" THEN due \ {e} ELSE due

\* The handler throws.
DispatchFails(w, e) ==
  /\ At(w, "dispatch", e)
  /\ failures < MaxFailures
  /\ failures' = failures + 1
  /\ Postpone(e)
  /\ Advance(w, e)
  /\ UNCHANGED <<producerVars, processed, handled, crashes>>

\* A faulty variant of Record: the message and the status are not written in
\* one transaction, and the worker dies between the two.
RecordMessageOnly(w, e) ==
  /\ At(w, "record", e)
  /\ e \notin processed
  /\ processed' = processed \cup {e}
  /\ Advance(w, e)
  /\ UNCHANGED <<status, producerVars, due, handled, failures, crashes>>

\* One transaction inserts the processed message and publishes the event.
Record(w, e) ==
  /\ At(w, "record", e)
  /\ e \notin processed
  /\ processed' = processed \cup {e}
  /\ status' = Mark(e, "PUBLISHED")
  /\ Advance(w, e)
  /\ UNCHANGED <<producerVars, due, handled, failures, crashes>>

\* Another poll inserted the message first.  The unique violation aborts the
\* transaction, so the update its handler tries fails too and the event is
\* postponed.
RecordFails(w, e) ==
  /\ At(w, "record", e)
  /\ e \in processed
  /\ Postpone(e)
  /\ Advance(w, e)
  /\ UNCHANGED <<producerVars, processed, handled, failures, crashes>>

\* The worker dies; the next one starts with an empty batch.
Crash(w) ==
  /\ poll[w].batch # {}
  /\ crashes < MaxCrashes
  /\ crashes' = crashes + 1
  /\ poll' = [poll EXCEPT ![w] = Finished]
  /\ UNCHANGED <<status, producerVars, due, processed, handled, failures>>

\* A faulty variant of BecomeDue: what failed once is not tried again.
BecomeDueOnce(e) ==
  /\ status[e] = "PENDING" /\ e \notin due
  /\ failures = 0
  /\ due' = due \cup {e}
  /\ UNCHANGED <<status, producerVars, processed, handled, poll, failures, crashes>>

\* availableAt passes.
BecomeDue(e) ==
  /\ status[e] = "PENDING" /\ e \notin due
  /\ due' = due \cup {e}
  /\ UNCHANGED <<status, producerVars, processed, handled, poll, failures, crashes>>

Work(w) ==
  \E e \in Events :
    Reject(w, e) \/ Skip(w, e) \/ Check(w, e) \/ Dispatch(w, e) \/ Record(w, e) \/ RecordFails(w, e)

Next ==
  \/ \E e \in Events, a \in Aggregates : AppendInTransaction(e, a) \/ AbortInTransaction(e, a)
  \/ \E w \in Pollers : Poll(w) \/ Work(w) \/ Crash(w)
  \/ \E e \in Events : BecomeDue(e) \/ \E w \in Pollers : DispatchFails(w, e)

Spec == Init /\ [][Next]_vars

\* The timer keeps polling, a poll that has started goes on, and time passes.
\* A handler that may fail is not promised to succeed: failures are bounded.
Fairness ==
  /\ \A w \in Pollers : WF_vars(Poll(w)) /\ WF_vars(Work(w))
  /\ \A e \in Events : WF_vars(BecomeDue(e))

FairSpec == Spec /\ Fairness

(***************************************************************************)
(* Properties.                                                             *)
(***************************************************************************)

PollStates == [batch : SUBSET Events, next : {"check", "dispatch", "record"}]

\* Columns have their types, and a poll never holds an event that was not sent.
TypeOK ==
  /\ status \in [Events -> {"NONE", "PENDING", "PUBLISHED", "FAILED"}]
  /\ indexed \subseteq Aggregates
  /\ occurredAt \in [Events -> Nat]
  /\ aborted \subseteq Events /\ due \subseteq Events
  /\ processed \subseteq Events /\ handled \subseteq Events
  /\ poll \in [Pollers -> PollStates]
  /\ \A w \in Pollers : poll[w].batch \subseteq Sent
  /\ failures \in 0..MaxFailures /\ crashes \in 0..MaxCrashes

\* The status column and processed_messages tell the same story, between any
\* two statements of any poll.
PublishedIffProcessed == \A e \in Events : status[e] = "PUBLISHED" <=> e \in processed

Abstract == INSTANCE Delivery WITH
  sent <- Sent, handled <- handled, settled <- Published, dropped <- Rejected

\* Overlapping polls, crashes and failing handlers never lose an event:
\* every step is one of the abstract delivery or invisible to it.
ImplementsDelivery == Abstract!Spec

\* No matter which polls overlap, fail or crash, an appended event is
\* published or rejected in the end.
EventsComplete == Abstract!Completion

\* A published or rejected event stays so.
StatusFinal ==
  [][\A e \in Events : status[e] \in {"PUBLISHED", "FAILED"} => status'[e] = status[e]]_vars

\* No step of a legal sequence of business operations on one aggregate is
\* lost because of its event (leasing-lifecycle.integration.spec.ts moves in
\* after activation and expects success).
LegalOperationsCommit == aborted = {}

=============================================================================
