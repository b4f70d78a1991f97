--------------------------- MODULE PlatformProofs ---------------------------
(***************************************************************************)
(* Proofs about the platform's own machinery: the outbox, the idempotency  *)
(* keys and the inventory import.                                          *)
(***************************************************************************)
EXTENDS MCPlatform, FiniteSetTheorems, WellFoundedInduction, TLAPS

-----------------------------------------------------------------------------
(***************************************************************************)
(* Outbox.                                                                 *)
(***************************************************************************)

(***************************************************************************)
(* The inductive invariant.  Statuses and processed_messages agree, but    *)
(* that alone is not inductive: what makes an event safe to record is that *)
(* its poll is past "dispatch", and that says something about the event    *)
(* only because no two events of a batch are equally old.                  *)
(***************************************************************************)

\* Events are numbered in the order they were appended.
Ordered ==
  /\ \A e \in Sent : occurredAt[e] <= Cardinality(Sent)
  /\ \A e, f \in Sent : occurredAt[e] = occurredAt[f] => e = f

\* A poll past its check holds an event of the right tenant, and past its
\* dispatch one that was handled.
HonestAt(w, e) ==
  /\ At(w, "dispatch", e) => e \notin ForeignEvents
  /\ At(w, "record", e) => e \in handled

PollsHonest == \A w \in Pollers, e \in Events : HonestAt(w, e)

\* What is recorded was handled, what is handled was sent by its own tenant,
\* and only events of another tenant are rejected.
HandledHonest ==
  /\ processed \subseteq handled
  /\ handled \subseteq Sent
  /\ handled \cap ForeignEvents = {}
  /\ Rejected \subseteq ForeignEvents

OutboxInv == TypeOK /\ Ordered /\ PollsHonest /\ HandledHonest /\ PublishedIffProcessed

-----------------------------------------------------------------------------

\* Mark moves a pending event and nothing else.
LEMMA MarkMoves ==
  ASSUME TypeOK, NEW e \in Events, NEW s \in {"PUBLISHED", "FAILED"}, status' = Mark(e, s)
  PROVE  /\ status' \in [Events -> {"NONE", "PENDING", "PUBLISHED", "FAILED"}]
         /\ Sent' = Sent
         /\ \A f \in Events : f # e => status'[f] = status[f]
         /\ status'[e] = IF status[e] = "PENDING" THEN s ELSE status[e]
BY DEF TypeOK, Mark, Sent

\* Where a poll stands depends on its own row and on the age of its batch.
LEMMA PollUntouched ==
  ASSUME NEW w \in Pollers, poll'[w] = poll[w],
         \A f \in poll[w].batch : occurredAt'[f] = occurredAt[f]
  PROVE  \A step, e : At(w, step, e)' <=> At(w, step, e)
BY DEF At

\* The event a poll works on is the only oldest one of its batch.
LEMMA OldestUnique ==
  ASSUME TypeOK, Ordered, NEW w \in Pollers, NEW s, NEW t, NEW e, NEW f,
         At(w, s, e), At(w, t, f)
  PROVE  e = f
<1>1. e \in Sent /\ f \in Sent
  BY DEF At, TypeOK
<1>2. e \in Events /\ f \in Events
  BY <1>1 DEF Sent
<1>3. occurredAt[e] \in Nat /\ occurredAt[f] \in Nat
  BY <1>2 DEF TypeOK
<1>4. occurredAt[e] <= occurredAt[f] /\ occurredAt[f] <= occurredAt[e]
  BY DEF At
<1> QED
  BY <1>1, <1>3, <1>4 DEF Ordered

\* Numbering goes on when an event is appended.
LEMMA AppendOrdered ==
  ASSUME TypeOK, Ordered, NEW e \in Events, NEW a \in Aggregates, AppendInTransaction(e, a)
  PROVE  Sent' = Sent \cup {e} /\ e \notin Sent /\ Ordered'
<1>1. Sent' = Sent \cup {e} /\ e \notin Sent
  BY DEF AppendInTransaction, TypeOK, Sent
<1>2. IsFiniteSet(Sent)
  BY OutboxAssumption, FS_Subset DEF Sent
<1>3. Cardinality(Sent) \in Nat /\ Cardinality(Sent') = Cardinality(Sent) + 1
  BY <1>1, <1>2, FS_AddElement, FS_CardinalityType
<1>4. /\ occurredAt'[e] = Cardinality(Sent) + 1
      /\ \A f \in Sent : occurredAt'[f] = occurredAt[f]
      /\ \A f \in Sent : occurredAt[f] \in Nat /\ occurredAt[f] <= Cardinality(Sent)
  BY <1>1 DEF AppendInTransaction, TypeOK, Ordered, Sent
<1>5. \A f \in Sent' : occurredAt'[f] <= Cardinality(Sent')
  BY <1>1, <1>3, <1>4
<1>6. \A f, g \in Sent' : occurredAt'[f] = occurredAt'[g] => f = g
  BY <1>1, <1>3, <1>4 DEF Ordered
<1> QED
  BY <1>1, <1>5, <1>6 DEF Ordered

\* The batch of a poll is made of events that were sent.
LEMMA PendingSent == TypeOK => Pending \subseteq Sent
BY DEF Pending, Sent, TypeOK

-----------------------------------------------------------------------------

LEMMA OutboxStart == Init => OutboxInv
<1> SUFFICES ASSUME Init PROVE OutboxInv
  OBVIOUS
<1>1. TypeOK
  BY OutboxAssumption DEF Init, TypeOK, PollStates, Finished, Sent
<1>2. Sent = {} /\ Rejected = {}
  BY DEF Init, Sent, Rejected
<1>3. Ordered /\ HandledHonest /\ PublishedIffProcessed
  BY <1>2 DEF Init, Ordered, HandledHonest, PublishedIffProcessed
<1>4. PollsHonest
  BY DEF Init, PollsHonest, HonestAt, At, Finished
<1> QED
  BY <1>1, <1>3, <1>4 DEF OutboxInv

LEMMA OutboxTypeStep == TypeOK /\ [Next]_vars => TypeOK'
<1> SUFFICES ASSUME TypeOK, [Next]_vars PROVE TypeOK'
  OBVIOUS
<1> USE OutboxAssumption
<1>1. ASSUME NEW e \in Events, NEW a \in Aggregates, AppendInTransaction(e, a) PROVE TypeOK'
  <2>1. Sent \subseteq Sent' /\ Sent \subseteq Events
    BY <1>1 DEF AppendInTransaction, TypeOK, Sent
  <2>2. Cardinality(Sent) \in Nat
    BY <2>1, FS_Subset, FS_CardinalityType
  <2> QED
    BY <1>1, <2>1, <2>2 DEF AppendInTransaction, TypeOK
<1>2. ASSUME NEW e \in Events, NEW a \in Aggregates, AbortInTransaction(e, a) PROVE TypeOK'
  BY <1>2 DEF AbortInTransaction, TypeOK, Sent
<1>3. ASSUME NEW w \in Pollers, Poll(w) PROVE TypeOK'
  <2>1. [batch |-> Pending, next |-> "check"] \in PollStates
    BY PendingSent DEF PollStates, Sent
  <2> QED
    BY <1>3, <2>1, PendingSent DEF Poll, producerVars, TypeOK, Sent
<1>4. ASSUME NEW w \in Pollers, NEW e \in Events,
             Reject(w, e) \/ Skip(w, e) \/ Check(w, e) \/ Dispatch(w, e) \/ Record(w, e)
               \/ RecordFails(w, e) \/ DispatchFails(w, e)
      PROVE  TypeOK'
  <2>1. \/ Continue(w, "dispatch") \/ Continue(w, "record") \/ Advance(w, e)
    BY <1>4 DEF Reject, Skip, Check, Dispatch, Record, RecordFails, DispatchFails
  <2>2. /\ poll' \in [Pollers -> PollStates]
        /\ \A v \in Pollers : poll'[v].batch \subseteq poll[v].batch
    <3>1. poll[w] \in PollStates
      BY DEF TypeOK
    <3>2. CASE Continue(w, "dispatch")
      BY <3>1, <3>2 DEF Continue, TypeOK, PollStates
    <3>3. CASE Continue(w, "record")
      BY <3>1, <3>3 DEF Continue, TypeOK, PollStates
    <3>4. CASE Advance(w, e)
      BY <3>1, <3>4 DEF Advance, TypeOK, PollStates
    <3> QED
      BY <2>1, <3>2, <3>3, <3>4
  <2>3. status' = status \/ status' = Mark(e, "PUBLISHED") \/ status' = Mark(e, "FAILED")
    BY <1>4 DEF Reject, Skip, Check, Dispatch, Record, RecordFails, DispatchFails, Postpone
  <2>4. /\ status' \in [Events -> {"NONE", "PENDING", "PUBLISHED", "FAILED"}]
        /\ Sent' = Sent
    BY <2>3, MarkMoves DEF TypeOK, Sent
  <2>5. /\ due' \subseteq Events /\ processed' \subseteq Events /\ handled' \subseteq Events
        /\ failures' \in 0..MaxFailures /\ crashes' = crashes
        /\ UNCHANGED producerVars
    BY <1>4 DEF Reject, Skip, Check, Dispatch, Record, RecordFails, DispatchFails, Postpone, TypeOK
  <2> QED
    BY <2>2, <2>4, <2>5 DEF TypeOK, producerVars
<1>5. ASSUME NEW w \in Pollers, Crash(w) PROVE TypeOK'
  <2>1. Finished \in PollStates
    BY DEF Finished, PollStates
  <2>2. /\ poll' \in [Pollers -> PollStates]
        /\ \A v \in Pollers : poll'[v].batch \subseteq Sent
    BY <1>5, <2>1 DEF Crash, TypeOK, Finished
  <2>3. crashes' \in 0..MaxCrashes
    BY <1>5 DEF Crash, TypeOK
  <2> QED
    BY <1>5, <2>2, <2>3 DEF Crash, producerVars, TypeOK, Sent
<1>6. ASSUME NEW e \in Events, BecomeDue(e) PROVE TypeOK'
  BY <1>6 DEF BecomeDue, producerVars, TypeOK, Sent
<1>7. CASE UNCHANGED vars
  BY <1>7 DEF vars, TypeOK, Sent
<1> QED
  BY <1>1, <1>2, <1>3, <1>4, <1>5, <1>6, <1>7 DEF Next, Work


LEMMA OrderedStep == TypeOK /\ Ordered /\ [Next]_vars => Ordered'
<1> SUFFICES ASSUME TypeOK, Ordered, [Next]_vars PROVE Ordered'
  OBVIOUS
<1>1. ASSUME NEW e \in Events, NEW a \in Aggregates, AppendInTransaction(e, a) PROVE Ordered'
  BY <1>1, AppendOrdered
<1>2. ASSUME NEW e \in Events, NEW w \in Pollers,
             Reject(w, e) \/ Skip(w, e) \/ Check(w, e) \/ Dispatch(w, e) \/ Record(w, e)
               \/ RecordFails(w, e) \/ DispatchFails(w, e)
      PROVE  Ordered'
  <2>1. status' = status \/ status' = Mark(e, "PUBLISHED") \/ status' = Mark(e, "FAILED")
    BY <1>2 DEF Reject, Skip, Check, Dispatch, Record, RecordFails, DispatchFails, Postpone
  <2>2. Sent' = Sent
    BY <2>1, MarkMoves DEF Sent
  <2>3. occurredAt' = occurredAt
    BY <1>2 DEF Reject, Skip, Check, Dispatch, Record, RecordFails, DispatchFails, producerVars
  <2> QED
    BY <2>2, <2>3 DEF Ordered
<1>3. ASSUME status' = status, occurredAt' = occurredAt PROVE Ordered'
  BY <1>3 DEF Ordered, Sent
<1>4. ASSUME NEW e \in Events, NEW a \in Aggregates, AbortInTransaction(e, a) PROVE Ordered'
  BY <1>3, <1>4 DEF AbortInTransaction
<1>5. ASSUME NEW w \in Pollers, Poll(w) \/ Crash(w) PROVE Ordered'
  BY <1>3, <1>5 DEF Poll, Crash, producerVars
<1>6. ASSUME NEW e \in Events, BecomeDue(e) PROVE Ordered'
  BY <1>3, <1>6 DEF BecomeDue, producerVars
<1>7. CASE UNCHANGED vars
  BY <1>3, <1>7 DEF vars
<1> QED
  BY <1>1, <1>2, <1>4, <1>5, <1>6, <1>7 DEF Next, Work

LEMMA PollsStep == OutboxInv /\ [Next]_vars => PollsHonest'
<1> SUFFICES ASSUME OutboxInv, [Next]_vars, NEW v \in Pollers, NEW f \in Events
      PROVE  HonestAt(v, f)'
  BY DEF PollsHonest
<1> USE DEF OutboxInv, HonestAt
<1>h. handled \subseteq handled'
  BY DEF Next, Work, AppendInTransaction, AbortInTransaction, Poll, Crash, BecomeDue, Reject, Skip,
         Check, Dispatch, Record, RecordFails, DispatchFails, vars
\* A poll whose row does not change stays honest.
<1>0. ASSUME poll'[v] = poll[v], \A g \in poll[v].batch : occurredAt'[g] = occurredAt[g]
      PROVE  HonestAt(v, f)'
  BY <1>0, <1>h, PollUntouched DEF PollsHonest
\* So does one that turns to another event.
<1>1. ASSUME poll'[v].next = "check"
      PROVE  HonestAt(v, f)'
  BY <1>1 DEF At
<1>2. ASSUME NEW e \in Events, NEW a \in Aggregates, AppendInTransaction(e, a)
      PROVE  HonestAt(v, f)'
  <2>1. e \notin Sent /\ poll[v].batch \subseteq Sent
    BY <1>2, AppendOrdered DEF TypeOK
  <2> QED
    BY <1>0, <1>2, <2>1 DEF AppendInTransaction, TypeOK
<1>3. ASSUME NEW e \in Events, NEW a \in Aggregates, AbortInTransaction(e, a)
      PROVE  HonestAt(v, f)'
  BY <1>0, <1>3 DEF AbortInTransaction
<1>4. ASSUME NEW w \in Pollers, Poll(w) \/ Crash(w)
      PROVE  HonestAt(v, f)'
  <2>1. CASE v = w
    <3>1. poll'[v].next = "check"
      BY <1>4, <2>1 DEF Poll, Crash, Finished, TypeOK
    <3> QED
      BY <3>1, <1>1
  <2>2. CASE v # w
    BY <1>4, <2>2, <1>0 DEF Poll, Crash, TypeOK, producerVars
  <2> QED
    BY <2>1, <2>2
<1>5. ASSUME NEW w \in Pollers, NEW e \in Events,
             Reject(w, e) \/ Skip(w, e) \/ Record(w, e) \/ RecordFails(w, e) \/ DispatchFails(w, e)
      PROVE  HonestAt(v, f)'
  <2>1. Advance(w, e) /\ occurredAt' = occurredAt
    BY <1>5 DEF Reject, Skip, Record, RecordFails, DispatchFails, producerVars
  <2>2. CASE v = w
    <3>1. poll'[v].next = "check"
      BY <2>1, <2>2 DEF Advance, TypeOK
    <3> QED
      BY <3>1, <1>1
  <2>3. CASE v # w
    BY <2>1, <2>3, <1>0 DEF Advance, TypeOK
  <2> QED
    BY <2>2, <2>3
<1>6. ASSUME NEW w \in Pollers, NEW e \in Events, Check(w, e) \/ Dispatch(w, e)
      PROVE  HonestAt(v, f)'
  <2>1. occurredAt' = occurredAt
    BY <1>6 DEF Check, Dispatch, producerVars
  <2>2. CASE v # w
    BY <1>6, <2>1, <2>2, <1>0 DEF Check, Dispatch, Continue, TypeOK
  <2>3. CASE v = w
    <3>1. poll[v] \in PollStates
      BY DEF TypeOK
    <3>2. poll'[v].batch = poll[v].batch
      BY <1>6, <2>3, <3>1 DEF Check, Dispatch, Continue, TypeOK, PollStates
    <3>3. ASSUME NEW s, At(v, s, f)' PROVE At(v, poll[v].next, f)
      BY <3>2, <3>3, <2>1 DEF At
    <3>4. ASSUME NEW s, At(v, s, f)' PROVE f = e
      BY <3>3, <3>4, <1>6, <2>3, OldestUnique DEF Check, Dispatch
    <3>5. CASE Check(w, e)
      <4>1. poll'[v].next = "dispatch" /\ e \notin ForeignEvents
        BY <3>5, <2>3, <3>1 DEF Check, Continue, TypeOK, PollStates
      <4> QED
        BY <4>1, <3>4 DEF At
    <3>6. CASE Dispatch(w, e)
      <4>1. poll'[v].next = "record" /\ e \in handled'
        BY <3>6, <2>3, <3>1 DEF Dispatch, Continue, TypeOK, PollStates
      <4> QED
        BY <4>1, <3>4 DEF At
    <3> QED
      BY <1>6, <3>5, <3>6
  <2> QED
    BY <2>2, <2>3
<1>7. ASSUME NEW e \in Events, BecomeDue(e)
      PROVE  HonestAt(v, f)'
  BY <1>7, <1>0 DEF BecomeDue, producerVars
<1>8. CASE UNCHANGED vars
  BY <1>8, <1>0 DEF vars
<1> QED
  BY <1>2, <1>3, <1>4, <1>5, <1>6, <1>7, <1>8 DEF Next, Work

-----------------------------------------------------------------------------

(***************************************************************************)
(* What each kind of step does to the statuses and to the two sets.        *)
(***************************************************************************)

\* Steps that write no status, no message and handle nothing.
Quiet == UNCHANGED <<status, processed, handled>>

\* An honest poll's step is quiet, or rejects, handles or records one event.
LEMMA OutboxShape ==
  ASSUME OutboxInv, [Next]_vars
  PROVE  \/ Quiet
         \/ \E e \in Events :
              /\ status[e] = "NONE" /\ status' = [status EXCEPT ![e] = "PENDING"]
              /\ UNCHANGED <<processed, handled>>
         \/ \E e \in Events :
              /\ e \in Sent /\ e \in ForeignEvents
              /\ status[e] = "PENDING" /\ status' = [status EXCEPT ![e] = "FAILED"]
              /\ UNCHANGED <<processed, handled>>
         \/ \E e \in Events :
              /\ e \in Sent /\ e \notin ForeignEvents
              /\ handled' = handled \cup {e}
              /\ UNCHANGED <<status, processed>>
         \/ \E e \in Events :
              /\ e \in handled
              /\ processed' = processed \cup {e}
              /\ status[e] = "PENDING" /\ status' = [status EXCEPT ![e] = "PUBLISHED"]
              /\ UNCHANGED handled
<1> USE DEF OutboxInv
<1>0. ASSUME NEW w \in Pollers, NEW e \in Events, NEW s, At(w, s, e) PROVE e \in Sent
  BY <1>0 DEF At, TypeOK
<1>1. ASSUME NEW e \in Events, NEW a \in Aggregates,
             AppendInTransaction(e, a) \/ AbortInTransaction(e, a)
      PROVE  \/ Quiet
             \/ /\ status[e] = "NONE" /\ status' = [status EXCEPT ![e] = "PENDING"]
                /\ UNCHANGED <<processed, handled>>
  BY <1>1 DEF AppendInTransaction, AbortInTransaction, Quiet
<1>2. ASSUME NEW w \in Pollers, Poll(w) \/ Crash(w) PROVE Quiet
  BY <1>2 DEF Poll, Crash, Quiet
<1>3. ASSUME NEW w \in Pollers, NEW e \in Events, Reject(w, e)
      PROVE  \/ Quiet
             \/ /\ e \in Sent /\ e \in ForeignEvents
                /\ status[e] = "PENDING" /\ status' = [status EXCEPT ![e] = "FAILED"]
                /\ UNCHANGED <<processed, handled>>
  BY <1>0, <1>3 DEF Reject, Mark, Quiet
<1>4. ASSUME NEW w \in Pollers, NEW e \in Events, Skip(w, e) PROVE Quiet
  BY <1>4 DEF Skip, Mark, Quiet, PublishedIffProcessed
<1>5. ASSUME NEW w \in Pollers, NEW e \in Events, Dispatch(w, e)
      PROVE  /\ e \in Sent /\ e \notin ForeignEvents
             /\ handled' = handled \cup {e}
             /\ UNCHANGED <<status, processed>>
  BY <1>0, <1>5 DEF Dispatch, PollsHonest, HonestAt
<1>6. ASSUME NEW w \in Pollers, NEW e \in Events, Record(w, e)
      PROVE  /\ e \in handled
             /\ processed' = processed \cup {e}
             /\ status[e] = "PENDING" /\ status' = [status EXCEPT ![e] = "PUBLISHED"]
             /\ UNCHANGED handled
  <2>1. At(w, "record", e) /\ e \notin processed
    BY <1>6 DEF Record
  <2>2. e \in handled /\ e \in Sent /\ e \notin ForeignEvents
    BY <2>1, <1>0 DEF PollsHonest, HonestAt, HandledHonest
  <2>3. status[e] # "NONE" /\ status[e] # "FAILED" /\ status[e] # "PUBLISHED"
    BY <2>1, <2>2 DEF Sent, HandledHonest, Rejected, PublishedIffProcessed
  <2>4. status[e] = "PENDING"
    BY <2>3 DEF TypeOK
  <2> QED
    BY <1>6, <2>2, <2>4 DEF Record, Mark
<1>7. ASSUME NEW w \in Pollers, NEW e \in Events,
             Check(w, e) \/ RecordFails(w, e) \/ DispatchFails(w, e)
      PROVE  Quiet
  BY <1>7 DEF Check, RecordFails, DispatchFails, Postpone, Quiet
<1>8. ASSUME NEW e \in Events, BecomeDue(e) PROVE Quiet
  BY <1>8 DEF BecomeDue, Quiet
<1>9. CASE UNCHANGED vars
  BY <1>9 DEF vars, Quiet
<1> QED
  BY <1>1, <1>2, <1>3, <1>4, <1>5, <1>6, <1>7, <1>8, <1>9 DEF Next, Work

LEMMA HonestStep == OutboxInv /\ [Next]_vars => HandledHonest' /\ PublishedIffProcessed'
<1> SUFFICES ASSUME OutboxInv, [Next]_vars PROVE HandledHonest' /\ PublishedIffProcessed'
  OBVIOUS
<1> USE DEF OutboxInv, TypeOK, HandledHonest, PublishedIffProcessed, Sent, Rejected
<1>1. CASE Quiet
  BY <1>1 DEF Quiet
<1>2. CASE \E e \in Events :
             /\ status[e] = "NONE" /\ status' = [status EXCEPT ![e] = "PENDING"]
             /\ UNCHANGED <<processed, handled>>
  BY <1>2
<1>3. CASE \E e \in Events :
             /\ e \in Sent /\ e \in ForeignEvents
             /\ status[e] = "PENDING" /\ status' = [status EXCEPT ![e] = "FAILED"]
             /\ UNCHANGED <<processed, handled>>
  BY <1>3
<1>4. CASE \E e \in Events :
             /\ e \in Sent /\ e \notin ForeignEvents
             /\ handled' = handled \cup {e}
             /\ UNCHANGED <<status, processed>>
  BY <1>4
<1>5. CASE \E e \in Events :
             /\ e \in handled
             /\ processed' = processed \cup {e}
             /\ status[e] = "PENDING" /\ status' = [status EXCEPT ![e] = "PUBLISHED"]
             /\ UNCHANGED handled
  BY <1>5
<1> QED
  BY <1>1, <1>2, <1>3, <1>4, <1>5, OutboxShape

LEMMA OutboxStep == OutboxInv /\ [Next]_vars => OutboxInv'
BY OutboxTypeStep, OrderedStep, PollsStep, HonestStep DEF OutboxInv

LEMMA OutboxInvHolds == Spec => []OutboxInv
<1>1. Init => OutboxInv
  BY OutboxStart
<1>2. OutboxInv /\ [Next]_vars => OutboxInv'
  BY OutboxStep
<1> QED
  BY <1>1, <1>2, PTL DEF Spec

-----------------------------------------------------------------------------

\* The variables have their types, and no poll of processEvent holds an
\* event whose row was not committed, in every reachable state.
THEOREM OutboxTyped == Spec => []TypeOK
<1>1. OutboxInv => TypeOK
  BY DEF OutboxInv
<1> QED
  BY <1>1, OutboxInvHolds, PTL

\* However many polls of the consumer overlap, fail or crash, an event is
\* PUBLISHED exactly when processed_messages holds it.
THEOREM PublishedRecorded == Spec => []PublishedIffProcessed
<1>1. OutboxInv => PublishedIffProcessed
  BY DEF OutboxInv
<1> QED
  BY <1>1, OutboxInvHolds, PTL

\* No update of the consumer takes a published or rejected event back.
THEOREM FinalStatus == Spec => StatusFinal
<1>1. OutboxInv /\ [Next]_vars =>
        [\A e \in Events : status[e] \in {"PUBLISHED", "FAILED"} => status'[e] = status[e]]_vars
  <2> SUFFICES ASSUME OutboxInv, [Next]_vars, NEW e \in Events, status[e] \in {"PUBLISHED", "FAILED"}
               PROVE  status'[e] = status[e]
    OBVIOUS
  <2> QED
    BY OutboxShape DEF Quiet, OutboxInv, TypeOK
<1> QED
  BY <1>1, OutboxInvHolds, PTL DEF Spec, StatusFinal

\* The consumer implements the delivery the outbox promises: at-least-once
\* handling before settlement, no handling across tenants, nothing undone.
THEOREM Implementation == Spec => ImplementsDelivery
<1>1. Init => Abstract!Init
  BY DEF Init, Abstract!Init, Sent, Published, Rejected
<1>2. OutboxInv /\ [Next]_vars => [Abstract!Next]_(Abstract!vars)
  <2> SUFFICES ASSUME OutboxInv, [Next]_vars PROVE [Abstract!Next]_(Abstract!vars)
    OBVIOUS
  <2> USE DEF OutboxInv, TypeOK, Sent, Published, Rejected
  <2>1. CASE Quiet
    BY <2>1 DEF Quiet, Abstract!vars
  <2>2. CASE \E e \in Events :
               /\ status[e] = "NONE" /\ status' = [status EXCEPT ![e] = "PENDING"]
               /\ UNCHANGED <<processed, handled>>
    <3>1. \E e \in Events : Abstract!Send(e)
      BY <2>2 DEF Abstract!Send
    <3> QED
      BY <3>1 DEF Abstract!Next
  <2>3. CASE \E e \in Events :
               /\ e \in Sent /\ e \in ForeignEvents
               /\ status[e] = "PENDING" /\ status' = [status EXCEPT ![e] = "FAILED"]
               /\ UNCHANGED <<processed, handled>>
    <3>1. \E e \in Events : Abstract!Drop(e)
      BY <2>3 DEF Abstract!Drop, HandledHonest
    <3> QED
      BY <3>1 DEF Abstract!Next
  <2>4. CASE \E e \in Events :
               /\ e \in Sent /\ e \notin ForeignEvents
               /\ handled' = handled \cup {e}
               /\ UNCHANGED <<status, processed>>
    <3>1. \E e \in Events : Abstract!Handle(e)
      BY <2>4 DEF Abstract!Handle, HandledHonest
    <3> QED
      BY <3>1 DEF Abstract!Next
  <2>5. CASE \E e \in Events :
               /\ e \in handled
               /\ processed' = processed \cup {e}
               /\ status[e] = "PENDING" /\ status' = [status EXCEPT ![e] = "PUBLISHED"]
               /\ UNCHANGED handled
    <3>1. \E e \in Events : Abstract!Settle(e)
      BY <2>5 DEF Abstract!Settle
    <3> QED
      BY <3>1 DEF Abstract!Next
  <2> QED
    BY <2>1, <2>2, <2>3, <2>4, <2>5, OutboxShape
<1> QED
  BY <1>1, <1>2, OutboxInvHolds, PTL DEF Spec, ImplementsDelivery, Abstract!Spec

-----------------------------------------------------------------------------
(***************************************************************************)
(* Idempotency.                                                            *)
(***************************************************************************)

(***************************************************************************)
(* The inductive invariant.                                                *)
(***************************************************************************)

\* The phases in which a transaction has inserted the key.
Holds(r) == phase[r] \in IF ReserveFirst THEN {"work", "commit"} ELSE {"commit"}

\* One transaction at most holds the key, and only while the key is free.
HolderAgrees ==
  /\ \A r \in Attempts : Holds(r) <=> holder = r
  /\ holder # Nobody => Free

\* Rows are written by requests that have ended, so a request that means to
\* replace the row it saw cannot mistake a later one for it.
RowsPast ==
  /\ owner # Nobody => phase[owner] = "done"
  /\ \A r \in Attempts :
       /\ seen[r] # Nobody => phase[seen[r]] = "done"
       /\ phase[r] = "insert" /\ owner = seen[r] => Free

\* Since the row expired nothing took effect; since it was written, only
\* what is equivalent to it, and with the key reserved only its own request.
Window ==
  /\ Free => effects = {}
  /\ ~Free => owner \in effects /\ \A s \in effects : hash[s] = hash[owner]
  /\ ~Free /\ ReserveFirst => effects = {owner}

\* A caller has an answer when its request is done, to what it asked for.
AnswersAgree ==
  \A r \in Attempts : /\ phase[r] # "done" => answer[r] = Nobody
                      /\ answer[r] # Nobody => hash[answer[r]] = hash[r]

KeyInv == KeyTypeOK /\ HolderAgrees /\ RowsPast /\ Window /\ AnswersAgree /\ NoStuckKey

-----------------------------------------------------------------------------

LEMMA KeyStart == KeyInit => KeyInv
<1> SUFFICES ASSUME KeyInit PROVE KeyInv
  OBVIOUS
<1> USE IdempotencyAssumption
<1>1. KeyTypeOK
  BY DEF KeyInit, KeyTypeOK
<1>2. HolderAgrees /\ RowsPast /\ Window /\ AnswersAgree /\ NoStuckKey
  BY DEF KeyInit, HolderAgrees, Holds, RowsPast, Window, AnswersAgree, NoStuckKey, Free
<1> QED
  BY <1>1, <1>2 DEF KeyInv

LEMMA KeyTypeStep == KeyTypeOK /\ [KeyNext]_keyVars => KeyTypeOK'
<1> SUFFICES ASSUME KeyTypeOK, [KeyNext]_keyVars PROVE KeyTypeOK'
  OBVIOUS
<1> USE DEF KeyTypeOK, rowVars, Reply, GoTo
<1>1. CASE Expire
  BY <1>1 DEF Expire
<1>2. ASSUME NEW r \in Attempts, BeginReplays(r) \/ SearchReplays(r) PROVE KeyTypeOK'
  BY <1>2 DEF BeginReplays, SearchReplays, SameRequest, Free
<1>3. ASSUME NEW r \in Attempts,
             BeginRefuses(r) \/ ResolveRefuses(r) \/ InsertFails(r) \/ Search(r) \/ Operate(r)
      PROVE  KeyTypeOK'
  BY <1>3 DEF BeginRefuses, ResolveRefuses, InsertFails, Search, Operate
<1>4. ASSUME NEW r \in Attempts, BeginReserves(r) \/ Resolve(r) PROVE KeyTypeOK'
  BY <1>4 DEF BeginReserves, Resolve
<1>5. ASSUME NEW r \in Attempts, ResolveReplays(r) PROVE KeyTypeOK'
  BY <1>5 DEF ResolveReplays, SameRequest, Free
<1>6. ASSUME NEW r \in Attempts, Insert(r) \/ Abort(r) PROVE KeyTypeOK'
  BY <1>6 DEF Insert, Abort
<1>7. ASSUME NEW r \in Attempts, Commit(r) PROVE KeyTypeOK'
  BY <1>7 DEF Commit
<1>8. CASE UNCHANGED keyVars
  BY <1>8 DEF keyVars
<1> QED
  BY <1>1, <1>2, <1>3, <1>4, <1>5, <1>6, <1>7, <1>8 DEF KeyNext, Step

\* The other conjuncts, step by step.
LEMMA KeyRestStep ==
  KeyInv /\ [KeyNext]_keyVars => HolderAgrees' /\ RowsPast' /\ Window' /\ AnswersAgree' /\ NoStuckKey'
<1> SUFFICES ASSUME KeyInv, [KeyNext]_keyVars
             PROVE  HolderAgrees' /\ RowsPast' /\ Window' /\ AnswersAgree' /\ NoStuckKey'
  OBVIOUS
<1> USE IdempotencyAssumption
        DEF KeyInv, KeyTypeOK, HolderAgrees, Holds, RowsPast, Window, AnswersAgree, NoStuckKey, Free,
            rowVars, Reply, GoTo
<1>1. CASE Expire
  BY <1>1 DEF Expire
<1>2. ASSUME NEW r \in Attempts, BeginReplays(r) \/ SearchReplays(r)
      PROVE  HolderAgrees' /\ RowsPast' /\ Window' /\ AnswersAgree' /\ NoStuckKey'
  BY <1>2 DEF BeginReplays, SearchReplays, SameRequest
<1>3. ASSUME NEW r \in Attempts,
             BeginRefuses(r) \/ ResolveRefuses(r) \/ InsertFails(r) \/ Search(r) \/ Operate(r)
      PROVE  HolderAgrees' /\ RowsPast' /\ Window' /\ AnswersAgree' /\ NoStuckKey'
  BY <1>3 DEF BeginRefuses, ResolveRefuses, InsertFails, Search, Operate
<1>4. ASSUME NEW r \in Attempts, BeginReserves(r) \/ Resolve(r)
      PROVE  HolderAgrees' /\ RowsPast' /\ Window' /\ AnswersAgree' /\ NoStuckKey'
  BY <1>4 DEF BeginReserves, Resolve
<1>5. ASSUME NEW r \in Attempts, ResolveReplays(r)
      PROVE  HolderAgrees' /\ RowsPast' /\ Window' /\ AnswersAgree' /\ NoStuckKey'
  BY <1>5 DEF ResolveReplays, SameRequest
<1>6. ASSUME NEW r \in Attempts, Insert(r)
      PROVE  HolderAgrees' /\ RowsPast' /\ Window' /\ AnswersAgree' /\ NoStuckKey'
  BY <1>6 DEF Insert
<1>7. ASSUME NEW r \in Attempts, Abort(r)
      PROVE  HolderAgrees' /\ RowsPast' /\ Window' /\ AnswersAgree' /\ NoStuckKey'
  BY <1>7 DEF Abort
<1>8. ASSUME NEW r \in Attempts, Commit(r)
      PROVE  HolderAgrees' /\ RowsPast' /\ Window' /\ AnswersAgree' /\ NoStuckKey'
  BY <1>8 DEF Commit
<1>9. CASE UNCHANGED keyVars
  BY <1>9 DEF keyVars
<1> QED
  BY <1>1, <1>2, <1>3, <1>4, <1>5, <1>6, <1>7, <1>8, <1>9 DEF KeyNext, Step

LEMMA KeyInvHolds == KeySpec => []KeyInv
<1>1. KeyInv /\ [KeyNext]_keyVars => KeyInv'
  BY KeyTypeStep, KeyRestStep DEF KeyInv
<1> QED
  BY KeyStart, <1>1, PTL DEF KeySpec

-----------------------------------------------------------------------------

\* The columns of idempotency_keys, and what the requests remember, have
\* their types in every reachable state.
THEOREM KeysTyped == KeySpec => []KeyTypeOK
<1>1. KeyInv => KeyTypeOK
  BY DEF KeyInv
<1> QED
  BY <1>1, KeyInvHolds, PTL

\* With either use of the key, no committed row says PROCESSING.
THEOREM NeverStuck == KeySpec => []NoStuckKey
<1>1. KeyInv => NoStuckKey
  BY DEF KeyInv
<1> QED
  BY <1>1, KeyInvHolds, PTL

\* With either use of the key, what takes effect and what is answered under
\* it is equivalent: resolveOrCreate() and begin() never let another
\* request's body through.
THEOREM OneRequest == KeySpec => []OneRequestPerKey
<1>1. KeyInv => OneRequestPerKey
  <2> SUFFICES ASSUME KeyInv PROVE OneRequestPerKey
    OBVIOUS
  <2>1. \A r, s \in effects : hash[r] = hash[s]
    BY DEF KeyInv, Window
  <2> QED
    BY <2>1 DEF KeyInv, AnswersAgree, OneRequestPerKey
<1> QED
  BY <1>1, KeyInvHolds, PTL

\* begin() and complete() implement at-most-once execution; nothing is
\* assumed but that the key is reserved before the work.
THEOREM AtMostOnceExecution == ASSUME ReserveFirst PROVE KeySpec => ImplementsAtMostOnce
<1>1. KeyInit => Promise!Init
  BY DEF KeyInit, Promise!Init
<1>2. KeyInv /\ [KeyNext]_keyVars => [Promise!Next]_(Promise!vars)
  <2> SUFFICES ASSUME KeyInv, [KeyNext]_keyVars PROVE [Promise!Next]_(Promise!vars)
    OBVIOUS
  <2> USE ReserveFirst, IdempotencyAssumption DEF KeyInv, KeyTypeOK
  <2>1. CASE Expire
    BY <2>1 DEF Expire, Promise!Next, Promise!Forget
  <2>2. ASSUME NEW r \in Attempts, Commit(r) PROVE Promise!Perform(r)
    <3>1. holder = r /\ Free
      BY <2>2 DEF Commit, HolderAgrees, Holds
    <3>2. effects = {} /\ answer[r] = Nobody
      BY <2>2, <3>1 DEF Commit, Window, AnswersAgree
    <3> QED
      BY <2>2, <3>2 DEF Commit, Reply, Promise!Perform
  <2>3. ASSUME NEW r \in Attempts, BeginReplays(r) PROVE Promise!Replay(r)
    <3>1. owner \in effects /\ hash[owner] = hash[r] /\ answer[r] = Nobody
      BY <2>3 DEF BeginReplays, SameRequest, Window, AnswersAgree
    <3> QED
      BY <2>3, <3>1 DEF BeginReplays, Reply, Promise!Replay
  <2>4. ASSUME NEW r \in Attempts, Step(r) \/ Abort(r), ~Commit(r), ~BeginReplays(r)
        PROVE  UNCHANGED Promise!vars
    BY <2>4 DEF Step, BeginRefuses, BeginReserves, SearchReplays, Search, Resolve, ResolveRefuses,
                ResolveReplays, Insert, InsertFails, Operate, Abort, Promise!vars
  <2>5. CASE UNCHANGED keyVars
    BY <2>5 DEF keyVars, Promise!vars
  <2> QED
    BY <2>1, <2>2, <2>3, <2>4, <2>5 DEF KeyNext, Promise!Next
<1> QED
  BY <1>1, <1>2, KeyInvHolds, PTL DEF KeySpec, ImplementsAtMostOnce, Promise!Spec

-----------------------------------------------------------------------------
(***************************************************************************)
(* Imports.                                                                *)
(*                                                                         *)
(* For a file of any length, any dry-runs and commits, and any number of   *)
(* deliveries of the event: the inductive invariant ties how far a delivery *)
(* has come to what is in the inventory.                                   *)
(***************************************************************************)

\* The records row i needs are in the inventory.
There(k) == inventory[k] = 1
Applied(i) == \A n \in DOMAIN Needs(i) : There(Needs(i)[n])
AllApplied == \A i \in Accepted : Applied(i)

WorkerRow(r) ==
  /\ r = [field \in DOMAIN r |-> r[field]]
  /\ {"at", "todo", "key", "cache", "accepted", "skipped", "applied"} \subseteq DOMAIN r
  /\ r.todo \subseteq Rows /\ r.cache \subseteq Keys /\ r.key \in Nat \ {0}

\* The first keys of the row a worker is at are there.
Underway(r) ==
  r.todo # {} =>
    /\ r.key <= Len(Needs(FirstRow(r.todo)))
    /\ \A n \in 1..(r.key - 1) : There(Needs(FirstRow(r.todo))[n])

\* A worker that has read the rows has applied all it no longer means to.
WorkerFits(r) ==
  /\ WorkerRow(r)
  /\ r.at \in {"away", "mark", "rows", "search", "create", "publish"}
  /\ r.at # "away" => event # "NONE"
  /\ r.at \in {"away", "mark", "rows"} => r.key = 1 /\ r.cache = {}
  /\ r.at \in {"search", "create"} =>
       /\ \A k \in r.cache : There(k)
       /\ Underway(r)
       /\ redone \/ \A i \in Accepted : i \in r.todo \/ Applied(i)
  /\ r.at = "create" => r.todo # {}
  /\ r.at = "publish" => redone \/ AllApplied

ImportInv ==
  /\ inventory \in [Keys -> {0, 1}]
  /\ row \in [Rows -> {"NONE", "ACCEPTED", "SKIPPED"}]
  /\ job = [status |-> job.status, accepted |-> job.accepted, skipped |-> job.skipped]
  /\ event \in {"NONE", "PENDING", "PUBLISHED"} /\ redone \in BOOLEAN
  /\ worker = [w \in Workers |-> worker[w]]
  /\ \A w \in Workers : WorkerFits(worker[w])
  /\ job.status \in Final \/ event = "PUBLISHED" => redone \/ AllApplied

\* What never happens to a job: records vanish, rows are accepted, the event or the
\* replacement of rows is undone.
Grows ==
  /\ \A k \in Keys : There(k) => There(k)'
  /\ event # "NONE" => event' # "NONE"
  /\ redone \in BOOLEAN /\ redone' \in BOOLEAN /\ (redone => redone')
  /\ redone' \/ Accepted' \subseteq Accepted

-----------------------------------------------------------------------------
LEMMA FirstRowOfRows ==
  ASSUME NEW rows, rows \subseteq Rows, rows # {}
  PROVE  FirstRow(rows) \in rows
<1>1. rows \subseteq Nat
  BY DEF Rows
<1>2. PICK i \in rows : \A j \in rows : ~(<<j, i>> \in OpToRel(<, Nat))
  BY <1>1, NatLessThanWellFounded, WFMin, Zenon
<1>3. \A j \in rows : ~(j < i)
  BY <1>1, <1>2, Zenon DEF OpToRel
<1>4. \A j \in rows : i <= j
  BY <1>1, <1>3
<1> QED BY <1>4 DEF FirstRow

LEMMA KeysNeeded ==
  ASSUME NEW i \in Rows, NEW n \in DOMAIN Needs(i) PROVE Needs(i)[n] \in Keys
BY DEF Keys

LEMMA ImportStart == ImportInit => ImportInv
<1> SUFFICES ASSUME ImportInit PROVE ImportInv
  OBVIOUS
<1>1. WorkerFits(Away)
  BY DEF Away, WorkerFits, WorkerRow
<1>2. Accepted = {}
  BY DEF ImportInit, Accepted
<1> QED BY <1>1, <1>2 DEF ImportInit, ImportInv, AllApplied, Final

\* What a worker has done is not undone under it.
LEMMA WorkerStays ==
  ASSUME ImportAssumption, ImportInv, Grows, NEW r, WorkerFits(r)
  PROVE  WorkerFits(r)'
<1>1. \A i \in Rows : Applied(i) => Applied(i)'
  BY KeysNeeded DEF Applied, Grows
<1>2. redone' \/ (Accepted' \subseteq Accepted /\ ~redone)
  BY DEF Grows
<1>3. Accepted \subseteq Rows /\ Accepted' \subseteq Rows
  BY DEF Accepted
<1>4. WorkerRow(r)' /\ (r.at # "away" => event' # "NONE")
  BY DEF WorkerFits, WorkerRow, Grows
<1>5. ASSUME r.at \in {"search", "create"}
      PROVE  /\ \A k \in r.cache : There(k)'
             /\ Underway(r)'
             /\ redone' \/ \A i \in Accepted' : i \in r.todo \/ Applied(i)'
  <2>1. \A k \in r.cache : There(k)'
    BY <1>5 DEF WorkerFits, WorkerRow, Grows
  <2>2. Underway(r)'
    <3> SUFFICES ASSUME r.todo # {}
                 PROVE  /\ r.key <= Len(Needs(FirstRow(r.todo)))
                        /\ \A n \in 1..(r.key - 1) : There(Needs(FirstRow(r.todo))[n])'
      BY DEF Underway
    <3> PICK i : i = FirstRow(r.todo)
      OBVIOUS
    <3>1. i \in Rows /\ r.key \in Nat \ {0}
      BY FirstRowOfRows DEF WorkerFits, WorkerRow
    <3>2. r.key <= Len(Needs(i)) /\ \A n \in 1..(r.key - 1) : There(Needs(i)[n])
      BY <1>5 DEF WorkerFits, Underway
    <3>3. \A n \in 1..(r.key - 1) : n \in DOMAIN Needs(i)
      BY <3>1, <3>2 DEF ImportAssumption
    <3> QED BY <3>1, <3>2, <3>3, KeysNeeded DEF Grows
  <2>3. redone' \/ \A i \in Accepted' : i \in r.todo \/ Applied(i)'
    BY <1>1, <1>2, <1>3, <1>5 DEF WorkerFits
  <2> QED BY <2>1, <2>2, <2>3
<1>6. r.at = "publish" => redone' \/ AllApplied'
  BY <1>1, <1>2, <1>3 DEF WorkerFits, AllApplied
<1> QED BY <1>4, <1>5, <1>6 DEF WorkerFits

LEMMA AppliedStay ==
  ASSUME ImportInv, Grows, AllApplied, ~redone' PROVE AllApplied'
<1>1. \A i \in Rows : Applied(i) => Applied(i)'
  BY KeysNeeded DEF Applied, Grows
<1> QED BY <1>1 DEF AllApplied, Grows, Accepted

\* A step of one worker; what becomes of the job and the event needs all rows applied.
LEMMA WorkerMoves ==
  ASSUME ImportAssumption, ImportInv, Grows, NEW w \in Workers, NEW step,
         worker' = [worker EXCEPT ![w] = step], WorkerFits(step)',
         inventory' \in [Keys -> {0, 1}], row' \in [Rows -> {"NONE", "ACCEPTED", "SKIPPED"}],
         job' = [status |-> job'.status, accepted |-> job'.accepted, skipped |-> job'.skipped],
         event' \in {"NONE", "PENDING", "PUBLISHED"},
         \/ redone' \/ AllApplied'
         \/ /\ job'.status \in Final => job.status \in Final
            /\ event' = "PUBLISHED" => event = "PUBLISHED"
  PROVE  ImportInv'
<1>1. worker'[w] = step /\ (\A v \in Workers : v # w => worker'[v] = worker[v])
      /\ worker' = [v \in Workers |-> worker'[v]]
  BY DEF ImportInv
<1>2. ASSUME NEW v \in Workers PROVE WorkerFits(worker[v])'
  <2> PICK r : r = worker'[v]
    OBVIOUS
  <2>1. WorkerFits(r)'
    BY <1>1, WorkerStays DEF ImportInv
  <2> QED BY <2>1 DEF WorkerFits, WorkerRow, Underway
<1>3. job'.status \in Final \/ event' = "PUBLISHED" => redone' \/ AllApplied'
  BY AppliedStay DEF ImportInv, Grows
<1> QED BY <1>1, <1>2, <1>3 DEF ImportInv, Grows

\* Dry-runs and commits: no worker moves.
LEMMA WorkersRest ==
  ASSUME ImportAssumption, ImportInv, Grows, UNCHANGED <<worker, inventory>>,
         row' \in [Rows -> {"NONE", "ACCEPTED", "SKIPPED"}],
         job' = [status |-> job'.status, accepted |-> job'.accepted, skipped |-> job'.skipped],
         event' \in {"NONE", "PENDING", "PUBLISHED"},
         job'.status \in Final => job.status \in Final,
         event' = "PUBLISHED" => event = "PUBLISHED"
  PROVE  ImportInv'
<1>1. ASSUME NEW v \in Workers PROVE WorkerFits(worker[v])'
  <2> PICK r : r = worker[v]
    OBVIOUS
  <2>1. WorkerFits(r)'
    BY WorkerStays DEF ImportInv
  <2> QED BY <2>1 DEF WorkerFits, WorkerRow, Underway
<1>2. job'.status \in Final \/ event' = "PUBLISHED" => redone' \/ AllApplied'
  BY AppliedStay DEF ImportInv, Grows
<1> QED BY <1>1, <1>2 DEF ImportInv, Grows

\* The rows are replaced: before the commit nobody works on them, after it the job is
\* on record as redone.
LEMMA DryRunKeeps ==
  ASSUME ImportAssumption, ImportInv, NEW d \in DryRuns, DryRunWrite(d)
  PROVE  ImportInv'
<1>1. /\ job'.status = "QUEUED" /\ UNCHANGED <<inventory, event, worker>>
      /\ redone' = (redone \/ event # "NONE")
      /\ row' \in [Rows -> {"NONE", "ACCEPTED", "SKIPPED"}]
      /\ job' = [status |-> job'.status, accepted |-> job'.accepted, skipped |-> job'.skipped]
  BY DEF DryRunWrite
<1>2. CASE event # "NONE"
  <2>1. Grows
    BY <1>1, <1>2 DEF Grows, There, ImportInv
  <2> QED BY <1>1, <2>1, WorkersRest DEF Final, ImportInv
<1>3. CASE event = "NONE"
  <2>1. \A w \in Workers : WorkerFits(worker[w]) /\ worker[w].at = "away"
    BY <1>3 DEF ImportInv, WorkerFits
  <2>2. ASSUME NEW w \in Workers PROVE WorkerFits(worker[w])'
    BY <1>1, <2>1 DEF WorkerFits, WorkerRow
  <2> QED BY <1>1, <1>3, <2>2 DEF ImportInv, Final
<1> QED BY <1>2, <1>3

LEMMA CommitKeeps ==
  ASSUME ImportAssumption, ImportInv,
         \/ \E c \in Commits : \/ CommitRead(c) \/ CommitClaim(c)
                               \/ \E demoted \in SUBSET Rows : ReapplyPropertyScope(c, demoted)
         \/ \E d \in DryRuns, accepted \in SUBSET Rows : DryRunRead(d, accepted)
         \/ UNCHANGED importVars
  PROVE  ImportInv'
<1>1. CASE \/ \E c \in Commits : CommitRead(c)
           \/ \E d \in DryRuns, accepted \in SUBSET Rows : DryRunRead(d, accepted)
           \/ UNCHANGED importVars
  <2>1. UNCHANGED <<job, row, inventory, event, worker, redone>>
    BY <1>1 DEF CommitRead, DryRunRead, importVars
  <2>2. Grows
    BY <2>1 DEF Grows, There, Accepted, ImportInv
  <2> QED BY <2>1, <2>2, WorkersRest DEF ImportInv
<1>2. ASSUME NEW c \in Commits, CommitClaim(c) PROVE ImportInv'
  <2>1. /\ UNCHANGED <<row, inventory, worker, redone>>
        /\ \/ job' = [job EXCEPT !.status = "PROCESSING"] /\ event' = "PENDING"
           \/ UNCHANGED <<job, event>>
    BY <1>2 DEF CommitClaim
  <2>2. Grows
    BY <2>1 DEF Grows, There, Accepted, ImportInv
  <2>3. /\ job' = [status |-> job'.status, accepted |-> job'.accepted, skipped |-> job'.skipped]
        /\ job'.status \in Final => job.status \in Final
    BY <2>1 DEF ImportInv, Final
  <2> QED BY <2>1, <2>2, <2>3, WorkersRest DEF ImportInv
<1>3. ASSUME NEW c \in Commits, NEW demoted \in SUBSET Rows, ReapplyPropertyScope(c, demoted)
      PROVE  ImportInv'
  <2>1. /\ row' = [i \in Rows |-> IF i \in demoted THEN "SKIPPED" ELSE row[i]]
        /\ UNCHANGED <<inventory, event, worker, redone>>
    BY <1>3 DEF ReapplyPropertyScope
  <2>2. Grows
    BY <2>1 DEF Grows, There, Accepted, ImportInv
  <2> PICK accepted : accepted = IF job.accepted > Cardinality(demoted)
                                 THEN job.accepted - Cardinality(demoted) ELSE 0
    OBVIOUS
  <2>3. job' = job \/ job' = [job EXCEPT !.accepted = accepted, !.skipped = TRUE]
    BY <1>3 DEF ReapplyPropertyScope
  <2>4. /\ job' = [status |-> job'.status, accepted |-> job'.accepted, skipped |-> job'.skipped]
        /\ job'.status = job.status
    BY <2>3 DEF ImportInv
  <2> QED BY <2>1, <2>2, <2>4, WorkersRest DEF ImportInv
<1> QED BY <1>1, <1>2, <1>3

\* A worker that starts, marks the job and reads the rows.
LEMMA BeginKeeps ==
  ASSUME ImportAssumption, ImportInv, NEW w \in Workers, Start(w) \/ MarkRunning(w) \/ ReadRows(w)
  PROVE  ImportInv'
<1> PICK r : r = worker[w]
  OBVIOUS
<1>1. UNCHANGED <<row, inventory, event, redone>> /\ WorkerFits(r)
  BY DEF Start, MarkRunning, ReadRows, ImportInv
<1>2. Grows
  BY <1>1 DEF Grows, There, Accepted, ImportInv
<1>3. CASE Start(w)
  <2> PICK at : at = IF Handled THEN "publish" ELSE "mark"
    OBVIOUS
  <2> PICK accepted, skipped : accepted = job.accepted /\ skipped = job.skipped
    OBVIOUS
  <2> DEFINE step == [Away EXCEPT !.at = at, !.accepted = accepted, !.skipped = skipped]
  <2>1. worker' = [worker EXCEPT ![w] = step] /\ event = "PENDING" /\ UNCHANGED job
    BY <1>3 DEF Start
  <2>2. WorkerRow(step) /\ step.at = at /\ step.key = 1 /\ step.cache = {}
    <3>1. DOMAIN step = {"at", "todo", "key", "cache", "accepted", "skipped", "applied"}
      BY DEF Away
    <3>2. step.at = at /\ step.key = 1 /\ step.cache = {} /\ step.todo = {}
      BY DEF Away
    <3>3. step = [field \in DOMAIN step |-> step[field]]
      BY DEF Away
    <3> QED BY <3>1, <3>2, <3>3 DEF WorkerRow
  <2> HIDE DEF step
  <2>3. at = "publish" => redone \/ AllApplied
    BY DEF Handled, ImportInv
  <2>4. WorkerFits(step)
    BY <2>1, <2>2, <2>3 DEF WorkerFits
  <2> QED BY <1>1, <1>2, <2>1, <2>4, WorkerStays, WorkerMoves DEF ImportInv
<1>4. CASE MarkRunning(w)
  <2> DEFINE step == [r EXCEPT !.at = "rows"]
  <2>1. worker' = [worker EXCEPT ![w] = step] /\ r.at = "mark" /\ job' = [job EXCEPT !.status = "PROCESSING"]
    BY <1>4 DEF MarkRunning, Moved, ImportInv
  <2>2. /\ WorkerRow(step) /\ step.at = "rows" /\ step.key = r.key /\ step.cache = r.cache
    BY <1>1 DEF WorkerFits, WorkerRow
  <2> HIDE DEF step
  <2>3. WorkerFits(step)
    BY <1>1, <2>1, <2>2 DEF WorkerFits
  <2>4. /\ job' = [status |-> job'.status, accepted |-> job'.accepted, skipped |-> job'.skipped]
        /\ job'.status \notin Final
    BY <2>1 DEF ImportInv, Final
  <2> QED BY <1>1, <1>2, <2>1, <2>3, <2>4, WorkerStays, WorkerMoves DEF ImportInv
<1>5. CASE ReadRows(w)
  <2> DEFINE step == [r EXCEPT !.at = "search", !.todo = Accepted]
  <2>1. worker' = [worker EXCEPT ![w] = step] /\ r.at = "rows" /\ UNCHANGED job
    BY <1>5 DEF ReadRows, ImportInv
  <2>2. Accepted \subseteq Rows
    BY DEF Accepted
  <2>3. /\ WorkerRow(step) /\ step.at = "search" /\ step.key = r.key /\ step.cache = r.cache
        /\ step.todo = Accepted
    BY <1>1, <2>2 DEF WorkerFits, WorkerRow
  <2> HIDE DEF step
  <2>4. Underway(step)
    <3>1. step.todo # {} => FirstRow(step.todo) \in Rows
      BY <2>2, <2>3, FirstRowOfRows
    <3> QED BY <1>1, <2>1, <2>3, <3>1 DEF Underway, WorkerFits, ImportAssumption
  <2>5. WorkerFits(step)
    BY <1>1, <2>1, <2>3, <2>4 DEF WorkerFits
  <2> QED BY <1>1, <1>2, <2>1, <2>5, WorkerStays, WorkerMoves DEF ImportInv
<1> QED BY <1>3, <1>4, <1>5

\* The key a worker is at is there after the step: so far as the worker goes on, its
\* keys and rows are.
LEMMA AdvancedFits ==
  ASSUME ImportAssumption, ImportInv, Grows, NEW w \in Workers,
         worker[w].at \in {"search", "create"}, worker[w].todo # {},
         inventory'[KeyOf(w)] = 1, Advanced(w)
  PROVE  \E step : worker' = [worker EXCEPT ![w] = step] /\ WorkerFits(step)'
<1> PICK r : r = worker[w]
  OBVIOUS
<1> PICK i : i = FirstRow(r.todo)
  OBVIOUS
<1> PICK key : key = Needs(i)[r.key]
  OBVIOUS
<1>1. KeyOf(w) = key
  BY DEF KeyOf
<1>2. i \in Rows /\ i \in r.todo /\ r.key \in 1..Len(Needs(i)) /\ r.todo \subseteq Rows
      /\ r.key \in Nat /\ Len(Needs(i)) \in Nat
  <2>1. WorkerRow(r) /\ Underway(r)
    BY DEF ImportInv, WorkerFits
  <2>2. i \in Rows /\ i \in r.todo /\ r.todo \subseteq Rows
    BY <2>1, FirstRowOfRows DEF WorkerRow
  <2> QED BY <2>1, <2>2 DEF WorkerRow, Underway, ImportAssumption
<1>3. key \in Keys
  BY <1>2, KeysNeeded DEF ImportAssumption
<1>4. There(key)'
  BY <1>1 DEF There
<1>5. WorkerFits(r)'
  BY WorkerStays DEF ImportInv
<1> PICK last \in BOOLEAN : last = (r.key = Len(Needs(i)))
  OBVIOUS
<1> PICK todo : todo = IF last THEN r.todo \ {i} ELSE r.todo
  OBVIOUS
<1> PICK next : next = IF last THEN 1 ELSE r.key + 1
  OBVIOUS
<1> PICK applied : applied = IF last THEN r.applied + 1 ELSE r.applied
  OBVIOUS
<1>0. PICK step : step = [r EXCEPT !.at = "search", !.cache = r.cache \cup {key}, !.key = next,
                                   !.todo = todo, !.applied = applied]
  OBVIOUS
<1>6. worker' = [worker EXCEPT ![w] = step]
  BY <1>0, <1>1 DEF Advanced
<1>7. /\ WorkerRow(step) /\ step.at = "search" /\ step.key = next /\ step.todo = todo
      /\ step.cache = r.cache \cup {key}
  <2>1. WorkerRow(r)
    BY DEF ImportInv, WorkerFits
  <2>2. step = [field \in DOMAIN step |-> step[field]] /\ DOMAIN step = DOMAIN r
    BY <1>0, <2>1 DEF WorkerRow
  <2>3. /\ step.at = "search" /\ step.key = next /\ step.todo = todo
        /\ step.cache = r.cache \cup {key}
    BY <1>0, <2>1 DEF WorkerRow
  <2>4. todo \subseteq Rows /\ next \in Nat \ {0}
    BY <1>2
  <2> QED BY <1>3, <2>1, <2>2, <2>3, <2>4 DEF WorkerRow
<1>8. \A n \in 1..r.key : There(Needs(i)[n])'
  <2>1. \A n \in 1..(r.key - 1) : There(Needs(i)[n])'
    BY <1>2, <1>5 DEF WorkerFits, Underway
  <2>2. \A n \in 1..r.key : n \in 1..(r.key - 1) \/ n = r.key
    BY <1>2
  <2> QED BY <1>4, <2>1, <2>2
<1>9. Underway(step)'
  <2>1. CASE last
    <3>0. todo \subseteq Rows
      BY <1>2
    <3>1. todo # {} => FirstRow(todo) \in Rows
      BY <3>0, FirstRowOfRows
    <3> QED BY <1>7, <2>1, <3>1 DEF Underway, ImportAssumption
  <2>2. CASE ~last
    <3>0. r.key # Len(Needs(i)) /\ todo = r.todo /\ next = r.key + 1
      BY <2>2, Zenon
    <3>1. todo = r.todo /\ next = r.key + 1 /\ next <= Len(Needs(i)) /\ next - 1 = r.key
      BY <1>2, <3>0
    <3> QED BY <1>7, <1>8, <3>1 DEF Underway
  <2> QED BY <2>1, <2>2
<1>10. redone' \/ \A j \in Accepted' : j \in todo \/ Applied(j)'
  <2>1. last => Applied(i)'
    BY <1>2, <1>8 DEF Applied, ImportAssumption
  <2>2. redone' \/ \A j \in Accepted' : j \in r.todo \/ Applied(j)'
    BY <1>5 DEF WorkerFits
  <2> QED BY <2>1, <2>2
<1>11. event' # "NONE" /\ \A k \in r.cache \cup {key} : There(k)'
  BY <1>4, <1>5 DEF WorkerFits
<1>12. WorkerRow(step)' /\ (\A k \in step.cache : There(k)')
       /\ (redone' \/ \A j \in Accepted' : j \in step.todo \/ Applied(j)')
  BY <1>7, <1>10, <1>11 DEF WorkerRow
<1>13. WorkerFits(step)'
  BY <1>7, <1>9, <1>11, <1>12 DEF WorkerFits
<1> QED BY <1>6, <1>13

\* A key that is found, and one that is created.
LEMMA UpsertKeeps ==
  ASSUME ImportAssumption, ImportInv, NEW w \in Workers, Upsert(w) \/ Create(w)
  PROVE  ImportInv'
<1> PICK r : r = worker[w]
  OBVIOUS
<1> PICK i : i = FirstRow(r.todo)
  OBVIOUS
<1> PICK key : key = Needs(i)[r.key]
  OBVIOUS
<1>1. KeyOf(w) = key
  BY DEF KeyOf
<1>2. UNCHANGED <<job, row, event, redone>> /\ WorkerFits(r) /\ r.todo # {}
  BY DEF Upsert, Create, ImportInv, WorkerFits
<1>3. r.at \in {"search", "create"}
  BY DEF Upsert, Create
<1>4. key \in Keys
  <2>1. WorkerRow(r) /\ Underway(r)
    BY <1>2, <1>3 DEF WorkerFits
  <2>2. i \in Rows
    BY <1>2, <2>1, FirstRowOfRows DEF WorkerRow
  <2> QED BY <1>2, <2>1, <2>2, KeysNeeded DEF WorkerRow, Underway, ImportAssumption
<1>5. CASE Upsert(w) /\ ~(key \in r.cache \/ inventory[key] > 0)
  <2>1. worker' = [worker EXCEPT ![w].at = "create"] /\ UNCHANGED inventory
        /\ r.at = "search"
    BY <1>1, <1>5 DEF Upsert, Moved
  <2> PICK step : step = [r EXCEPT !.at = "create"]
    OBVIOUS
  <2>2. worker' = [worker EXCEPT ![w] = step]
    BY <2>1 DEF ImportInv
  <2>3. /\ WorkerRow(step) /\ step.at = "create" /\ step.key = r.key /\ step.cache = r.cache
        /\ step.todo = r.todo
    BY <1>2 DEF WorkerFits, WorkerRow
  <2>4. WorkerFits(step)
    BY <1>2, <2>1, <2>3 DEF WorkerFits, Underway
  <2>5. Grows
    BY <1>2, <2>1 DEF Grows, There, Accepted, ImportInv
  <2> QED BY <1>2, <2>1, <2>2, <2>4, <2>5, WorkerStays, WorkerMoves DEF ImportInv
<1>6. CASE Create(w) \/ (Upsert(w) /\ (key \in r.cache \/ inventory[key] > 0))
  <2>1. Advanced(w) /\ inventory' \in [Keys -> {0, 1}] /\ inventory'[key] = 1
        /\ \A k \in Keys : There(k) => There(k)'
    <3>1. CASE Create(w)
      <4>1. /\ Advanced(w) /\ inventory[key] = 0
            /\ inventory' = [inventory EXCEPT ![key] = inventory[key] + 1]
        BY <1>1, <3>1 DEF Create, KeyFree
      <4> QED BY <1>4, <4>1 DEF ImportInv, There
    <3>2. CASE Upsert(w) /\ (key \in r.cache \/ inventory[key] > 0)
      <4>1. Advanced(w) /\ UNCHANGED inventory
        BY <1>1, <3>2 DEF Upsert
      <4>2. inventory[key] = 1
        BY <1>2, <1>3, <1>4, <3>2 DEF WorkerFits, There, ImportInv
      <4> QED BY <4>1, <4>2 DEF ImportInv, There
    <3> QED BY <1>6, <3>1, <3>2
  <2>2. Grows
    BY <1>2, <2>1 DEF Grows, Accepted, ImportInv
  <2>3. inventory'[KeyOf(w)] = 1
    BY <1>1, <2>1
  <2>4. PICK step : worker' = [worker EXCEPT ![w] = step] /\ WorkerFits(step)'
    BY <1>2, <1>3, <2>1, <2>2, <2>3, AdvancedFits
  <2> QED BY <1>2, <2>1, <2>2, <2>4, WorkerMoves DEF ImportInv
<1> QED BY <1>1, <1>5, <1>6

\* The catch block, a crash, and the event taken off: the worker is away.
LEMMA LeaveKeeps ==
  ASSUME ImportAssumption, ImportInv, NEW w \in Workers,
         LoseCreate(w) \/ Disturb(w) \/ CrashImport(w) \/ Publish(w)
  PROVE  ImportInv'
<1> PICK r : r = worker[w]
  OBVIOUS
<1>1. UNCHANGED <<row, inventory, redone>> /\ WorkerFits(r)
      /\ worker' = [worker EXCEPT ![w] = Away]
      /\ (job' = [job EXCEPT !.status = "FAILED"] \/ job' = job)
  BY DEF LoseCreate, Disturb, CrashImport, Publish, Fail, ImportInv
<1>2. /\ job' = [status |-> job'.status, accepted |-> job'.accepted, skipped |-> job'.skipped]
      /\ job'.status \in Final => job.status \in Final
  BY <1>1 DEF ImportInv, Final
<1>3. event' = event \/ (event' = "PUBLISHED" /\ r.at = "publish")
  BY DEF LoseCreate, Disturb, CrashImport, Publish, Fail
<1>4. Grows
  BY <1>1, <1>3 DEF Grows, There, Accepted, ImportInv
<1>5. WorkerFits(Away)'
  BY DEF Away, WorkerFits, WorkerRow
<1>6. r.at = "publish" => redone' \/ AllApplied'
  BY <1>1, <1>4, AppliedStay DEF WorkerFits
<1>7. event' \in {"NONE", "PENDING", "PUBLISHED"}
  BY <1>3 DEF ImportInv
<1>8. inventory' \in [Keys -> {0, 1}] /\ row' \in [Rows -> {"NONE", "ACCEPTED", "SKIPPED"}]
  BY <1>1 DEF ImportInv
<1> QED BY <1>1, <1>2, <1>3, <1>4, <1>5, <1>6, <1>7, <1>8, WorkerMoves

\* A worker with no rows left has applied every accepted one.
LEMMA FinishKeeps ==
  ASSUME ImportAssumption, ImportInv, NEW w \in Workers, Finish(w)
  PROVE  ImportInv'
<1> PICK r : r = worker[w]
  OBVIOUS
<1> PICK outcome : outcome = IF r.accepted > 0 /\ r.applied = 0 THEN "FAILED"
                           ELSE IF r.skipped THEN "PARTIALLY_COMPLETED" ELSE "COMPLETED"
  OBVIOUS
<1> PICK accepted, skipped : accepted = r.accepted /\ skipped = r.skipped
  OBVIOUS
<1>1. /\ UNCHANGED <<row, inventory, event, redone>> /\ WorkerFits(r)
      /\ r.at = "search" /\ r.todo = {}
      /\ job' = [job EXCEPT !.accepted = accepted, !.skipped = skipped, !.status = outcome]
      /\ worker' = [worker EXCEPT ![w].at = "publish"]
  BY DEF Finish, Moved, ImportInv
<1> PICK step : step = [r EXCEPT !.at = "publish"]
  OBVIOUS
<1>2. worker' = [worker EXCEPT ![w] = step]
  BY <1>1 DEF ImportInv
<1>3. /\ WorkerRow(step) /\ step.at = "publish"
  BY <1>1 DEF WorkerFits, WorkerRow
<1>4. redone \/ AllApplied
  BY <1>1 DEF WorkerFits, AllApplied
<1>5. WorkerFits(step)
  BY <1>1, <1>3, <1>4 DEF WorkerFits
<1>6. Grows
  BY <1>1 DEF Grows, There, Accepted, ImportInv
<1>7. job' = [status |-> job'.status, accepted |-> job'.accepted, skipped |-> job'.skipped]
  BY <1>1 DEF ImportInv
<1>8. redone' \/ AllApplied'
  BY <1>1, <1>4, <1>6, AppliedStay
<1> QED BY <1>1, <1>2, <1>5, <1>6, <1>7, <1>8, WorkerStays, WorkerMoves DEF ImportInv

LEMMA ImportStep == ImportAssumption /\ ImportInv /\ [ImportNext]_importVars => ImportInv'
BY DryRunKeeps, CommitKeeps, BeginKeeps, UpsertKeeps, LeaveKeeps, FinishKeeps
   DEF ImportNext, WorkOn

(***************************************************************************)
(* An import's event is taken off the queue only when every accepted row   *)
(* is in the inventory, and nothing is in it twice: for any file, any      *)
(* number of deliveries of the event that overlap, lose a unique index to  *)
(* each other or crash between two statements, and any dry-runs and        *)
(* commits beside them.                                                    *)
(***************************************************************************)
THEOREM PublishedAreApplied == ImportSpec => []PublishedIsApplied
<1>1. ImportInv => PublishedIsApplied
  BY KeysNeeded DEF ImportInv, PublishedIsApplied, AllApplied, Applied, There, Accepted
<1> QED BY <1>1, ImportAssumption, ImportStart, ImportStep, PTL DEF ImportSpec

-----------------------------------------------------------------------------
(***************************************************************************)
(* The rows of an import: what the invariant above leaves open.            *)
(***************************************************************************)

JobRow == [status : {"QUEUED", "PROCESSING", "FAILED"} \cup Final, accepted : Nat, skipped : BOOLEAN]

ImportRows ==
  /\ job \in JobRow
  /\ dryRun \in [DryRuns -> [open : BOOLEAN, accepted : SUBSET Rows]]
  /\ commit \in [Commits -> {"closed", "scope", "claim"}]
  /\ \A w \in Workers : worker[w].accepted \in Nat /\ worker[w].skipped \in BOOLEAN

\* A delivery that goes on keeps the counts it has read.
LEMMA CountsKept ==
  ASSUME ImportAssumption, ImportInv, ImportRows, NEW w \in Workers, NEW r,
         r.accepted \in Nat, r.skipped \in BOOLEAN, worker' = [worker EXCEPT ![w] = r]
  PROVE  \A v \in Workers : worker'[v].accepted \in Nat /\ worker'[v].skipped \in BOOLEAN
BY DEF ImportInv, ImportRows

LEMMA DeliveryKeeps ==
  ASSUME ImportAssumption, ImportInv, ImportRows, NEW w \in Workers,
         \/ Start(w) \/ MarkRunning(w) \/ ReadRows(w) \/ Upsert(w) \/ Create(w) \/ Finish(w)
  PROVE  \A v \in Workers : worker'[v].accepted \in Nat /\ worker'[v].skipped \in BOOLEAN
<1> PICK row0 : row0 = worker[w]
  OBVIOUS
<1>1. /\ row0.accepted \in Nat /\ row0.skipped \in BOOLEAN
      /\ row0 = [field \in DOMAIN row0 |-> row0[field]]
      /\ {"at", "todo", "key", "cache", "accepted", "skipped", "applied"} \subseteq DOMAIN row0
  BY DEF ImportRows, ImportInv, WorkerFits, WorkerRow
<1>2. ASSUME NEW at, Moved(w, at)
      PROVE  \A v \in Workers : worker'[v].accepted \in Nat /\ worker'[v].skipped \in BOOLEAN
  <2>1. worker' = [worker EXCEPT ![w] = [row0 EXCEPT !.at = at]]
    BY <1>2 DEF Moved, ImportInv
  <2>2. [row0 EXCEPT !.at = at].accepted \in Nat /\ [row0 EXCEPT !.at = at].skipped \in BOOLEAN
    BY <1>1
  <2> QED BY <2>1, <2>2, CountsKept
<1>3. ASSUME Advanced(w)
      PROVE  \A v \in Workers : worker'[v].accepted \in Nat /\ worker'[v].skipped \in BOOLEAN
  <2>1. PICK cache, key, todo, applied :
          worker' = [worker EXCEPT ![w] = [row0 EXCEPT
            !.at = "search", !.cache = cache, !.key = key, !.todo = todo, !.applied = applied]]
    BY <1>3 DEF Advanced
  <2> PICK r : r = [row0 EXCEPT !.at = "search", !.cache = cache, !.key = key, !.todo = todo,
                                !.applied = applied]
    OBVIOUS
  <2>2. r.accepted \in Nat /\ r.skipped \in BOOLEAN
    BY <1>1
  <2> QED BY <2>1, <2>2, CountsKept
<1>4. CASE Start(w)
  <2> PICK r : r = [Away EXCEPT !.at = IF Handled THEN "publish" ELSE "mark",
                                !.accepted = job.accepted, !.skipped = job.skipped]
    OBVIOUS
  <2>1. r.accepted = job.accepted /\ r.skipped = job.skipped
    BY DEF Away
  <2>2. r.accepted \in Nat /\ r.skipped \in BOOLEAN
    BY <2>1 DEF ImportRows, JobRow
  <2> QED BY <1>4, <2>2, CountsKept DEF Start
<1>5. CASE ReadRows(w)
  <2> PICK r : r = [row0 EXCEPT !.at = "search", !.todo = Accepted]
    OBVIOUS
  <2>1. worker' = [worker EXCEPT ![w] = r]
    BY <1>5 DEF ReadRows, ImportInv
  <2>2. r.accepted \in Nat /\ r.skipped \in BOOLEAN
    BY <1>1
  <2> QED BY <2>1, <2>2, CountsKept
<1> QED BY <1>2, <1>3, <1>4, <1>5 DEF MarkRunning, Upsert, Create, Finish

LEMMA ImportRowsStep ==
  ASSUME ImportAssumption, ImportInv, ImportRows, [ImportNext]_importVars
  PROVE  ImportRows'
<1>1. ASSUME UNCHANGED worker, job' \in JobRow,
             dryRun' \in [DryRuns -> [open : BOOLEAN, accepted : SUBSET Rows]],
             commit' \in [Commits -> {"closed", "scope", "claim"}]
      PROVE  ImportRows'
  BY <1>1 DEF ImportRows
<1>2. job \in JobRow
  BY DEF ImportRows
<1>3. ASSUME NEW d \in DryRuns, DryRunWrite(d) PROVE ImportRows'
  <2>1. dryRun[d].accepted \in SUBSET Rows /\ IsFiniteSet(Rows)
    BY FS_Interval DEF ImportRows, Rows, ImportAssumption
  <2>2. Cardinality(dryRun[d].accepted) \in Nat
    BY <2>1, FS_Subset, FS_CardinalityType
  <2>3. job' \in JobRow
    BY <1>3, <2>2 DEF DryRunWrite, JobRow
  <2> QED BY <1>1, <1>3, <2>3 DEF DryRunWrite, ImportRows, NoDryRun
<1>4. ASSUME NEW d \in DryRuns, NEW accepted \in SUBSET Rows, DryRunRead(d, accepted) PROVE ImportRows'
  BY <1>1, <1>4 DEF DryRunRead, ImportRows
<1>5. ASSUME NEW c \in Commits, CommitRead(c) \/ CommitClaim(c) PROVE ImportRows'
  <2>1. job' \in JobRow
    BY <1>2, <1>5 DEF CommitRead, CommitClaim, JobRow
  <2> QED BY <1>1, <1>5, <2>1 DEF CommitRead, CommitClaim, ImportRows
<1>6. ASSUME NEW c \in Commits, NEW demoted \in SUBSET Rows, ReapplyPropertyScope(c, demoted)
      PROVE  ImportRows'
  <2>1. IsFiniteSet(Rows)
    BY FS_Interval DEF Rows, ImportAssumption
  <2>2. PICK gone \in Nat : gone = Cardinality(demoted)
    BY <2>1, FS_Subset, FS_CardinalityType
  <2> PICK n : n = IF job.accepted > gone THEN job.accepted - gone ELSE 0
    OBVIOUS
  <2>3. n \in Nat
    BY <1>2, <2>2 DEF JobRow
  <2>4. job' = job \/ job' = [job EXCEPT !.accepted = n, !.skipped = TRUE]
    BY <1>2, <1>6, <2>2 DEF ReapplyPropertyScope, JobRow
  <2>5. job' \in JobRow
    BY <1>2, <2>3, <2>4 DEF JobRow
  <2> QED BY <1>1, <1>6, <2>5 DEF ReapplyPropertyScope, ImportRows
<1>7. ASSUME NEW w \in Workers,
             Start(w) \/ MarkRunning(w) \/ ReadRows(w) \/ Upsert(w) \/ Create(w) \/ Finish(w)
      PROVE  ImportRows'
  <2>1. UNCHANGED <<dryRun, commit>>
    BY <1>7 DEF Start, MarkRunning, ReadRows, Upsert, Create, Finish
  <2>2. worker[w].accepted \in Nat /\ worker[w].skipped \in BOOLEAN
    BY DEF ImportRows
  <2>3. job' \in JobRow
    BY <1>2, <1>7, <2>2 DEF Start, MarkRunning, ReadRows, Upsert, Create, Finish, JobRow, Final
  <2> QED BY <1>7, <2>1, <2>3, DeliveryKeeps DEF ImportRows
<1>8. ASSUME NEW w \in Workers, LoseCreate(w) \/ Disturb(w) \/ CrashImport(w) \/ Publish(w)
      PROVE  ImportRows'
  <2>1. worker' = [worker EXCEPT ![w] = Away] /\ UNCHANGED <<dryRun, commit>>
    BY <1>8 DEF LoseCreate, Disturb, CrashImport, Publish, Fail
  <2>2. Away.accepted \in Nat /\ Away.skipped \in BOOLEAN
    BY DEF Away
  <2>3. job' \in JobRow
    BY <1>2, <1>8 DEF LoseCreate, Disturb, CrashImport, Publish, Fail, JobRow
  <2> QED BY <2>1, <2>2, <2>3, CountsKept DEF ImportRows
<1>9. CASE UNCHANGED importVars
  BY <1>1, <1>9 DEF importVars, ImportRows
<1> QED BY <1>3, <1>4, <1>5, <1>6, <1>7, <1>8, <1>9 DEF ImportNext, WorkOn

-----------------------------------------------------------------------------
(***************************************************************************)
(* The parts together.  Each step of the run is a step of one part and a   *)
(* stutter of the others, so the run keeps all that is proved of a part.   *)
(***************************************************************************)

ImportSteps == ImportInit /\ [][ImportNext]_importVars

\* The specification TLC runs implements that of every part, but for the fairness of
\* each: what is proved of the outbox, the keys and the imports holds of their sum.
THEOREM PlatformRuns == PlatformSpec => Spec /\ KeySpec /\ ImportSteps
<1>1. PlatformInit => Init /\ KeyInit /\ ImportInit
  BY DEF PlatformInit
<1>2. [PlatformNext]_<<part, vars, keyVars, importVars>> =>
        [Next]_vars /\ [KeyNext]_keyVars /\ [ImportNext]_importVars
  BY DEF PlatformNext
<1> QED BY <1>1, <1>2, PTL DEF PlatformSpec, Spec, KeySpec, ImportSteps

\* Every row of every part fits its table, whatever events, requests, files and
\* deliveries there are.
THEOREM PlatformTyped == PlatformSpec => []PlatformTypeOK
<1>1. PlatformInit => part \in Platforms
  BY DEF PlatformInit
<1>2. part \in Platforms /\ [PlatformNext]_<<part, vars, keyVars, importVars>> => (part \in Platforms)'
  BY DEF PlatformNext
<1>3. PlatformSpec => [](part \in Platforms)
  BY <1>1, <1>2, PTL DEF PlatformSpec
<1>4. ImportInit => ImportRows
  <2> SUFFICES ASSUME ImportInit PROVE ImportRows
    OBVIOUS
  <2>1. job \in JobRow
    BY DEF ImportInit, JobRow, Final
  <2>2. dryRun \in [DryRuns -> [open : BOOLEAN, accepted : SUBSET Rows]]
    BY DEF ImportInit, NoDryRun
  <2>3. \A w \in Workers : worker[w].accepted \in Nat /\ worker[w].skipped \in BOOLEAN
    BY DEF ImportInit, Away
  <2>4. commit \in [Commits -> {"closed", "scope", "claim"}]
    BY DEF ImportInit
  <2> QED BY <2>1, <2>2, <2>3, <2>4 DEF ImportRows
<1>5. ImportSteps => []ImportInv
  BY ImportAssumption, ImportStart, ImportStep, PTL DEF ImportSteps
<1>6. ImportRows /\ ImportInv /\ [ImportNext]_importVars => ImportRows'
  BY ImportAssumption, ImportRowsStep
<1>7. ImportSteps => []ImportRows
  BY <1>4, <1>5, <1>6, PTL DEF ImportSteps
<1>8. ImportInv /\ ImportRows => ImportTypeOK
  BY DEF ImportInv, ImportRows, ImportTypeOK, JobRow
<1>9. part \in Platforms /\ TypeOK /\ KeyTypeOK /\ ImportTypeOK => PlatformTypeOK
  BY DEF PlatformTypeOK
<1> QED BY <1>3, <1>5, <1>7, <1>8, <1>9, PlatformRuns, OutboxTyped, KeysTyped, PTL

=============================================================================
