------------------------------ MODULE Delivery ------------------------------
(***************************************************************************)
(* What the transactional outbox promises: an event that was sent is       *)
(* handled at least once before it is settled, an event of the wrong       *)
(* tenant is dropped and never handled, and both are final.                *)
(***************************************************************************)
CONSTANT Events

VARIABLES sent, handled, settled, dropped

vars == <<sent, handled, settled, dropped>>

Init == sent = {} /\ handled = {} /\ settled = {} /\ dropped = {}

Send(e) ==
  /\ e \notin sent
  /\ sent' = sent \cup {e}
  /\ UNCHANGED <<handled, settled, dropped>>

\* May happen again and again, even after e was settled.
Handle(e) ==
  /\ e \in sent \ dropped
  /\ handled' = handled \cup {e}
  /\ UNCHANGED <<sent, settled, dropped>>

Settle(e) ==
  /\ e \in handled
  /\ settled' = settled \cup {e}
  /\ UNCHANGED <<sent, handled, dropped>>

Drop(e) ==
  /\ e \in sent \ handled
  /\ dropped' = dropped \cup {e}
  /\ UNCHANGED <<sent, handled, settled>>

Next == \E e \in Events : Send(e) \/ Handle(e) \/ Settle(e) \/ Drop(e)

Spec == Init /\ [][Next]_vars

\* Every event sent is settled or dropped in the end.
Completion == \A e \in Events : e \in sent ~> e \in settled \cup dropped

=============================================================================
