----------------------------- MODULE MCBooking -----------------------------
(***************************************************************************)
(* Booking for TLC: requests are interchangeable, and the state space is   *)
(* cut down to two kinds of scopes.                                        *)
(***************************************************************************)
EXTENDS Booking, TLC

RequestSymmetry == Permutations(Requests)

\* A unit that could once hold several leases is let by capacity only: its beds,
\* changes of mode and mixed claims are explored for units that hold one.  Only
\* such a unit is archived.
InScope ==
  \A u \in Units :
    /\ peak[u] > 1 =>
         /\ unit[u].mode = "CAPACITY" /\ beds = {}
         /\ \A l \in Leases : alloc[l] # Nowhere => alloc[l].type = "CAPACITY"
         /\ \A q \in Requests :
              /\ request[q].op \notin {"patch", "bed"}
              /\ request[q].op \in {"claim", "checked"} => request[q].place.type = "CAPACITY"
    /\ unit[u].live \/ peak[u] > 1
=============================================================================
