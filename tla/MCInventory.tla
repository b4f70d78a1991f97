----------------------------- MODULE MCInventory -----------------------------
(***************************************************************************)
(* Inventory for TLC: how often each row may change.                       *)
(***************************************************************************)
EXTENDS Inventory

\* A bed is created, archived and made active again, its unit changes its mode.
MCMaxRowVersion == [x \in Places |-> IF x \in Beds THEN 3 ELSE IF x \in Units THEN 2 ELSE 1]
=============================================================================
