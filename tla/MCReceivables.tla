--------------------------- MODULE MCReceivables ---------------------------
(***************************************************************************)
(* Receivables for TLC: staff members and requests are interchangeable.    *)
(***************************************************************************)
EXTENDS Receivables, TLC

Symmetry == Permutations(Users) \cup Permutations(Requests)

=============================================================================
