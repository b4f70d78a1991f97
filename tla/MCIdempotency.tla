--------------------------- MODULE MCIdempotency ---------------------------
(***************************************************************************)
(* Idempotency for TLC: requests and hashes are interchangeable.  The runs *)
(* with a liveness property do not use the symmetry.                       *)
(***************************************************************************)
EXTENDS Idempotency, TLC

Symmetry == Permutations(Attempts) \cup Permutations(Hashes)

=============================================================================
