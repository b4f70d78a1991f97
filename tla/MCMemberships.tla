--------------------------- MODULE MCMemberships ---------------------------
(***************************************************************************)
(* Memberships for TLC: calls are interchangeable, and the roles of each   *)
(* member are replaced at most once.                                       *)
(***************************************************************************)
EXTENDS Memberships, TLC

MCMaxReplacements == [u \in People |-> 1]

CallSymmetry == Permutations(Admissions)
=============================================================================
