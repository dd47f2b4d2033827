------------------------------ MODULE MCUpdates ------------------------------
(* A small instance of Updates for TLC. *)
EXTENDS Updates, TLC

Symmetry == Permutations(Requests)
=============================================================================
