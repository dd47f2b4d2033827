------------------------------- MODULE MCRestore -------------------------------
(* A small instance of Restore for TLC. *)
EXTENDS Restore, TLC

Kept1 == [keep |-> 1, every |-> 1]
Kept2 == [keep |-> 2, every |-> 1]
AllSettings == {Kept1, Kept2}

Symmetry == Permutations(Requests) \cup Permutations(Photos)
=============================================================================
