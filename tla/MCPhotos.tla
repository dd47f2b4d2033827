------------------------------- MODULE MCPhotos -------------------------------
(* A small instance of Photos for TLC. *)
EXTENDS Photos, TLC

Symmetry == Permutations(Clients) \cup Permutations(Pictures)
=============================================================================
