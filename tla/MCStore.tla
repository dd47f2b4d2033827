------------------------------- MODULE MCStore -------------------------------
(* A small instance of Store for TLC.  No symmetry: the run checks liveness. *)
EXTENDS Store
=============================================================================
