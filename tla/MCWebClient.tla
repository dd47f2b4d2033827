----------------------------- MODULE MCWebClient -----------------------------
(* A small instance of WebClient for TLC. *)
EXTENDS WebClient, TLC

\* What the showcase leaves out is not neutral, and what a backup has is.
MCInitial == {[p \in Parts |-> 1]}
MCBackups == {[p \in Parts |-> Neutral]}

Symmetry == Permutations(Windows) \cup Permutations(Fields)
=============================================================================
