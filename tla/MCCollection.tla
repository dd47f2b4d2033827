----------------------------- MODULE MCCollection -----------------------------
(* Small instances of Collection for TLC. *)
EXTENDS Collection, TLC

\* Every command on two pens, with the deletions recorded when everything is kept.
MCSettings ==
  {[retention |-> k, record_pen_changes |-> FALSE, record_ink_changes |-> FALSE,
    record_swatches |-> FALSE, record_deletions |-> k = Forever] : k \in {Forever, 1}}

\* Longer histories of one pen: only ink changes, which are always recorded.
MCInkSettings == {[s EXCEPT !.record_deletions = FALSE] : s \in MCSettings}

Symmetry == Permutations(Pens) \cup Permutations(Inks)
=============================================================================
