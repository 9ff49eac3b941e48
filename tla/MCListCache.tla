---------------------------- MODULE MCListCache -----------------------------
(* Instances of ListCache for TLC. *)
EXTENDS ListCache

Symmetry == Permutations(Lists)
=============================================================================
