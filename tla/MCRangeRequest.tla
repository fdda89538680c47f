--------------------------- MODULE MCRangeRequest ---------------------------
(* Two formats of the archive, interchangeable. *)
EXTENDS RangeRequest, TLC

Symmetry == Permutations(Versions)
=============================================================================
