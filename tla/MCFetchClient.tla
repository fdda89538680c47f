---------------------------- MODULE MCFetchClient ----------------------------
(* Two processes and two codes; one drop has a file with the marker's name. *)
EXTENDS FetchClient, TLC

Symmetry == Permutations(Fetchers) \cup Permutations(Codes)
=============================================================================
