---------------------------- MODULE MCApiRequests ---------------------------
(* Instances of ApiRequests for TLC.                                       *)
EXTENDS ApiRequests, TLC

Symmetry == Permutations(Requests) \cup Permutations(Replicas) \cup Permutations(Draws)
=============================================================================
