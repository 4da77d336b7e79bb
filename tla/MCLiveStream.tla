---------------------------- MODULE MCLiveStream ----------------------------
(* Instances of LiveStream for TLC.                                        *)
EXTENDS LiveStream, TLC

Symmetry == Permutations(Clients) \cup Permutations(Replicas)
=============================================================================
