-------------------------- MODULE MCTwoTierDetector --------------------------
(* Instances of TwoTierDetector for TLC.                                     *)
EXTENDS TwoTierDetector, TLC

Symmetry == Permutations(Replicas)
=============================================================================
