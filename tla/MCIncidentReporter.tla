------------------------- MODULE MCIncidentReporter --------------------------
(* Instances of IncidentReporter for TLC.                                    *)
EXTENDS IncidentReporter, TLC

Interchangeable == Permutations(Reports)
=============================================================================
