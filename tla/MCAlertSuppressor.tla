-------------------------- MODULE MCAlertSuppressor --------------------------
(* Instances of AlertSuppressor for TLC.                                     *)
EXTENDS AlertSuppressor, TLC

Interchangeable == Permutations(Services) \cup Permutations(Workers)
=============================================================================
