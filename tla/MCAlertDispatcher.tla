-------------------------- MODULE MCAlertDispatcher --------------------------
(* Instances of AlertDispatcher for TLC.                                     *)
EXTENDS AlertDispatcher, TLC

Interchangeable == Permutations(Services) \cup Permutations(Reports)
=============================================================================
