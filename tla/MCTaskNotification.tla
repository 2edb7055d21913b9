------------------------- MODULE MCTaskNotification -------------------------
(* Instances of TaskNotification for TLC.                                  *)
EXTENDS TaskNotification, TLC

Symmetry == Permutations(Reqs) \cup Permutations(Registered)
=============================================================================
