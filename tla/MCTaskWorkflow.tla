--------------------------- MODULE MCTaskWorkflow ---------------------------
(* Instances of TaskWorkflow for TLC.                                      *)
EXTENDS TaskWorkflow, TLC

Symmetry == Permutations(Reqs) \cup Permutations(Registered)
=============================================================================
