------------------------- MODULE MCAttachmentStorage -------------------------
(* Instances of AttachmentStorage for TLC.                                 *)
EXTENDS AttachmentStorage, TLC

Symmetry == Permutations(Keys) \cup Permutations(Reqs)
=============================================================================
