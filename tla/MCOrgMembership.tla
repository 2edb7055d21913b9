--------------------------- MODULE MCOrgMembership ---------------------------
(* Instances of OrgMembership for TLC.                                     *)
EXTENDS OrgMembership, TLC

Symmetry == Permutations(Users) \cup Permutations(Reqs)
=============================================================================
