------------------------- MODULE MCNotificationQueue -------------------------
(* Instances of NotificationQueue for TLC.                                 *)
EXTENDS NotificationQueue, TLC

Symmetry == Permutations(Events) \cup Permutations(Slots)
=============================================================================
