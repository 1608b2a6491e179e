------------------------ MODULE MCNotificationOutbox ------------------------
(***************************************************************************)
(* Instances of NotificationOutbox for TLC.                                *)
(***************************************************************************)
EXTENDS NotificationOutbox, TLC

CONSTANTS n1, n2, n3, j1, j2, j3

Symmetry == Permutations(Notifiers) \cup Permutations(JobIds)
=============================================================================
