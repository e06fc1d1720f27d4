----------------------- MODULE MCPassiveNotifications -----------------------
(* PassiveNotifications on a small instance.                               *)
EXTENDS PassiveNotifications
CONSTANTS n1, n2
MCNotes2 == {n1, n2}
=============================================================================
