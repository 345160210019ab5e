--------------------------- MODULE MCNotifications ---------------------------
(***************************************************************************)
(* The instance of Notifications for TLC: a measure and a system, the      *)
(* hourly repetition beside one an administrator asks for.                 *)
(***************************************************************************)
EXTENDS Notifications

CONSTANTS m1, s1, beat, admin

MCMeasures == {m1}
MCSystems == {s1}
MCRetriers == {beat, admin}

=============================================================================
