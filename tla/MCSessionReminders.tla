------------------------- MODULE MCSessionReminders -------------------------
(* Finite instances of SessionReminders.                                   *)
EXTENDS SessionReminders, TLC
=============================================================================
