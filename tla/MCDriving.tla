----------------------------- MODULE MCDriving -----------------------------
(* One browser, one world, two key presses or requests.  See README. *)
EXTENDS Driving
=============================================================================
