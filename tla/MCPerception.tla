---------------------------- MODULE MCPerception ----------------------------
(* A few frames, one reconnect and one swap: see README. *)
EXTENDS Perception
=============================================================================
