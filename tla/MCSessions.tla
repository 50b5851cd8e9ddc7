----------------------------- MODULE MCSessions -----------------------------
(* Three visitors for one slot and a line of two: see README. *)
EXTENDS Sessions
=============================================================================
