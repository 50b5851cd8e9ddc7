-------------------------- MODULE MCLocationSearch --------------------------
(* The search over the whole transport, with few commands: see README. *)
EXTENDS LocationSearch
=============================================================================
