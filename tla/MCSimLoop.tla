------------------------------ MODULE MCSimLoop ------------------------------
(* A shared world with a few clients and a few commands: see README. *)
EXTENDS SimLoop
=============================================================================
