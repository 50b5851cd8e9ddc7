----------------------------- MODULE MCWatchdog -----------------------------
(* One session, in seconds scaled down: see README. *)
EXTENDS Watchdog
=============================================================================
