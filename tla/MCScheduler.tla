---------------------------- MODULE MCScheduler ----------------------------
(* Scheduler for TLC. *)
EXTENDS Scheduler
MCIncs == {-1, 2}
=============================================================================
