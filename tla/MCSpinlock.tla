---------------------------- MODULE MCSpinlock ----------------------------
(* Spinlock with two CPUs, for TLC. *)
EXTENDS Spinlock
=============================================================================
