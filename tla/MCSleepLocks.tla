---------------------------- MODULE MCSleepLocks ----------------------------
(* SleepLocks for TLC: see MCSleepLocks.cfg for the instance. *)
EXTENDS SleepLocks
=============================================================================
