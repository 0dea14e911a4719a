------------------------------ MODULE MCRwLock ------------------------------
(* RwLock for TLC: see MCRwLock.cfg for the instance. *)
EXTENDS RwLock
=============================================================================
