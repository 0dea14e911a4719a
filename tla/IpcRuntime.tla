----------------------------- MODULE IpcRuntime -----------------------------
(***************************************************************************)
(* Two parts of the IPC runtime library that share no state: a set of      *)
(* capabilities, and a supervised worker behind a circuit breaker.  A      *)
(* behaviour exercises one of them, named by `library`.                    *)
(***************************************************************************)
EXTENDS Capabilities, Supervision

VARIABLE library

vars == <<capVars, supVars, library>>

TypeOK ==
  /\ CapTypeOK /\ SupTypeOK
  /\ library \in {"capabilities", "supervision"}

Init ==
  /\ CapInit /\ SupInit
  /\ library \in {"capabilities", "supervision"}

Next ==
  /\ \/ library = "capabilities" /\ CapNext /\ UNCHANGED supVars
     \/ library = "supervision" /\ SupNext /\ UNCHANGED capVars
  /\ UNCHANGED library

\* The callers' fairness is asked for only where they run.
Spec ==
  /\ Init /\ [][Next]_vars
  /\ library = "supervision" => SupFairness

==============================================================================
