----------------------------- MODULE KernelParts -----------------------------
(***************************************************************************)
(* Parts of the kernel that share no state and call none of each other's   *)
(* functions: the process table, a wait queue, a signal table and the page *)
(* allocator.  A behaviour exercises one of them, named by `part`.         *)
(***************************************************************************)
EXTENDS Process, WaitQueue, Signals, Pmm

VARIABLE part

vars == <<procVars, wqVars, sigVars, pmmVars, part>>

Parts == {"process", "waitq", "signal", "memory"}

TypeOK ==
  /\ ProcTypeOK /\ WqTypeOK /\ SigTypeOK /\ PmmTypeOK
  /\ part \in Parts

\* The start of the memory matters to no other part.
Init ==
  /\ ProcInit /\ WqInit /\ SigInit /\ PmmInit
  /\ part \in Parts
  /\ part # "memory" => \A s \in Starts : start <= s

Next ==
  /\ \/ part = "process" /\ ProcNext /\ UNCHANGED <<wqVars, sigVars, pmmVars>>
     \/ part = "waitq" /\ WqNext /\ UNCHANGED <<procVars, sigVars, pmmVars>>
     \/ part = "signal" /\ SigNext /\ UNCHANGED <<procVars, wqVars, pmmVars>>
     \/ part = "memory" /\ PmmNext /\ UNCHANGED <<procVars, wqVars, sigVars>>
  /\ UNCHANGED part

\* WF_procVars and SF_procVars hold trivially where another part runs.
Spec == Init /\ [][Next]_vars /\ ProcFairness

==============================================================================
