----------------------------- MODULE SleepLocks -----------------------------
(***************************************************************************)
(* Tasks that use one mutex and one semaphore in any order and nesting,    *)
(* for example mutex-then-semaphore in one task and semaphore-then-mutex   *)
(* in another.                                                             *)
(***************************************************************************)
EXTENDS Mutex, Semaphore

vars == <<localVars, mutexVars, semaVars>>

Labels == {"idle"} \cup MutexLabels \cup SemaLabels

TypeOK == LocalTypeOK(Labels) /\ MutexTypeOK /\ SemaTypeOK

Init == LocalInit /\ MutexInit /\ SemaInit

MutexNext(t) == (MutexCall(t) \/ MutexStep(t)) /\ UNCHANGED semaVars
SemaNext(t) == SemaStep(t) /\ UNCHANGED mutexVars

Next == \E t \in Tasks : MutexNext(t) \/ SemaNext(t)

\* A task inside a call keeps running.  Nothing makes a task start a call:
\* a holder may keep what it holds for ever.
InCall(t) == pc[t] # "idle" /\ (MutexNext(t) \/ SemaNext(t))

Fairness == \A t \in Tasks : WF_vars(InCall(t))

Spec == Init /\ [][Next]_vars
FairSpec == Spec /\ Fairness
=============================================================================
