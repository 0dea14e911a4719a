----------------------------- MODULE Supervision -----------------------------
(***************************************************************************)
(* The Supervisor and the CircuitBreaker of codegen/src/ipc.rs around one  *)
(* worker: the supervisor restarts a worker that crashes until its budget  *)
(* is used up, and callers go through the breaker, which stops letting     *)
(* them through when calls keep failing.                                   *)
(*                                                                         *)
(* A call is not atomic: can_proceed is asked before it, and its outcome   *)
(* is recorded after it.  In between the worker may answer, crash and be   *)
(* restarted, and other callers may move the breaker.                      *)
(***************************************************************************)
EXTENDS Integers

CONSTANTS Callers,      \* the threads that call the worker
          MaxRestarts,  \* Supervisor.max_restarts
          Threshold,    \* CircuitBreaker.threshold
          MaxResets     \* bound: how often the breaker is reset from outside

ASSUME SupervisionAssumptions ==
  /\ MaxRestarts \in Nat
  /\ Threshold \in Nat
  /\ MaxResets \in Nat

VARIABLES
  worker,    \* the process: up, crashed, finished, or down (given up)
  tracked,   \* whether the supervisor tracks it
  entry,     \* its WorkerState: is_alive, restart_count
  breaker,   \* the breaker: state, failure_count
  call,      \* per caller: idle, calling, answered
  resets,    \* how often the breaker was reset
  restarts   \* history: restarts since the worker was registered

supVars == <<worker, tracked, entry, breaker, call, resets, restarts>>

Fresh == [is_alive |-> TRUE, restart_count |-> 0]

SupTypeOK ==
  /\ worker \in {"up", "crashed", "finished", "down"}
  /\ tracked \in BOOLEAN
  /\ entry \in [is_alive : BOOLEAN, restart_count : Nat]
  /\ breaker \in [state : {"Closed", "Open", "HalfOpen"}, failure_count : Nat]
  /\ call \in [Callers -> {"idle", "calling", "answered"}]
  /\ resets \in 0 .. MaxResets
  /\ restarts \in Nat

SupInit ==
  /\ worker = "up"
  /\ tracked = TRUE
  /\ entry = Fresh
  /\ breaker = [state |-> "Closed", failure_count |-> 0]
  /\ call = [c \in Callers |-> "idle"]
  /\ resets = 0
  /\ restarts = 0

------------------------------------------------------------------------------
(* The worker and the supervisor. *)

\* The worker dies, or returns from its job.
WorkerExits ==
  /\ worker = "up"
  /\ worker' \in {"crashed", "finished"}
  /\ UNCHANGED <<tracked, entry, breaker, call, resets, restarts>>

\* Mutant: one restart too many.
HasBudgetOrLess == MaxRestarts # 0 /\ entry.restart_count <= MaxRestarts

\* should_restart and the budget of handle_worker_exit.
HasBudget == MaxRestarts # 0 /\ entry.restart_count < MaxRestarts

\* handle_worker_exit answers Restart, and the worker is started again.
HandleRestart ==
  /\ worker = "crashed" /\ tracked /\ HasBudget
  /\ entry' = [is_alive |-> TRUE, restart_count |-> entry.restart_count + 1]
  /\ restarts' = restarts + 1
  /\ worker' = "up"
  /\ UNCHANGED <<tracked, breaker, call, resets>>

\* handle_worker_exit answers Terminate or Escalate.
HandleGivesUp ==
  /\ worker = "finished" \/ (worker = "crashed" /\ ~HasBudget)
  /\ tracked
  /\ entry' = [entry EXCEPT !.is_alive = FALSE]
  /\ worker' = "down"
  /\ UNCHANGED <<tracked, breaker, call, resets, restarts>>

\* unregister_worker; its exit is then answered with WorkerNotFound.
Unregister ==
  /\ tracked
  /\ tracked' = FALSE
  /\ UNCHANGED <<worker, entry, breaker, call, resets, restarts>>

\* register_worker, which does nothing to a worker that is tracked.
Register ==
  /\ ~tracked
  /\ tracked' = TRUE
  /\ entry' = Fresh
  /\ restarts' = 0
  /\ UNCHANGED <<worker, breaker, call, resets>>

------------------------------------------------------------------------------
(* The breaker and its callers. *)

CanProceed == breaker.state # "Open"

Proceed(c) ==
  /\ call[c] = "idle"
  /\ CanProceed
  /\ call' = [call EXCEPT ![c] = "calling"]
  /\ UNCHANGED <<worker, tracked, entry, breaker, resets, restarts>>

\* The worker answers; the caller has not recorded it yet.
Answer(c) ==
  /\ call[c] = "calling" /\ worker = "up"
  /\ call' = [call EXCEPT ![c] = "answered"]
  /\ UNCHANGED <<worker, tracked, entry, breaker, resets, restarts>>

RecordSuccess(c) ==
  /\ call[c] = "answered"
  /\ breaker' = [state |-> "Closed", failure_count |-> 0]
  /\ call' = [call EXCEPT ![c] = "idle"]
  /\ UNCHANGED <<worker, tracked, entry, resets, restarts>>

\* Mutant: a failed trial leaves the breaker half open.
FailedStaysHalfOpen ==
  LET n == breaker.failure_count + 1 IN
  CASE breaker.state = "Closed" ->
         [state |-> IF n > Threshold THEN "Open" ELSE "Closed",
          failure_count |-> n]
    [] OTHER -> breaker

\* The breaker after record_failure.
Failed ==
  LET n == breaker.failure_count + 1 IN
  CASE breaker.state = "Closed" ->
         [state |-> IF n > Threshold THEN "Open" ELSE "Closed",
          failure_count |-> n]
    [] breaker.state = "HalfOpen" -> [state |-> "Open", failure_count |-> n]
    [] breaker.state = "Open" -> breaker

\* The call fails: the worker does not run, or does not answer in time.
RecordFailure(c) ==
  /\ call[c] = "calling"
  /\ breaker' = Failed
  /\ call' = [call EXCEPT ![c] = "idle"]
  /\ UNCHANGED <<worker, tracked, entry, resets, restarts>>

\* reset, from outside; it does nothing to a breaker that is not open.
Reset ==
  /\ resets < MaxResets
  /\ breaker.state = "Open"
  /\ breaker' = [breaker EXCEPT !.state = "HalfOpen"]
  /\ resets' = resets + 1
  /\ UNCHANGED <<worker, tracked, entry, call, restarts>>

SupNext ==
  \/ WorkerExits \/ HandleRestart \/ HandleGivesUp \/ Unregister \/ Register
  \/ Reset
  \/ \E c \in Callers : \/ Proceed(c) \/ Answer(c)
                        \/ RecordSuccess(c) \/ RecordFailure(c)

SupSpec == SupInit /\ [][SupNext]_supVars

\* Callers keep calling as long as they may, and their calls end.
SupFairness ==
  \A c \in Callers : /\ WF_supVars(Proceed(c))
                     /\ WF_supVars(RecordSuccess(c) \/ RecordFailure(c))

------------------------------------------------------------------------------
(* Properties. *)

\* A worker is restarted at most max_restarts times as long as it stays
\* registered, and is given up after a crash only when all of them were
\* used, whatever calls, re-registrations and clean exits come between.
RestartBudget ==
  [][/\ restarts' <= MaxRestarts
     /\ worker = "crashed" /\ worker' = "down" => restarts = MaxRestarts]_supVars

\* Callers stop hammering a dead worker: once it is down for good the
\* breaker ends up open, and stays open, though answers the worker gave
\* before it died are recorded late and close it again, and though it is
\* reset a number of times.
BreakerOpens == (worker = "down") ~> [](breaker.state = "Open")

==============================================================================
