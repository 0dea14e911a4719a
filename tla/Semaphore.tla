------------------------------ MODULE Semaphore ------------------------------
(***************************************************************************)
(* The counting semaphore of womb/kernel/sync/semaphore.vuma: CAS loops    *)
(* around count, with a bounded poll while it is zero.  It has no owner:   *)
(* any task may call sema_up.                                              *)
(***************************************************************************)
EXTENDS SleepBase

CONSTANTS Initial,   \* sema_init's argument
          MaxCount   \* bound: no new sema_up is called at this count

ASSUME InitialAssumption == Initial \in Nat
ASSUME MaxCountAssumption == MaxCount \in Nat

VARIABLES s_count,  \* the CAS word
          s_waitq,  \* s.waitq_count
          s_out     \* units taken by downs that succeeded, minus ups

semaVars == <<s_count, s_waitq, s_out>>

SemaLabels == {"s_down", "s_cas", "s_add_load", "s_add_store", "s_poll",
               "s_up", "s_up_cas", "s_dec_test", "s_dec_load", "s_dec_store"}

SemaTypeOK ==
  /\ s_count \in Nat
  /\ s_waitq \in Counts
  /\ s_out \in Int

\* sema_init(s, initial)
SemaInit ==
  /\ s_count = Initial
  /\ s_waitq = 0
  /\ s_out = 0

-----------------------------------------------------------------------------
(* sema_down *)

\* The outer loop loads a positive count, or enters the slow path at zero.
SemaLoad(t) ==
  /\ IF s_count > 0 THEN Load(t, {"idle", "s_down"}, s_count, "s_cas")
                    ELSE Step(t, {"idle", "s_down"}, "s_add_load")
  /\ UNCHANGED semaVars

\* Mutant: the decremented value is stored without comparing the count.
SemaStore(t) ==
  /\ Step(t, {"s_cas"}, "idle")
  /\ s_count' = reg[t] - 1
  /\ s_out' = s_out + 1
  /\ UNCHANGED s_waitq

\* atomic_cas(s, cur, cur - 1) succeeds: return 0
SemaCasWin(t) ==
  /\ Step(t, {"s_cas"}, "idle")
  /\ s_count = reg[t]
  /\ s_count' = reg[t] - 1
  /\ s_out' = s_out + 1
  /\ UNCHANGED s_waitq

\* it fails: load again
SemaCasLose(t) ==
  /\ Step(t, {"s_cas"}, "s_down")
  /\ s_count # reg[t]
  /\ UNCHANGED semaVars

\* s.waitq_count = s.waitq_count + 1
SemaAddLoad(t) ==
  /\ Load(t, {"s_add_load"}, s_waitq, "s_add_store")
  /\ UNCHANGED semaVars

SemaAddStore(t) ==
  /\ Step(t, {"s_add_store"}, "s_poll")
  /\ s_waitq' = (reg[t] + 1) % CountMod
  /\ UNCHANGED <<s_count, s_out>>

\* The poll sees a unit: back to the outer loop.
SemaPollReady(t) ==
  /\ Step(t, {"s_poll"}, "s_down")
  /\ s_count > 0
  /\ UNCHANGED semaVars

\* Mutant: the retry counter is reset instead of advanced.
SemaPollUncapped(t) ==
  /\ Step(t, {"s_poll"}, "s_poll")
  /\ s_count = 0
  /\ UNCHANGED semaVars

\* The poll sees none; at the cap the task gives up with -11.
SemaPollZero(t) ==
  /\ Retry(t, "s_poll", "s_dec_test")
  /\ s_count = 0
  /\ UNCHANGED semaVars

-----------------------------------------------------------------------------
(* sema_up *)

SemaUpLoad(t) ==
  /\ Load(t, {"idle", "s_up"}, s_count, "s_up_cas")
  /\ pc[t] = "idle" => s_count < MaxCount
  /\ UNCHANGED semaVars

\* atomic_cas(s, cur, cur + 1) succeeds: go on to wake a waiter
SemaUpCasWin(t) ==
  /\ Step(t, {"s_up_cas"}, "s_dec_test")
  /\ s_count = reg[t]
  /\ s_count' = reg[t] + 1
  /\ s_out' = s_out - 1
  /\ UNCHANGED s_waitq

SemaUpCasLose(t) ==
  /\ Step(t, {"s_up_cas"}, "s_up")
  /\ s_count # reg[t]
  /\ UNCHANGED semaVars

\* if s.waitq_count > 0 { s.waitq_count = s.waitq_count - 1 }, the last thing
\* both sema_up and a sema_down that gives up do.
SemaDecTest(t) ==
  /\ Step(t, {"s_dec_test"}, IF s_waitq > 0 THEN "s_dec_load" ELSE "idle")
  /\ UNCHANGED semaVars

SemaDecLoad(t) ==
  /\ Load(t, {"s_dec_load"}, s_waitq, "s_dec_store")
  /\ UNCHANGED semaVars

SemaDecStore(t) ==
  /\ Step(t, {"s_dec_store"}, "idle")
  /\ s_waitq' = (reg[t] - 1) % CountMod
  /\ UNCHANGED <<s_count, s_out>>

-----------------------------------------------------------------------------
SemaStep(t) ==
  \/ SemaLoad(t) \/ SemaCasWin(t) \/ SemaCasLose(t)
  \/ SemaAddLoad(t) \/ SemaAddStore(t) \/ SemaPollReady(t) \/ SemaPollZero(t)
  \/ SemaUpLoad(t) \/ SemaUpCasWin(t) \/ SemaUpCasLose(t)
  \/ SemaDecTest(t) \/ SemaDecLoad(t) \/ SemaDecStore(t)

-----------------------------------------------------------------------------
\* No unit is lost or invented by concurrent downs and ups: what is left in
\* the count and what is out always add up to the initial count, and no
\* sema_down ever takes the count below zero.
UnitsConserved == s_count + s_out = Initial /\ s_count >= 0

\* The CAS loops have no cap, so one caller may lose every race; but a call
\* that never returns means that other calls keep changing the count.
SemaLockFree ==
  \A t \in Tasks :
    <>[](pc[t] \in SemaLabels) => []<><<s_count' # s_count>>_s_count
=============================================================================
