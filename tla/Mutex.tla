-------------------------------- MODULE Mutex --------------------------------
(***************************************************************************)
(* The mutex of womb/kernel/sync/mutex.vuma: a CAS, a bounded retry loop   *)
(* that gives up with -EAGAIN, and an ownership-checked release.           *)
(***************************************************************************)
EXTENDS SleepBase

VARIABLES m_locked,  \* the CAS word
          m_owner,   \* m.owner
          m_waitq,   \* m.waitq_count
          m_held     \* the tasks whose acquire returned 0 and that have not
                     \* begun to release

mutexVars == <<m_locked, m_owner, m_waitq, m_held>>

MutexLabels == {"m_own", "m_add_load", "m_add_store", "m_retry", "m_unlock",
                "m_dec_test", "m_dec_load", "m_dec_store"}

MutexTypeOK ==
  /\ m_locked \in {0, 1}
  /\ m_owner \in Tasks \cup {NoTask}
  /\ m_waitq \in Counts
  /\ m_held \subseteq Tasks

\* mutex_init
MutexInit ==
  /\ m_locked = 0
  /\ m_owner = NoTask
  /\ m_waitq = 0
  /\ m_held = {}

-----------------------------------------------------------------------------
(* mutex_acquire.  A task may call it while it owns the mutex: the mutex   *)
(* is not recursive and the call runs into the retry cap.                  *)

\* Mutant: a load that sees 0 and a later store, instead of a CAS.
MutexFastNoCas(t) ==
  /\ Step(t, {"idle"}, "m_own")
  /\ m_locked' = 1
  /\ UNCHANGED <<m_owner, m_waitq, m_held>>

\* The fast path's CAS finds 0.
MutexFast(t) ==
  /\ Step(t, {"idle"}, "m_own")
  /\ m_locked = 0
  /\ m_locked' = 1
  /\ UNCHANGED <<m_owner, m_waitq, m_held>>

\* The fast path's CAS finds 1: enter the slow path.
MutexContended(t) ==
  /\ Step(t, {"idle"}, "m_add_load")
  /\ m_locked = 1
  /\ UNCHANGED mutexVars

\* m.waitq_count = m.waitq_count + 1
MutexAddLoad(t) ==
  /\ Load(t, {"m_add_load"}, m_waitq, "m_add_store")
  /\ UNCHANGED mutexVars

MutexAddStore(t) ==
  /\ Step(t, {"m_add_store"}, "m_retry")
  /\ m_waitq' = (reg[t] + 1) % CountMod
  /\ UNCHANGED <<m_locked, m_owner, m_held>>

\* The retry loop's CAS finds 0 ...
MutexRetryWin(t) ==
  /\ Step(t, {"m_retry"}, "m_own")
  /\ m_locked = 0
  /\ m_locked' = 1
  /\ UNCHANGED <<m_owner, m_waitq, m_held>>

\* Mutant: the retry counter is reset instead of advanced.
MutexRetryUncapped(t) ==
  /\ Step(t, {"m_retry"}, "m_retry")
  /\ m_locked = 1
  /\ UNCHANGED mutexVars

\* ... or 1; at the cap the task takes itself off the count and returns -11.
MutexRetryFail(t) ==
  /\ Retry(t, "m_retry", "m_dec_test")
  /\ m_locked = 1
  /\ UNCHANGED mutexVars

\* m.owner = task_idx; return 0
MutexOwn(t) ==
  /\ Step(t, {"m_own"}, "idle")
  /\ m_owner' = t
  /\ m_held' = m_held \cup {t}
  /\ UNCHANGED <<m_locked, m_waitq>>

-----------------------------------------------------------------------------
(* mutex_release; a caller that is not the owner changes nothing. *)

\* Mutant: the ownership test is dropped.
MutexDisownAny(t) ==
  /\ Step(t, {"idle"}, "m_unlock")
  /\ m_owner' = NoTask
  /\ m_held' = m_held \ {t}
  /\ UNCHANGED <<m_locked, m_waitq>>

MutexDisown(t) ==
  /\ Step(t, {"idle"}, "m_unlock")
  /\ m_owner = t
  /\ m_owner' = NoTask
  /\ m_held' = m_held \ {t}
  /\ UNCHANGED <<m_locked, m_waitq>>

\* atomic_store(m, 0)
MutexUnlock(t) ==
  /\ Step(t, {"m_unlock"}, "m_dec_test")
  /\ m_locked' = 0
  /\ UNCHANGED <<m_owner, m_waitq, m_held>>

\* if m.waitq_count > 0 { m.waitq_count = m.waitq_count - 1 }, the last thing
\* both mutex_release and a mutex_acquire that gives up do.
MutexDecTest(t) ==
  /\ Step(t, {"m_dec_test"}, IF m_waitq > 0 THEN "m_dec_load" ELSE "idle")
  /\ UNCHANGED mutexVars

MutexDecLoad(t) ==
  /\ Load(t, {"m_dec_load"}, m_waitq, "m_dec_store")
  /\ UNCHANGED mutexVars

MutexDecStore(t) ==
  /\ Step(t, {"m_dec_store"}, "idle")
  /\ m_waitq' = (reg[t] - 1) % CountMod
  /\ UNCHANGED <<m_locked, m_owner, m_held>>

-----------------------------------------------------------------------------
MutexCall(t) == MutexFast(t) \/ MutexContended(t) \/ MutexDisown(t)

MutexStep(t) ==
  \/ MutexAddLoad(t) \/ MutexAddStore(t)
  \/ MutexRetryWin(t) \/ MutexRetryFail(t) \/ MutexOwn(t)
  \/ MutexUnlock(t)
  \/ MutexDecTest(t) \/ MutexDecLoad(t) \/ MutexDecStore(t)

-----------------------------------------------------------------------------
\* A task has the mutex from its winning CAS to its store of 0.
MutexOwns(t) == t \in m_held \/ pc[t] \in {"m_own", "m_unlock"}

\* At most one task has the mutex, on the fast path or through the retries.
MutexExclusion == \A t, u \in Tasks : MutexOwns(t) /\ MutexOwns(u) => t = u

\* The mutex is never orphaned: the word is 1 only while some task has the
\* mutex, and a task that was told it has it is the recorded owner, so the
\* ownership test of its mutex_release lets it through.
MutexNotOrphaned ==
  /\ m_locked = 1 <=> \E t \in Tasks : MutexOwns(t)
  /\ \A t \in Tasks : t \in m_held <=> m_owner = t

\* "a deadlocked holder can't hang the acquirer forever": a call of
\* mutex_acquire or mutex_release returns, though no holder need ever release,
\* not even the caller itself.
MutexCallsReturn ==
  \A t \in Tasks : pc[t] \in MutexLabels ~> pc[t] = "idle"
=============================================================================
