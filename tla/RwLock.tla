------------------------------- MODULE RwLock -------------------------------
(***************************************************************************)
(* The reader-writer lock of womb/kernel/sync/rwlock.vuma.  readers and    *)
(* writer are the two halves of one word, so that a CAS on the word        *)
(* changes and tests both; l.writer reads the high half alone.             *)
(*                                                                         *)
(* The lock does not know its holders.  Its callers are taken to pair      *)
(* their calls, and a task to have at most one read hold at a time; it may *)
(* ask for a write hold while it reads.                                    *)
(***************************************************************************)
EXTENDS SleepBase, FiniteSets

CONSTANT Half   \* the weight of the high half, 2^32 in the code

\* Fewer tasks than the low half can count: the code has at most 256.
ASSUME HalfAssumption ==
  /\ IsFiniteSet(Tasks)
  /\ Half \in Nat
  /\ Cardinality(Tasks) < Half

VARIABLES word,     \* readers + Half * writer
          l_waitq,  \* l.waitq_count
          r_own,    \* the tasks with a read hold, from CAS to CAS
          w_own     \* the tasks with a write hold, from CAS to store

rwVars == <<word, l_waitq, r_own, w_own>>
rwAllVars == <<localVars, rwVars>>

ReadLabels  == {"r_check", "r_add_load", "r_add_store", "r_poll", "r_load", "r_cas"}
WriteLabels == {"w_load", "w_cas", "w_add_load", "w_add_store", "w_poll"}
RwLabels == {"idle", "rr_load", "rr_cas", "l_dec_test", "l_dec_load", "l_dec_store"}
            \cup ReadLabels \cup WriteLabels

RwTypeOK ==
  /\ LocalTypeOK(RwLabels)
  /\ word \in 0..Half
  /\ l_waitq \in Counts
  /\ r_own \subseteq Tasks
  /\ w_own \subseteq Tasks

\* rwlock_init.  write_waitq is never touched afterwards and is left out.
RwInit ==
  /\ LocalInit
  /\ word = 0
  /\ l_waitq = 0
  /\ r_own = {}
  /\ w_own = {}

WriterPart(w) == w \div Half

-----------------------------------------------------------------------------
(* rwlock_read_acquire *)

\* The plain read of l.writer at the head of the loop.
ReadCheck(t) ==
  /\ Step(t, {"idle", "r_check"},
          IF WriterPart(word) # 0 THEN "r_add_load" ELSE "r_load")
  /\ t \notin r_own
  /\ UNCHANGED rwVars

ReadAddLoad(t) ==
  /\ Load(t, {"r_add_load"}, l_waitq, "r_add_store")
  /\ UNCHANGED rwVars

ReadAddStore(t) ==
  /\ Step(t, {"r_add_store"}, "r_poll")
  /\ l_waitq' = (reg[t] + 1) % CountMod
  /\ UNCHANGED <<word, r_own, w_own>>

\* The poll of l.writer: no writer, go on to the CAS ...
ReadPollReady(t) ==
  /\ Step(t, {"r_poll"}, "r_load")
  /\ WriterPart(word) = 0
  /\ UNCHANGED rwVars

\* ... or one more retry, up to the cap and -11.
ReadPollBusy(t) ==
  /\ Retry(t, "r_poll", "l_dec_test")
  /\ WriterPart(word) # 0
  /\ UNCHANGED rwVars

\* Mutant: the writer half of the loaded word is not looked at.
ReadLoadUnchecked(t) ==
  /\ Load(t, {"r_load"}, word, "r_cas")
  /\ UNCHANGED rwVars

\* The word is loaded whole; a writer that came in meanwhile restarts the loop.
ReadLoad(t) ==
  /\ IF WriterPart(word) = 0 THEN Load(t, {"r_load"}, word, "r_cas")
                             ELSE Step(t, {"r_load"}, "r_check")
  /\ UNCHANGED rwVars

\* Mutant: cur + 1 is stored without comparing the word.
ReadStore(t) ==
  /\ Step(t, {"r_cas"}, "idle")
  /\ word' = reg[t] + 1
  /\ r_own' = r_own \cup {t}
  /\ UNCHANGED <<l_waitq, w_own>>

\* CAS(cur, cur + 1)
ReadCasWin(t) ==
  /\ Step(t, {"r_cas"}, "idle")
  /\ word = reg[t]
  /\ word' = reg[t] + 1
  /\ r_own' = r_own \cup {t}
  /\ UNCHANGED <<l_waitq, w_own>>

ReadCasLose(t) ==
  /\ Step(t, {"r_cas"}, "r_check")
  /\ word # reg[t]
  /\ UNCHANGED rwVars

-----------------------------------------------------------------------------
(* rwlock_read_release; at 0 there is nothing to give back. *)

ReadReleaseLoad(t) ==
  /\ t \in r_own
  /\ IF word > 0 THEN Load(t, {"idle", "rr_load"}, word, "rr_cas")
                 ELSE Step(t, {"idle", "rr_load"}, "l_dec_test")
  /\ UNCHANGED rwVars

\* CAS(cur, cur - 1)
ReadReleaseCasWin(t) ==
  /\ Step(t, {"rr_cas"}, "l_dec_test")
  /\ word = reg[t]
  /\ word' = reg[t] - 1
  /\ r_own' = r_own \ {t}
  /\ UNCHANGED <<l_waitq, w_own>>

ReadReleaseCasLose(t) ==
  /\ Step(t, {"rr_cas"}, "rr_load")
  /\ word # reg[t]
  /\ UNCHANGED rwVars

-----------------------------------------------------------------------------
(* rwlock_write_acquire *)

\* Both halves zero: try the CAS.  Else the slow path.
WriteLoad(t) ==
  /\ Step(t, {"idle", "w_load"}, IF word = 0 THEN "w_cas" ELSE "w_add_load")
  /\ UNCHANGED rwVars

\* CAS(0, 2^32)
WriteCasWin(t) ==
  /\ Step(t, {"w_cas"}, "idle")
  /\ word = 0
  /\ word' = Half
  /\ w_own' = w_own \cup {t}
  /\ UNCHANGED <<l_waitq, r_own>>

WriteCasLose(t) ==
  /\ Step(t, {"w_cas"}, "w_load")
  /\ word # 0
  /\ UNCHANGED rwVars

WriteAddLoad(t) ==
  /\ Load(t, {"w_add_load"}, l_waitq, "w_add_store")
  /\ UNCHANGED rwVars

WriteAddStore(t) ==
  /\ Step(t, {"w_add_store"}, "w_poll")
  /\ l_waitq' = (reg[t] + 1) % CountMod
  /\ UNCHANGED <<word, r_own, w_own>>

WritePollReady(t) ==
  /\ Step(t, {"w_poll"}, "w_load")
  /\ word = 0
  /\ UNCHANGED rwVars

\* Mutant: the retry counter is reset instead of advanced.
WritePollUncapped(t) ==
  /\ Step(t, {"w_poll"}, "w_poll")
  /\ word # 0
  /\ UNCHANGED rwVars

WritePollBusy(t) ==
  /\ Retry(t, "w_poll", "l_dec_test")
  /\ word # 0
  /\ UNCHANGED rwVars

-----------------------------------------------------------------------------
(* rwlock_write_release: atomic_store(l, 0) *)

WriteRelease(t) ==
  /\ t \in w_own
  /\ Step(t, {"idle"}, "l_dec_test")
  /\ word' = 0
  /\ w_own' = w_own \ {t}
  /\ UNCHANGED <<l_waitq, r_own>>

-----------------------------------------------------------------------------
(* if l.waitq_count > 0 { l.waitq_count = l.waitq_count - 1 }, the last    *)
(* thing both releases, and both acquires that give up, do.                *)

RwDecTest(t) ==
  /\ Step(t, {"l_dec_test"}, IF l_waitq > 0 THEN "l_dec_load" ELSE "idle")
  /\ UNCHANGED rwVars

RwDecLoad(t) ==
  /\ Load(t, {"l_dec_load"}, l_waitq, "l_dec_store")
  /\ UNCHANGED rwVars

RwDecStore(t) ==
  /\ Step(t, {"l_dec_store"}, "idle")
  /\ l_waitq' = (reg[t] - 1) % CountMod
  /\ UNCHANGED <<word, r_own, w_own>>

-----------------------------------------------------------------------------
ReadAcquire(t) ==
  \/ ReadCheck(t) \/ ReadAddLoad(t) \/ ReadAddStore(t) \/ ReadPollReady(t)
  \/ ReadPollBusy(t) \/ ReadLoad(t) \/ ReadCasWin(t) \/ ReadCasLose(t)

ReadRelease(t) ==
  \/ ReadReleaseLoad(t) \/ ReadReleaseCasWin(t) \/ ReadReleaseCasLose(t)

WriteAcquire(t) ==
  \/ WriteLoad(t) \/ WriteCasWin(t) \/ WriteCasLose(t) \/ WriteAddLoad(t)
  \/ WriteAddStore(t) \/ WritePollReady(t) \/ WritePollBusy(t)

Wake(t) == RwDecTest(t) \/ RwDecLoad(t) \/ RwDecStore(t)

TaskStep(t) ==
  \/ ReadAcquire(t) \/ ReadRelease(t) \/ WriteAcquire(t) \/ WriteRelease(t)
  \/ Wake(t)

RwNext == \E t \in Tasks : TaskStep(t)

\* A task inside a call keeps running; nobody has to call.
RwFairness == \A t \in Tasks : WF_rwAllVars(pc[t] # "idle" /\ TaskStep(t))

RwSpec == RwInit /\ [][RwNext]_rwAllVars
RwFairSpec == RwSpec /\ RwFairness

-----------------------------------------------------------------------------
\* Writers exclude readers and each other.
RwExclusion ==
  /\ w_own # {} => r_own = {}
  /\ \A t, u \in w_own : t = u

\* The word is exact: it counts the read holds, or says there is a writer.
\* So no hold is lost to a concurrent CAS and the defensive "already 0" path
\* of read_release is never taken by a task that reads.
WordCountsHolders ==
  word = IF w_own = {} THEN Cardinality(r_own) ELSE Half

\* A call that never returns is overtaken for ever: other calls keep changing
\* the word.  In particular readers that all ask for the write hold, or a
\* reader behind a writer that never releases, get -EAGAIN.
RwLockFree ==
  \A t \in Tasks : <>[](pc[t] # "idle") => []<><<word' # word>>_word
=============================================================================
