------------------------- MODULE LocksRuntimeProofs --------------------------
(***************************************************************************)
(* Proofs about the sleeping locks of the kernel: tasks that share a mutex *)
(* and a semaphore, for any set of tasks, any retry cap, any counter width *)
(* and any initial count; and the reader-writer lock, for any finite set   *)
(* of tasks, any retry cap and any width of the word that can count them.  *)
(* Then about the IPC runtime library: a supervised worker, for any        *)
(* restart budget, any breaker threshold and any set of callers; and a set *)
(* of capabilities, for any processes, rights and depth of delegation.     *)
(***************************************************************************)
EXTENDS SleepLocks, RwLock, Capabilities, Supervision, SequenceTheorems,
        FiniteSetTheorems, WellFoundedInduction, TLAPS


\* The winner of a CAS, or a task dropping the word, is not in m_held: else
\* its store of 0 would free a mutex that it was told it still has.
WinnersNotHeld == \A t \in Tasks : pc[t] \in {"m_own", "m_unlock"} => t \notin m_held

\* MutexNotOrphaned, one direction at a time.
OwnedIsLocked == \A t \in Tasks : MutexOwns(t) => m_locked = 1
LockedIsOwned == m_locked = 1 => \E t \in Tasks : MutexOwns(t)
HeldIsOwner   == \A t \in Tasks : t \in m_held <=> m_owner = t

MutexInv ==
  /\ MutexExclusion
  /\ WinnersNotHeld
  /\ OwnedIsLocked
  /\ LockedIsOwned
  /\ HeldIsOwner

\* A decrement is only attempted from a positive count.
DownsLoadUnits == \A t \in Tasks : pc[t] = "s_cas" => reg[t] > 0

\* A task polls only below the cap.
RetriesBelowCap == \A t \in Tasks : pc[t] \in {"m_retry", "s_poll"} => retries[t] < MaxRetries

TypeInv == TypeOK /\ DownsLoadUnits /\ RetriesBelowCap

LEMMA ModType == ASSUME NEW n \in Int PROVE n % CountMod \in Counts
  BY CountModAssumption DEF Counts

LEMMA CountsNat == Counts \subseteq Nat
  BY CountModAssumption DEF Counts

LEMMA InitTypeInv == Init => TypeInv
  BY InitialAssumption, CountModAssumption, MaxRetriesAssumption, SMTT(30)
  DEF Init, LocalInit, MutexInit, SemaInit, TypeInv, TypeOK, LocalTypeOK, Labels,
      MutexTypeOK, SemaTypeOK, Counts, DownsLoadUnits, RetriesBelowCap

\* Types survive every step of either lock.
LEMMA StepTypeInv == TypeInv /\ [Next]_vars => TypeInv'
<1> SUFFICES ASSUME TypeInv, [Next]_vars PROVE TypeInv'
  OBVIOUS
<1> USE NoTaskAssumption, MaxRetriesAssumption, ModType, CountsNat
    DEF TypeInv, TypeOK, LocalTypeOK, Labels, MutexLabels, SemaLabels,
        MutexTypeOK, SemaTypeOK, DownsLoadUnits, RetriesBelowCap,
        Goto, Step, Load, Retry, mutexVars, semaVars
<1>1. ASSUME NEW t \in Tasks, MutexFast(t), UNCHANGED semaVars PROVE TypeInv'
  BY <1>1 DEF MutexFast
<1>2. ASSUME NEW t \in Tasks, MutexContended(t), UNCHANGED semaVars PROVE TypeInv'
  BY <1>2 DEF MutexContended
<1>3. ASSUME NEW t \in Tasks, MutexDisown(t), UNCHANGED semaVars PROVE TypeInv'
  BY <1>3 DEF MutexDisown
<1>4. ASSUME NEW t \in Tasks, MutexAddLoad(t), UNCHANGED semaVars PROVE TypeInv'
  BY <1>4 DEF MutexAddLoad
<1>5. ASSUME NEW t \in Tasks, MutexAddStore(t), UNCHANGED semaVars PROVE TypeInv'
  BY <1>5 DEF MutexAddStore
<1>6. ASSUME NEW t \in Tasks, MutexRetryWin(t), UNCHANGED semaVars PROVE TypeInv'
  BY <1>6 DEF MutexRetryWin
<1>7. ASSUME NEW t \in Tasks, MutexRetryFail(t), UNCHANGED semaVars PROVE TypeInv'
  BY <1>7 DEF MutexRetryFail
<1>8. ASSUME NEW t \in Tasks, MutexOwn(t), UNCHANGED semaVars PROVE TypeInv'
  BY <1>8 DEF MutexOwn
<1>9. ASSUME NEW t \in Tasks, MutexUnlock(t), UNCHANGED semaVars PROVE TypeInv'
  BY <1>9 DEF MutexUnlock
<1>10. ASSUME NEW t \in Tasks, MutexDecTest(t), UNCHANGED semaVars PROVE TypeInv'
  BY <1>10 DEF MutexDecTest
<1>11. ASSUME NEW t \in Tasks, MutexDecLoad(t), UNCHANGED semaVars PROVE TypeInv'
  BY <1>11 DEF MutexDecLoad
<1>12. ASSUME NEW t \in Tasks, MutexDecStore(t), UNCHANGED semaVars PROVE TypeInv'
  BY <1>12 DEF MutexDecStore
<1>13. ASSUME NEW t \in Tasks, SemaLoad(t), UNCHANGED mutexVars PROVE TypeInv'
  BY <1>13 DEF SemaLoad
<1>14. ASSUME NEW t \in Tasks, SemaCasWin(t), UNCHANGED mutexVars PROVE TypeInv'
  BY <1>14 DEF SemaCasWin
<1>15. ASSUME NEW t \in Tasks, SemaCasLose(t), UNCHANGED mutexVars PROVE TypeInv'
  BY <1>15 DEF SemaCasLose
<1>16. ASSUME NEW t \in Tasks, SemaAddLoad(t), UNCHANGED mutexVars PROVE TypeInv'
  BY <1>16 DEF SemaAddLoad
<1>17. ASSUME NEW t \in Tasks, SemaAddStore(t), UNCHANGED mutexVars PROVE TypeInv'
  BY <1>17 DEF SemaAddStore
<1>18. ASSUME NEW t \in Tasks, SemaPollReady(t), UNCHANGED mutexVars PROVE TypeInv'
  BY <1>18 DEF SemaPollReady
<1>19. ASSUME NEW t \in Tasks, SemaPollZero(t), UNCHANGED mutexVars PROVE TypeInv'
  BY <1>19 DEF SemaPollZero
<1>20. ASSUME NEW t \in Tasks, SemaUpLoad(t), UNCHANGED mutexVars PROVE TypeInv'
  BY <1>20 DEF SemaUpLoad
<1>21. ASSUME NEW t \in Tasks, SemaUpCasWin(t), UNCHANGED mutexVars PROVE TypeInv'
  BY <1>21 DEF SemaUpCasWin
<1>22. ASSUME NEW t \in Tasks, SemaUpCasLose(t), UNCHANGED mutexVars PROVE TypeInv'
  BY <1>22 DEF SemaUpCasLose
<1>23. ASSUME NEW t \in Tasks, SemaDecTest(t), UNCHANGED mutexVars PROVE TypeInv'
  BY <1>23 DEF SemaDecTest
<1>24. ASSUME NEW t \in Tasks, SemaDecLoad(t), UNCHANGED mutexVars PROVE TypeInv'
  BY <1>24 DEF SemaDecLoad
<1>25. ASSUME NEW t \in Tasks, SemaDecStore(t), UNCHANGED mutexVars PROVE TypeInv'
  BY <1>25 DEF SemaDecStore
<1>26. CASE UNCHANGED vars
  BY <1>26 DEF vars, localVars
<1> QED
  BY <1>1, <1>2, <1>3, <1>4, <1>5, <1>6, <1>7, <1>8, <1>9, <1>10, <1>11, Zenon,
     <1>12, <1>13, <1>14, <1>15, <1>16, <1>17, <1>18, <1>19, <1>20, <1>21,
     <1>22, <1>23, <1>24, <1>25, <1>26
  DEF Next, MutexNext, SemaNext, MutexCall, MutexStep, SemaStep
-----------------------------------------------------------------------------
LEMMA InitMutexInv == Init => MutexInv
  BY NoTaskAssumption, SMTT(30)
  DEF Init, LocalInit, MutexInit, MutexInv, MutexExclusion, WinnersNotHeld,
      OwnedIsLocked, LockedIsOwned, HeldIsOwner, MutexOwns

\* The mutex invariant survives its own steps; the semaphore's leave the
\* mutex alone and never visit its labels.
LEMMA StepMutexInv == TypeInv /\ MutexInv /\ [Next]_vars => MutexInv'
<1> SUFFICES ASSUME TypeInv, MutexInv, [Next]_vars PROVE MutexInv'
  OBVIOUS
<1> USE NoTaskAssumption
    DEF TypeInv, TypeOK, LocalTypeOK, MutexTypeOK, MutexInv, MutexExclusion,
        WinnersNotHeld, OwnedIsLocked, LockedIsOwned, HeldIsOwner, MutexOwns,
        Goto, Step, Load, Retry, mutexVars
<1>1. ASSUME NEW t \in Tasks, MutexFast(t) PROVE MutexInv'
  BY <1>1 DEF MutexFast
<1>2. ASSUME NEW t \in Tasks, MutexContended(t) PROVE MutexInv'
  BY <1>2 DEF MutexContended
<1>3. ASSUME NEW t \in Tasks, MutexDisown(t) PROVE MutexInv'
  BY <1>3 DEF MutexDisown
<1>4. ASSUME NEW t \in Tasks, MutexAddLoad(t) PROVE MutexInv'
  BY <1>4 DEF MutexAddLoad
<1>5. ASSUME NEW t \in Tasks, MutexAddStore(t) PROVE MutexInv'
  BY <1>5 DEF MutexAddStore
<1>6. ASSUME NEW t \in Tasks, MutexRetryWin(t) PROVE MutexInv'
  BY <1>6 DEF MutexRetryWin
<1>7. ASSUME NEW t \in Tasks, MutexRetryFail(t) PROVE MutexInv'
  BY <1>7 DEF MutexRetryFail
<1>8. ASSUME NEW t \in Tasks, MutexOwn(t) PROVE MutexInv'
  BY <1>8 DEF MutexOwn
<1>9. ASSUME NEW t \in Tasks, MutexUnlock(t) PROVE MutexInv'
  BY <1>9 DEF MutexUnlock
<1>10. ASSUME NEW t \in Tasks, MutexDecTest(t) PROVE MutexInv'
  BY <1>10 DEF MutexDecTest
<1>11. ASSUME NEW t \in Tasks, MutexDecLoad(t) PROVE MutexInv'
  BY <1>11 DEF MutexDecLoad
<1>12. ASSUME NEW t \in Tasks, MutexDecStore(t) PROVE MutexInv'
  BY <1>12 DEF MutexDecStore
<1>13. ASSUME NEW t \in Tasks, SemaNext(t) PROVE MutexInv'
  <2>1. pc[t] \notin {"m_own", "m_unlock"} /\ pc'[t] \notin {"m_own", "m_unlock"}
        /\ \A u \in Tasks : u # t => pc'[u] = pc[u]
    BY <1>13 DEF SemaNext, SemaStep, SemaLoad, SemaCasWin, SemaCasLose, SemaAddLoad, SemaAddStore,
       SemaPollReady, SemaPollZero, SemaUpLoad, SemaUpCasWin, SemaUpCasLose,
       SemaDecTest, SemaDecLoad, SemaDecStore
  <2>2. UNCHANGED mutexVars
    BY <1>13 DEF SemaNext
  <2> QED
    BY <2>1, <2>2, SMTT(30)
<1>14. CASE UNCHANGED vars
  BY <1>14 DEF vars, localVars
<1> QED
  BY <1>1, <1>2, <1>3, <1>4, <1>5, <1>6, <1>7, <1>8, <1>9, <1>10, <1>11,
     <1>12, <1>13, <1>14, Zenon
  DEF Next, MutexNext, MutexCall, MutexStep
-----------------------------------------------------------------------------
\* Units are conserved by every step: only the two winning CAS change them.
LEMMA StepUnits == TypeInv /\ UnitsConserved /\ [Next]_vars => UnitsConserved'
<1> SUFFICES ASSUME TypeInv, UnitsConserved, [Next]_vars PROVE UnitsConserved'
  OBVIOUS
<1> USE InitialAssumption DEF TypeInv, TypeOK, LocalTypeOK, SemaTypeOK, DownsLoadUnits, UnitsConserved
<1>1. ASSUME NEW t \in Tasks, SemaCasWin(t) PROVE UnitsConserved'
  BY <1>1 DEF SemaCasWin, Step, Goto
<1>2. ASSUME NEW t \in Tasks, SemaUpCasWin(t) PROVE UnitsConserved'
  BY <1>2 DEF SemaUpCasWin, Step, Goto
<1>3. CASE UNCHANGED <<s_count, s_out>>
  BY <1>3
<1>4. ASSUME NEW t \in Tasks, MutexNext(t) \/ SemaNext(t),
             ~ SemaCasWin(t), ~ SemaUpCasWin(t)
      PROVE  UNCHANGED <<s_count, s_out>>
  BY <1>4 DEF MutexNext, SemaNext, SemaStep, semaVars, SemaLoad, SemaCasLose,
     SemaAddLoad, SemaAddStore, SemaPollReady, SemaPollZero, SemaUpLoad,
     SemaUpCasLose, SemaDecTest, SemaDecLoad, SemaDecStore
<1>5. CASE UNCHANGED vars
  BY <1>5, <1>3 DEF vars, semaVars
<1> QED
  BY <1>1, <1>2, <1>3, <1>4, <1>5 DEF Next

-----------------------------------------------------------------------------
LEMMA Invariance == Spec => [](TypeInv /\ MutexInv /\ UnitsConserved)
<1>1. Init => UnitsConserved
  BY InitialAssumption DEF Init, SemaInit, UnitsConserved
<1> QED
  BY <1>1, InitTypeInv, StepTypeInv, InitMutexInv, StepMutexInv, StepUnits, PTL DEF Spec

\* The locals and the fields of both locks keep their types; in particular
\* the semaphore's count never goes below zero and no task exceeds the cap.
THEOREM TypeCorrect == Spec => []TypeOK
<1>1. TypeInv => TypeOK
  BY DEF TypeInv
<1> QED
  BY <1>1, Invariance, PTL

\* At most one task has the mutex.
THEOREM Exclusion == Spec => []MutexExclusion
<1>1. MutexInv => MutexExclusion
  BY DEF MutexInv
<1> QED
  BY <1>1, Invariance, PTL

\* The lock word is never left at 1 without a task that can clear it.
THEOREM NeverOrphaned == Spec => []MutexNotOrphaned
<1>1. MutexInv => MutexNotOrphaned
  BY DEF MutexInv, MutexNotOrphaned, OwnedIsLocked, LockedIsOwned, HeldIsOwner
<1> QED
  BY <1>1, Invariance, PTL

\* The semaphore's units are neither lost nor invented.
THEOREM Conservation == Spec => []UnitsConserved
  BY Invariance, PTL

-----------------------------------------------------------------------------
(* The reader-writer lock.                                                 *)
(*                                                                         *)
(* Exclusion follows from WordCountsHolders: a CAS that succeeds proves    *)
(* that the word still has the value the caller examined, and the word     *)
(* says exactly who holds.  That in turn needs to know, of a task between  *)
(* its load and its CAS, what it examined.                                 *)

\* A reader about to CAS saw no writer; a releaser about to CAS saw a reader.
ReaderSawNoWriter  == \A t \in Tasks : pc[t] = "r_cas" => reg[t] < Half
ReleaserSawReaders == \A t \in Tasks : pc[t] = "rr_cas" => reg[t] > 0

\* A task acquiring for reading does not read yet; one releasing still does.
AcquirersDontRead == \A t \in Tasks : pc[t] \in ReadLabels => t \notin r_own
ReleasersRead     == \A t \in Tasks : pc[t] \in {"rr_load", "rr_cas"} => t \in r_own

\* A task polls only below the cap.
RwRetriesBelowCap == \A t \in Tasks : pc[t] \in {"r_poll", "w_poll"} => retries[t] < MaxRetries

RwLocalInv ==
  /\ RwTypeOK
  /\ ReaderSawNoWriter
  /\ ReleaserSawReaders
  /\ AcquirersDontRead
  /\ ReleasersRead
  /\ RwRetriesBelowCap

HoldInv == RwExclusion /\ WordCountsHolders

-----------------------------------------------------------------------------
LEMMA HalfPositive == Half \in Nat /\ Half > 0
  BY HalfAssumption, FS_CardinalityType

\* The high half of a word that holds readers only is zero, and of a word
\* that says "writer" is one.
LEMMA WriterPartOf ==
  ASSUME NEW w \in 0..Half
  PROVE  WriterPart(w) = 0 <=> w < Half
<1>1. CASE w = Half
  BY <1>1, HalfPositive DEF WriterPart
<1>2. CASE w < Half
  BY <1>2, HalfPositive DEF WriterPart
<1> QED
  BY <1>1, <1>2, HalfPositive

\* Read holds are fewer than the low half can count.
LEMMA HoldsFit ==
  ASSUME NEW S \in SUBSET Tasks
  PROVE  IsFiniteSet(S) /\ Cardinality(S) \in Nat /\ Cardinality(S) < Half
<1>1. IsFiniteSet(S) /\ Cardinality(S) <= Cardinality(Tasks)
  BY HalfAssumption, FS_Subset
<1>2. Cardinality(S) \in Nat /\ Cardinality(Tasks) \in Nat
  BY <1>1, HalfAssumption, FS_CardinalityType
<1> QED
  BY <1>1, <1>2, HalfAssumption

-----------------------------------------------------------------------------
LEMMA RwInitInv == RwInit => RwLocalInv /\ HoldInv
<1> SUFFICES ASSUME RwInit PROVE RwLocalInv /\ HoldInv
  OBVIOUS
<1>1. RwLocalInv
  BY HalfPositive, CountModAssumption, MaxRetriesAssumption
  DEF RwInit, LocalInit, RwLocalInv, RwTypeOK, LocalTypeOK, RwLabels, Counts,
      ReaderSawNoWriter, ReleaserSawReaders, AcquirersDontRead, ReadLabels,
      ReleasersRead, RwRetriesBelowCap
<1>2. HoldInv
  BY FS_EmptySet, SMTT(30) DEF RwInit, HoldInv, RwExclusion, WordCountsHolders
<1> QED
  BY <1>1, <1>2

\* The steps that leave the word and the holds alone.
LEMMA RwQuietStep ==
  ASSUME NEW t \in Tasks, RwLocalInv,
         \/ ReadCheck(t) \/ ReadAddLoad(t) \/ ReadAddStore(t)
         \/ ReadPollReady(t) \/ ReadPollBusy(t) \/ ReadLoad(t)
         \/ ReadCasLose(t) \/ ReadReleaseLoad(t) \/ ReadReleaseCasLose(t)
         \/ WriteLoad(t) \/ WriteCasLose(t) \/ WriteAddLoad(t)
         \/ WriteAddStore(t) \/ WritePollReady(t) \/ WritePollBusy(t)
         \/ RwDecTest(t) \/ RwDecLoad(t) \/ RwDecStore(t)
  PROVE  RwLocalInv' /\ UNCHANGED <<word, r_own, w_own>>
<1> USE MaxRetriesAssumption, HalfPositive, ModType, CountsNat, WriterPartOf
    DEF RwLocalInv, RwTypeOK, LocalTypeOK, RwLabels, ReadLabels, WriteLabels,
        ReaderSawNoWriter, ReleaserSawReaders, AcquirersDontRead,
        ReleasersRead, RwRetriesBelowCap, Goto, Step, Load, Retry, rwVars
<1>1. CASE ReadCheck(t)
  BY <1>1 DEF ReadCheck
<1>2. CASE ReadAddLoad(t)
  BY <1>2 DEF ReadAddLoad
<1>3. CASE ReadAddStore(t)
  BY <1>3 DEF ReadAddStore
<1>4. CASE ReadPollReady(t)
  BY <1>4 DEF ReadPollReady
<1>5. CASE ReadPollBusy(t)
  BY <1>5 DEF ReadPollBusy
<1>6. CASE ReadLoad(t)
  BY <1>6 DEF ReadLoad
<1>7. CASE ReadCasLose(t)
  BY <1>7 DEF ReadCasLose
<1>8. CASE ReadReleaseLoad(t)
  BY <1>8 DEF ReadReleaseLoad
<1>9. CASE ReadReleaseCasLose(t)
  BY <1>9 DEF ReadReleaseCasLose
<1>10. CASE WriteLoad(t)
  BY <1>10 DEF WriteLoad
<1>11. CASE WriteCasLose(t)
  BY <1>11 DEF WriteCasLose
<1>12. CASE WriteAddLoad(t)
  BY <1>12 DEF WriteAddLoad
<1>13. CASE WriteAddStore(t)
  BY <1>13 DEF WriteAddStore
<1>14. CASE WritePollReady(t)
  BY <1>14 DEF WritePollReady
<1>15. CASE WritePollBusy(t)
  BY <1>15 DEF WritePollBusy
<1>16. CASE RwDecTest(t)
  BY <1>16 DEF RwDecTest
<1>17. CASE RwDecLoad(t)
  BY <1>17 DEF RwDecLoad
<1>18. CASE RwDecStore(t)
  BY <1>18 DEF RwDecStore
<1> QED
  BY <1>1, <1>2, <1>3, <1>4, <1>5, <1>6, <1>7, <1>8, <1>9, <1>10, <1>11, ZenonT(40),
     <1>12, <1>13, <1>14, <1>15, <1>16, <1>17, <1>18

\* The four steps that change who holds the lock.
LEMMA ReadCasWinStep ==
  ASSUME NEW t \in Tasks, RwLocalInv, HoldInv, ReadCasWin(t)
  PROVE  RwLocalInv' /\ HoldInv'
<1> USE DEF RwLocalInv, RwTypeOK, LocalTypeOK
<1>1. pc[t] = "r_cas" /\ word = reg[t] /\ word < Half /\ t \notin r_own
  BY DEF ReadCasWin, Step, Goto, ReaderSawNoWriter, AcquirersDontRead, ReadLabels
<1>2. w_own = {} /\ word = Cardinality(r_own)
  BY <1>1, HalfPositive DEF HoldInv, WordCountsHolders
<1>3. Cardinality(r_own \cup {t}) = Cardinality(r_own) + 1
  BY <1>1, HoldsFit, FS_AddElement
<1>4. word' = Cardinality(r_own') /\ w_own' = {} /\ r_own' \subseteq Tasks
  BY <1>1, <1>2, <1>3 DEF ReadCasWin
<1>5. HoldInv'
  BY <1>4 DEF HoldInv, RwExclusion, WordCountsHolders
<1>6. word' \in 0..Half
  BY <1>4, HoldsFit, HalfPositive
<1>7. RwLocalInv'
  BY <1>1, <1>4, <1>6, MaxRetriesAssumption
  DEF ReadCasWin, Step, Goto, RwLabels, ReadLabels, ReaderSawNoWriter,
      ReleaserSawReaders, AcquirersDontRead, ReleasersRead, RwRetriesBelowCap
<1> QED
  BY <1>5, <1>7

LEMMA ReadReleaseCasWinStep ==
  ASSUME NEW t \in Tasks, RwLocalInv, HoldInv, ReadReleaseCasWin(t)
  PROVE  RwLocalInv' /\ HoldInv'
<1> USE DEF RwLocalInv, RwTypeOK, LocalTypeOK
<1>1. pc[t] = "rr_cas" /\ word = reg[t] /\ t \in r_own
  BY DEF ReadReleaseCasWin, Step, Goto, ReleasersRead
<1>2. w_own = {} /\ word = Cardinality(r_own)
  BY <1>1 DEF HoldInv, WordCountsHolders, RwExclusion
<1>3. Cardinality(r_own \ {t}) = Cardinality(r_own) - 1
  BY <1>1, HoldsFit, FS_RemoveElement
<1>4. word' = Cardinality(r_own') /\ w_own' = {} /\ r_own' \subseteq Tasks
  BY <1>1, <1>2, <1>3 DEF ReadReleaseCasWin
<1>5. HoldInv'
  BY <1>4 DEF HoldInv, RwExclusion, WordCountsHolders
<1>6. word' \in 0..Half
  BY <1>4, HoldsFit, HalfPositive
<1>7. RwLocalInv'
  BY <1>1, <1>4, <1>6, MaxRetriesAssumption
  DEF ReadReleaseCasWin, Step, Goto, RwLabels, ReadLabels, ReaderSawNoWriter,
      ReleaserSawReaders, AcquirersDontRead, ReleasersRead, RwRetriesBelowCap
<1> QED
  BY <1>5, <1>7

LEMMA WriteCasWinStep ==
  ASSUME NEW t \in Tasks, RwLocalInv, HoldInv, WriteCasWin(t)
  PROVE  RwLocalInv' /\ HoldInv'
<1> USE DEF RwLocalInv, RwTypeOK, LocalTypeOK
<1>1. w_own = {} /\ Cardinality(r_own) = 0
  BY HalfPositive DEF WriteCasWin, HoldInv, WordCountsHolders
<1>2. r_own = {}
  BY <1>1, HoldsFit, FS_EmptySet
<1>3. word' = Half /\ w_own' = {t} /\ r_own' = {}
  BY <1>1, <1>2 DEF WriteCasWin
<1>4. HoldInv'
  BY <1>3 DEF HoldInv, RwExclusion, WordCountsHolders
<1>5. RwLocalInv'
  BY <1>2, <1>3, HalfPositive, MaxRetriesAssumption
  DEF WriteCasWin, Step, Goto, RwLabels, ReadLabels, ReaderSawNoWriter,
      ReleaserSawReaders, AcquirersDontRead, ReleasersRead, RwRetriesBelowCap
<1> QED
  BY <1>4, <1>5

LEMMA WriteReleaseStep ==
  ASSUME NEW t \in Tasks, RwLocalInv, HoldInv, WriteRelease(t)
  PROVE  RwLocalInv' /\ HoldInv'
<1> USE DEF RwLocalInv, RwTypeOK, LocalTypeOK
<1>1. w_own = {t} /\ r_own = {}
  BY DEF WriteRelease, HoldInv, RwExclusion
<1>2. word' = 0 /\ w_own' = {} /\ r_own' = {}
  BY <1>1 DEF WriteRelease
<1>3. HoldInv'
  BY <1>2, FS_EmptySet DEF HoldInv, RwExclusion, WordCountsHolders
<1>4. RwLocalInv'
  BY <1>1, <1>2, HalfPositive, MaxRetriesAssumption
  DEF WriteRelease, Step, Goto, RwLabels, ReadLabels, ReaderSawNoWriter,
      ReleaserSawReaders, AcquirersDontRead, ReleasersRead, RwRetriesBelowCap
<1> QED
  BY <1>3, <1>4

-----------------------------------------------------------------------------
LEMMA RwStepInv == RwLocalInv /\ HoldInv /\ [RwNext]_rwAllVars => RwLocalInv' /\ HoldInv'
<1> SUFFICES ASSUME RwLocalInv, HoldInv, [RwNext]_rwAllVars PROVE RwLocalInv' /\ HoldInv'
  OBVIOUS
<1>1. ASSUME UNCHANGED <<word, r_own, w_own>> PROVE HoldInv'
  BY <1>1 DEF HoldInv, RwExclusion, WordCountsHolders
<1>2. CASE UNCHANGED rwAllVars
  BY <1>1, <1>2
  DEF rwAllVars, localVars, rwVars, RwLocalInv, RwTypeOK, LocalTypeOK, ReaderSawNoWriter,
      ReleaserSawReaders, AcquirersDontRead, ReleasersRead, RwRetriesBelowCap
<1>3. ASSUME NEW t \in Tasks, TaskStep(t) PROVE RwLocalInv' /\ HoldInv'
  BY <1>1, <1>3, RwQuietStep, ReadCasWinStep, ReadReleaseCasWinStep,
     WriteCasWinStep, WriteReleaseStep
  DEF TaskStep, ReadAcquire, ReadRelease, WriteAcquire, Wake
<1> QED
  BY <1>2, <1>3 DEF RwNext

LEMMA RwInvariance == RwSpec => [](RwLocalInv /\ HoldInv)
  BY RwInitInv, RwStepInv, PTL DEF RwSpec

\* The word stays within the two halves, and every local keeps its type.
THEOREM RwTypeCorrect == RwSpec => []RwTypeOK
<1>1. RwLocalInv => RwTypeOK
  BY DEF RwLocalInv
<1> QED
  BY <1>1, RwInvariance, PTL

\* Writers exclude readers and each other.
THEOREM RwLockExclusion == RwSpec => []RwExclusion
<1>1. HoldInv => RwExclusion
  BY DEF HoldInv
<1> QED
  BY <1>1, RwInvariance, PTL

\* The word always equals the number of read holds, or says "writer".
THEOREM WordIsExact == RwSpec => []WordCountsHolders
<1>1. HoldInv => WordCountsHolders
  BY DEF HoldInv
<1> QED
  BY <1>1, RwInvariance, PTL

------------------------------------------------------------------------------
(* The IPC runtime. *)


\* The supervisor's own counter is the number of restarts since the worker
\* was registered, and never exceeds the budget.
CountIsExact ==
  /\ restarts = entry.restart_count
  /\ restarts <= MaxRestarts

SupInv == SupTypeOK /\ CountIsExact

\* The breaker's counter stays a number whatever is recorded.
LEMMA FailedType ==
  ASSUME SupTypeOK
  PROVE  Failed \in [state : {"Closed", "Open", "HalfOpen"}, failure_count : Nat]
<1>1. /\ breaker.state \in {"Closed", "Open", "HalfOpen"}
      /\ breaker.failure_count + 1 \in Nat
  BY DEF SupTypeOK
<1> QED BY <1>1 DEF Failed, SupTypeOK

LEMMA InitSupInv == SupInit => SupInv
BY SupervisionAssumptions DEF SupInit, SupInv, SupTypeOK, CountIsExact, Fresh

LEMMA StepSupInv ==
  ASSUME SupInv, [SupNext]_supVars
  PROVE  /\ SupInv'
         /\ worker = "crashed" /\ worker' = "down" => restarts = MaxRestarts
<1>0. /\ MaxRestarts \in Nat /\ MaxResets \in Nat
      /\ entry.restart_count \in Nat /\ entry.is_alive \in BOOLEAN
  BY SupervisionAssumptions DEF SupInv, SupTypeOK
<1> USE DEF SupInv, SupTypeOK, CountIsExact
<1>1. CASE WorkerExits
  BY <1>1 DEF WorkerExits
<1>2. CASE HandleRestart
  BY <1>0, <1>2 DEF HandleRestart, HasBudget
<1>3. CASE HandleGivesUp
  <2>1. /\ entry'.restart_count = entry.restart_count
        /\ entry' \in [is_alive : BOOLEAN, restart_count : Nat]
    BY <1>0, <1>3, Zenon DEF HandleGivesUp
  <2>2. worker = "crashed" => restarts = MaxRestarts
    BY <1>0, <1>3 DEF HandleGivesUp, HasBudget
  <2> QED BY <1>3, <2>1, <2>2 DEF HandleGivesUp
<1>4. CASE Unregister
  BY <1>4, Zenon DEF Unregister
<1>5. CASE Register
  BY <1>0, <1>5 DEF Register, Fresh
<1>6. CASE Reset
  BY <1>0, <1>6 DEF Reset
<1>7. ASSUME NEW c \in Callers, Proceed(c) \/ Answer(c) \/ RecordSuccess(c)
      PROVE  SupInv' /\ worker' = worker
  BY <1>7 DEF Proceed, Answer, RecordSuccess
<1>8. ASSUME NEW c \in Callers, RecordFailure(c)
      PROVE  SupInv' /\ worker' = worker
  BY <1>8, FailedType DEF RecordFailure
<1>9. CASE UNCHANGED supVars
  BY <1>9 DEF supVars
<1> QED
  BY <1>1, <1>2, <1>3, <1>4, <1>5, <1>6, <1>7, <1>8, <1>9 DEF SupNext

\* handle_worker_exit restarts a registered worker at most max_restarts times
\* and escalates a crash only when all of them were used, for every budget.
THEOREM BudgetKept == SupSpec => RestartBudget
<1>1. SupInit => SupInv
  BY InitSupInv
<1>2. SupInv /\ [SupNext]_supVars => SupInv'
  BY StepSupInv
<1>3. SupInv /\ [SupNext]_supVars =>
        [/\ restarts' <= MaxRestarts
         /\ worker = "crashed" /\ worker' = "down" => restarts = MaxRestarts]_supVars
  BY StepSupInv DEF SupInv, CountIsExact
<1> QED BY <1>1, <1>2, <1>3, PTL DEF SupSpec, RestartBudget

-----------------------------------------------------------------------------
(* Capabilities.  A token records neither its parent nor its children, so  *)
(* that the walk of revoke_with_propagation finds the children at all      *)
(* rests on what delegate writes into the token it makes.                  *)

\* A token is younger than the one it was delegated from, and looks like a
\* child of it.
FromParent(d) ==
  /\ parent[d] \in Nat /\ parent[d] < d
  /\ parent[d] # 0 => /\ tokens[d].source = tokens[parent[d]].target
                      /\ tokens[d].depth = tokens[parent[d]].depth + 1

CapInv ==
  /\ CapTypeOK
  /\ Len(tokens) <= MaxTokens
  /\ \A d \in 1 .. Len(tokens) : FromParent(d)

LEMMA InitCapInv == CapInit => CapInv
BY CapabilityAssumptions DEF CapInit, CapInv, CapTypeOK

LEMMA OneMore ==
  ASSUME NEW S, NEW s \in Seq(S), NEW e \in S, NEW n \in Nat, n = Len(s)
  PROVE  /\ Append(s, e) \in Seq(S)
         /\ Len(Append(s, e)) = n + 1
         /\ Append(s, e)[n + 1] = e
         /\ \A i \in 1 .. n : Append(s, e)[i] = s[i]
BY AppendProperties

\* One more token, from an earlier one or from none.
LEMMA InsertInv ==
  ASSUME CapInv, NEW t \in Token, NEW p \in 0 .. Len(tokens), Insert(t, p),
         p # 0 => t.source = tokens[p].target /\ t.depth = tokens[p].depth + 1
  PROVE  CapInv'
<1>1. PICK n \in Nat : n = Len(tokens) /\ n = Len(parent)
  BY DEF CapInv, CapTypeOK
<1>2. /\ tokens \in Seq(Token) /\ parent \in Seq(Nat) /\ revoked \subseteq Ids
      /\ n < MaxTokens /\ p \in Nat /\ p <= n
  BY <1>1 DEF CapInv, CapTypeOK, Insert
<1>3. tokens' = Append(tokens, t) /\ parent' = Append(parent, p) /\ revoked' = revoked
  BY DEF Insert
<1>4. /\ tokens' \in Seq(Token) /\ Len(tokens') = n + 1 /\ tokens'[n + 1] = t
      /\ \A i \in 1 .. n : tokens'[i] = tokens[i]
  <2>1. /\ Append(tokens, t) \in Seq(Token) /\ Len(Append(tokens, t)) = n + 1
        /\ Append(tokens, t)[n + 1] = t
        /\ \A i \in 1 .. n : Append(tokens, t)[i] = tokens[i]
    <3>1. tokens \in Seq(Token) /\ t \in Token /\ n = Len(tokens)
      BY <1>1, <1>2, Zenon
    <3> QED BY <3>1, OneMore
  <2> QED BY <1>3, <2>1, Zenon
<1>5. /\ parent' \in Seq(Nat) /\ Len(parent') = n + 1 /\ parent'[n + 1] = p
      /\ \A i \in 1 .. n : parent'[i] = parent[i]
  <2>1. /\ Append(parent, p) \in Seq(Nat) /\ Len(Append(parent, p)) = n + 1
        /\ Append(parent, p)[n + 1] = p
        /\ \A i \in 1 .. n : Append(parent, p)[i] = parent[i]
    <3>1. parent \in Seq(Nat) /\ p \in Nat /\ n = Len(parent)
      BY <1>1, <1>2, Zenon
    <3> QED BY <3>1, OneMore
  <2> QED BY <1>3, <2>1, Zenon
<1>6. ASSUME NEW d \in 1 .. n + 1 PROVE FromParent(d)'
  <2>1. CASE d \in 1 .. n
    <3>1. FromParent(d)
      BY <1>1, <2>1 DEF CapInv
    <3>2. parent'[d] = parent[d] /\ tokens'[d] = tokens[d]
      BY <1>4, <1>5, <2>1
    <3>3. parent[d] # 0 => tokens'[parent[d]] = tokens[parent[d]]
      <4>1. parent[d] # 0 => parent[d] \in 1 .. n
        BY <1>1, <2>1, <3>1 DEF FromParent
      <4> QED BY <1>4, <4>1, Zenon
    <3> QED BY <3>1, <3>2, <3>3, Zenon DEF FromParent
  <2>2. CASE d = n + 1
    <3>1. parent'[d] = p /\ tokens'[d] = t
      BY <1>4, <1>5, <2>2
    <3>2. p # 0 => tokens'[p] = tokens[p]
      BY <1>2, <1>4
    <3> QED BY <1>2, <2>2, <3>1, <3>2, SMTT(30) DEF FromParent
  <2> QED BY <2>1, <2>2
<1>7. CapTypeOK'
  BY <1>2, <1>3, <1>4, <1>5, Zenon DEF CapTypeOK
<1>8. Len(tokens') <= MaxTokens
  BY <1>1, <1>2, <1>4, CapabilityAssumptions
<1> QED BY <1>4, <1>6, <1>7, <1>8, Zenon DEF CapInv

LEMMA Least ==
  ASSUME NEW T \in SUBSET Nat, T # {}
  PROVE  \E x \in T : \A y \in T : x <= y
<1> DEFINE Less == {ss \in Nat \X Nat : ss[1] < ss[2]}
<1>1. IsWellFoundedOn(Less, Nat)
  BY NatLessThanWellFounded DEF OpToRel
<1>2. PICK x \in T : \A y \in T : ~(<<y, x>> \in Less)
  BY <1>1, WFMin, Zenon
<1>3. ASSUME NEW y \in T PROVE x <= y
  <2>1. ~(y < x)
    BY <1>2, Zenon
  <2> QED BY <2>1
<1> QED BY <1>3

\* f is the first n + 1 iterates of G on a.
IsIterates(f, n, a, G) == f = [k \in 0 .. n |-> IF k = 0 THEN a ELSE G[f[k - 1]]]

\* A function can be iterated as often as one likes.
LEMMA Iterates ==
  ASSUME NEW D, NEW a \in D, NEW G \in [D -> D], NEW n \in Nat
  PROVE  \E f \in [0 .. n -> D] : IsIterates(f, n, a, G)
<1> DEFINE T == {m \in Nat : ~ \E f \in [0 .. m -> D] : IsIterates(f, m, a, G)}
<1> SUFFICES ASSUME T # {} PROVE FALSE
  OBVIOUS
<1>1. PICK x \in T : \A y \in T : x <= y
  <2>1. T \in SUBSET Nat
    OBVIOUS
  <2> HIDE DEF T
  <2> QED BY <2>1, Least
<1>2. x \in Nat
  BY <1>1
<1>3. x # 0
  <2> SUFFICES ASSUME x = 0 PROVE FALSE
    OBVIOUS
  <2> DEFINE g == [k \in 0 .. 0 |-> a]
  <2>1. g \in [0 .. 0 -> D]
    OBVIOUS
  <2>2. IsIterates(g, 0, a, G)
    BY DEF IsIterates
  <2> QED BY <1>1, <2>1, <2>2
<1>4. x - 1 \in Nat /\ x - 1 \notin T
  BY <1>1, <1>2, <1>3
<1>5. PICK f \in [0 .. x - 1 -> D] : IsIterates(f, x - 1, a, G)
  BY <1>4
<1> DEFINE g == [k \in 0 .. x |-> IF k = x THEN G[f[x - 1]] ELSE f[k]]
<1>6. f[x - 1] \in D
  BY <1>2, <1>3
<1>7. g \in [0 .. x -> D]
  BY <1>2, <1>6
<1>8. \A k \in 0 .. x - 1 : f[k] = IF k = 0 THEN a ELSE G[f[k - 1]]
  BY <1>5 DEF IsIterates
<1>9. \A k \in 0 .. x : g[k] = IF k = 0 THEN a ELSE G[g[k - 1]]
  <2> SUFFICES ASSUME NEW k \in 0 .. x PROVE g[k] = IF k = 0 THEN a ELSE G[g[k - 1]]
    OBVIOUS
  <2>1. CASE k = x
    BY <1>2, <1>3, <2>1
  <2>2. CASE k # x
    <3>1. k \in 0 .. x - 1 /\ g[k] = f[k]
      BY <1>2, <2>2
    <3>2. k # 0 => k - 1 \in 0 .. x /\ k - 1 # x
      BY <1>2, <2>2
    <3>3. k # 0 => g[k - 1] = f[k - 1]
      BY <3>2
    <3> HIDE DEF g
    <3> QED BY <1>8, <3>1, <3>3
  <2> QED BY <2>1, <2>2, SMTT(30)
<1>10. g = [k \in 0 .. x |-> g[k]]
  OBVIOUS
<1> HIDE DEF g
<1>11. IsIterates(g, x, a, G)
  BY <1>9, <1>10, Zenon DEF IsIterates
<1> QED BY <1>1, <1>7, <1>11

\* What one round of the walk adds to the tokens it revokes.
Grown(B) == B \cup ((UNION {Children(c) : c \in B}) \ revoked)

\* The tokens a walk has reached after each round.
IsRounds(r, id) ==
  /\ r[0] = {id} \ revoked
  /\ \A n \in 1 .. MaxTokens : r[n] = Grown(r[n - 1])

LEMMA WalkRounds ==
  ASSUME NEW id \in Nat
  PROVE  \E r : IsRounds(r, id) /\ Walk(id) = r[MaxTokens]
<1> DEFINE D == SUBSET (Nat \cup DOMAIN tokens)
           a == {id} \ revoked
           G == [B \in D |-> Grown(B)]
           IsWalk(r) == r = [n \in 0 .. MaxTokens |->
                               IF n = 0 THEN {id} \ revoked
                               ELSE LET before == r[n - 1]
                                    IN before \cup ((UNION {Children(c) : c \in before}) \ revoked)]
           reached == CHOOSE r : IsWalk(r)
<1>0. MaxTokens \in Nat
  BY CapabilityAssumptions
<1>1. a \in D /\ G \in [D -> D]
  BY DEF Grown, Children
<1>2. PICK f \in [0 .. MaxTokens -> D] : IsIterates(f, MaxTokens, a, G)
  <2> HIDE DEF D, G, a
  <2> QED BY <1>0, <1>1, Iterates
<1>3. IsWalk(f)
  <2>1. ASSUME NEW n \in 0 .. MaxTokens, n # 0 PROVE G[f[n - 1]] = Grown(f[n - 1])
    <3>1. f[n - 1] \in D
      BY <1>0, <2>1
    <3> HIDE DEF D
    <3> QED BY <3>1
  <2>2. f = [n \in 0 .. MaxTokens |-> IF n = 0 THEN a ELSE G[f[n - 1]]]
    BY <1>2, Zenon DEF IsIterates
  <2> HIDE DEF G
  <2>3. f = [n \in 0 .. MaxTokens |-> IF n = 0 THEN a ELSE Grown(f[n - 1])]
    BY <2>1, <2>2, Zenon
  <2> QED BY <2>3, Zenon DEF Grown
<1>4. IsWalk(reached)
  BY <1>3, Zenon
<1>5. Walk(id) = reached[MaxTokens]
  BY Zenon DEF Walk
<1> HIDE DEF reached
<1>6. reached[0] = {id} \ revoked
  BY <1>0, <1>4
<1>7. \A n \in 1 .. MaxTokens : reached[n] = Grown(reached[n - 1])
  BY <1>0, <1>4 DEF Grown
<1>8. IsRounds(reached, id)
  BY <1>6, <1>7, Zenon DEF IsRounds
<1> QED BY <1>5, <1>8, Zenon

\* A token that was reached in some round is revoked in the end.
LEMMA RoundsGrow ==
  ASSUME NEW r, NEW id, IsRounds(r, id), NEW m \in 0 .. MaxTokens
  PROVE  r[m] \subseteq r[MaxTokens]
<1> DEFINE T == {j \in 0 .. MaxTokens - m : ~(r[m] \subseteq r[m + j])}
<1>0. MaxTokens \in Nat /\ m \in Nat /\ MaxTokens - m \in Nat
  BY CapabilityAssumptions
<1>1. T = {}
  <2> SUFFICES ASSUME T # {} PROVE FALSE
    OBVIOUS
  <2>1. PICK x \in T : \A y \in T : x <= y
    <3>1. T \in SUBSET Nat
      BY <1>0
    <3> HIDE DEF T
    <3> QED BY <3>1, Least
  <2>2. x \in Nat /\ x <= MaxTokens - m /\ ~(r[m] \subseteq r[m + x])
    BY <1>0, <2>1
  <2>3. x # 0
    BY <1>0, <2>2
  <2>4. x - 1 \in 0 .. MaxTokens - m /\ x - 1 \notin T
    BY <1>0, <2>1, <2>2, <2>3, SMTT(30)
  <2>5. r[m] \subseteq r[m + (x - 1)]
    BY <2>4
  <2>6. m + x \in 1 .. MaxTokens /\ (m + x) - 1 = m + (x - 1)
    BY <1>0, <2>2, <2>3
  <2>7. r[m + (x - 1)] \subseteq r[m + x]
    <3>1. r[m + x] = Grown(r[m + (x - 1)])
      BY <2>6 DEF IsRounds
    <3> QED BY <3>1 DEF Grown
  <2> QED BY <2>2, <2>5, <2>7
<1>2. MaxTokens - m \notin T /\ MaxTokens - m \in 0 .. MaxTokens - m
  <2>1. MaxTokens - m \in 0 .. MaxTokens - m
    BY <1>0
  <2> HIDE DEF T
  <2> QED BY <1>1, <2>1, Zenon
<1>3. m + (MaxTokens - m) = MaxTokens
  BY <1>0
<1> QED BY <1>2, <1>3

\* What a walk from id may reach.
Below(id, c) ==
  \/ c = id
  \/ /\ c \in DOMAIN tokens /\ id \in DOMAIN tokens
     /\ tokens[c].depth > tokens[id].depth

LEMMA RoundsBelow ==
  ASSUME CapInv, NEW r, NEW id, IsRounds(r, id), NEW c \in r[MaxTokens]
  PROVE  Below(id, c)
<1> DEFINE T == {j \in 0 .. MaxTokens : \E b \in r[j] : ~Below(id, b)}
<1>0. MaxTokens \in Nat
  BY CapabilityAssumptions
<1>1. \A b \in DOMAIN tokens : tokens[b].depth \in Nat
  <2>1. tokens \in Seq(Token)
    BY DEF CapInv, CapTypeOK
  <2>2. \A b \in DOMAIN tokens : tokens[b] \in Token
    BY <2>1
  <2>3. \A t \in Token : t.depth \in Nat
    BY CapabilityAssumptions DEF Token
  <2> QED BY <2>2, <2>3, Zenon
<1>2. T = {}
  <2> SUFFICES ASSUME T # {} PROVE FALSE
    OBVIOUS
  <2>1. PICK x \in T : \A y \in T : x <= y
    <3>1. T \in SUBSET Nat
      BY <1>0
    <3> HIDE DEF T
    <3> QED BY <3>1, Least
  <2>2. x \in Nat /\ x <= MaxTokens
    BY <1>0, <2>1, SMTT(30)
  <2>3. PICK b \in r[x] : ~Below(id, b)
    BY <2>1
  <2>4. x # 0
    BY <2>3 DEF IsRounds, Below
  <2>5. x - 1 \in 0 .. MaxTokens /\ x - 1 \notin T /\ x \in 1 .. MaxTokens
    BY <1>0, <2>1, <2>2, <2>4, SMTT(30)
  <2>6. \A e \in r[x - 1] : Below(id, e)
    BY <2>5
  <2>7. b \in Grown(r[x - 1]) /\ b \notin r[x - 1]
    BY <2>3, <2>5, <2>6 DEF IsRounds
  <2>8. PICK e \in r[x - 1] : b \in Children(e)
    BY <2>7 DEF Grown
  <2>9. /\ b \in DOMAIN tokens /\ e \in DOMAIN tokens
        /\ tokens[b].depth = tokens[e].depth + 1
    BY <2>8, Zenon DEF Children
  <2>10. Below(id, e)
    BY <2>6, <2>8
  <2> QED BY <1>1, <2>3, <2>9, <2>10 DEF Below
<1>3. MaxTokens \in 0 .. MaxTokens
  BY <1>0
<1> QED BY <1>2, <1>3

\* The way up from d to id: u[k] is k delegations above d.
IsWayUp(u, d, id, n) ==
  /\ u[0] = d /\ u[n] = id
  /\ \A k \in 1 .. n : u[k] = IF u[k - 1] = 0 THEN 0 ELSE parent[u[k - 1]]
  /\ \A k \in 0 .. n : u[k] \notin revoked

LEMMA LineageWay ==
  ASSUME CapInv, NEW d \in DOMAIN tokens, NEW id, NEW n \in Nat, Lineage(d, id, n)
  PROVE  \E u : IsWayUp(u, d, id, n)
<1> DEFINE D == 0 .. Len(tokens)
           G == [p \in D |-> IF p = 0 THEN 0 ELSE parent[p]]
           IsUp(u) == u = [k \in 0 .. n |->
                             IF k = 0 THEN d
                             ELSE IF u[k - 1] = 0 THEN 0 ELSE parent[u[k - 1]]]
           up == CHOOSE u : IsUp(u)
<1>1. /\ Len(tokens) \in Nat /\ d \in D
      /\ \A p \in 1 .. Len(tokens) : FromParent(p)
  BY DEF CapInv, CapTypeOK
<1>2. \A p \in D : (IF p = 0 THEN 0 ELSE parent[p]) \in D
  <2> SUFFICES ASSUME NEW p \in D, p # 0 PROVE parent[p] \in D
    BY <1>1
  <2>1. FromParent(p)
    BY <1>1
  <2> QED BY <1>1, <2>1 DEF FromParent
<1>3. G \in [D -> D]
  <2> HIDE DEF D
  <2> QED BY <1>2
<1>4. PICK f \in [0 .. n -> D] : IsIterates(f, n, d, G)
  <2> HIDE DEF D, G
  <2> QED BY <1>1, <1>3, Iterates
<1>5. IsUp(f)
  <2>1. ASSUME NEW k \in 0 .. n, k # 0
        PROVE  G[f[k - 1]] = IF f[k - 1] = 0 THEN 0 ELSE parent[f[k - 1]]
    <3>1. f[k - 1] \in D
      BY <2>1
    <3> HIDE DEF D
    <3> QED BY <3>1
  <2>2. f = [k \in 0 .. n |-> IF k = 0 THEN d ELSE G[f[k - 1]]]
    BY <1>4 DEF IsIterates
  <2> HIDE DEF G
  <2> QED BY <2>1, <2>2, Zenon
<1>6. IsUp(up)
  BY <1>5, Zenon
<1>7. up[n] = id /\ \A k \in 0 .. n : up[k] \notin revoked
  BY Zenon DEF Lineage
<1> HIDE DEF up
<1>8. up[0] = d
  BY <1>6
<1>9. \A k \in 1 .. n : up[k] = IF up[k - 1] = 0 THEN 0 ELSE parent[up[k - 1]]
  BY <1>6, SMTT(30)
<1>10. IsWayUp(up, d, id, n)
  BY <1>7, <1>8, <1>9, Zenon DEF IsWayUp
<1> QED BY <1>10, Zenon

\* The tokens on the way up: no way passes 0, and ids decrease, so a way has
\* fewer delegations than there are tokens.
LEMMA WayDescends ==
  ASSUME CapInv, NEW d \in 1 .. Len(tokens), NEW id \in Nat \ {0}, NEW n \in Nat,
         NEW u, IsWayUp(u, d, id, n)
  PROVE  \A k \in 0 .. n : u[k] \in 1 .. Len(tokens) /\ u[k] <= d - k
<1> DEFINE Z == {j \in 0 .. n : u[n - j] = 0}
           T == {k \in 0 .. n : ~(u[k] \in 1 .. Len(tokens) /\ u[k] <= d - k)}
<1>0. u[0] = d /\ u[n] = id /\ Len(tokens) \in Nat
  BY DEF IsWayUp, CapInv, CapTypeOK
<1>1. \A k \in 1 .. n : u[k] = IF u[k - 1] = 0 THEN 0 ELSE parent[u[k - 1]]
  BY DEF IsWayUp
<1>2. Z = {}
  <2> SUFFICES ASSUME Z # {} PROVE FALSE
    OBVIOUS
  <2>1. PICK x \in Z : \A y \in Z : x <= y
    <3>1. Z \in SUBSET Nat
      OBVIOUS
    <3> HIDE DEF Z
    <3> QED BY <3>1, Least
  <2>2. x \in 0 .. n /\ u[n - x] = 0
    BY <2>1
  <2>3. x # 0
    BY <1>0, <2>2
  <2>4. (n - x) + 1 \in 1 .. n /\ ((n - x) + 1) - 1 = n - x /\ n - (x - 1) = (n - x) + 1
    BY <2>2, <2>3
  <2>5. u[n - (x - 1)] = 0
    BY <1>1, <2>2, <2>4
  <2>6. x - 1 \in Z
    BY <2>2, <2>3, <2>5
  <2> QED BY <2>1, <2>2, <2>6
<1>3. \A k \in 0 .. n : u[k] # 0
  <2> SUFFICES ASSUME NEW k \in 0 .. n, u[k] = 0 PROVE FALSE
    OBVIOUS
  <2>1. n - k \in 0 .. n /\ n - (n - k) = k
    OBVIOUS
  <2>2. n - k \in Z
    BY <2>1
  <2> QED BY <1>2, <2>2, Zenon
<1>4. T = {}
  <2> SUFFICES ASSUME T # {} PROVE FALSE
    OBVIOUS
  <2>1. PICK x \in T : \A y \in T : x <= y
    <3>1. T \in SUBSET Nat
      OBVIOUS
    <3> HIDE DEF T
    <3> QED BY <3>1, Least
  <2>2. x \in 0 .. n /\ ~(u[x] \in 1 .. Len(tokens) /\ u[x] <= d - x)
    BY <2>1
  <2>3. x # 0
    BY <1>0, <2>2
  <2>4. x - 1 \in 0 .. n /\ x - 1 \notin T
    BY <2>1, <2>2, <2>3
  <2>5. u[x - 1] \in 1 .. Len(tokens) /\ u[x - 1] <= d - (x - 1)
    BY <2>4
  <2>6. FromParent(u[x - 1])
    BY <2>5 DEF CapInv
  <2>7. u[x] = parent[u[x - 1]]
    BY <1>1, <2>2, <2>3, <2>5, SMTT(30)
  <2>8. u[x] \in Nat /\ u[x] < u[x - 1] /\ u[x] # 0
    BY <1>3, <2>2, <2>6, <2>7 DEF FromParent
  <2> QED BY <1>0, <2>2, <2>5, <2>8
<1> QED BY <1>4

\* A token delegated from id over unrevoked tokens is reached.
LEMMA WayReached ==
  ASSUME CapInv, NEW d \in 1 .. Len(tokens), NEW id \in Nat \ {0}, NEW n \in Nat,
         NEW u, IsWayUp(u, d, id, n), NEW r, IsRounds(r, id)
  PROVE  d \in r[MaxTokens]
<1> DEFINE T == {j \in 0 .. n : u[n - j] \notin r[j]}
<1>0. /\ u[0] = d /\ u[n] = id /\ MaxTokens \in Nat
      /\ Len(tokens) \in Nat /\ Len(tokens) <= MaxTokens
      /\ DOMAIN tokens = 1 .. Len(tokens)
  BY CapabilityAssumptions DEF IsWayUp, CapInv, CapTypeOK
<1>1. \A k \in 1 .. n : u[k] = IF u[k - 1] = 0 THEN 0 ELSE parent[u[k - 1]]
  BY DEF IsWayUp
<1>2. \A k \in 0 .. n : u[k] \notin revoked
  BY DEF IsWayUp
<1>3. \A k \in 0 .. n : u[k] \in 1 .. Len(tokens) /\ u[k] <= d - k
  BY WayDescends
<1>4. n <= MaxTokens
  BY <1>0, <1>3
<1>5. T = {}
  <2> SUFFICES ASSUME T # {} PROVE FALSE
    OBVIOUS
  <2>1. PICK x \in T : \A y \in T : x <= y
    <3>1. T \in SUBSET Nat
      OBVIOUS
    <3> HIDE DEF T
    <3> QED BY <3>1, Least
  <2>2. x \in 0 .. n /\ u[n - x] \notin r[x]
    BY <2>1
  <2>3. x # 0
    BY <1>0, <1>2, <2>2 DEF IsRounds
  <2>4. x - 1 \in 0 .. n /\ x - 1 \notin T
    <3> HIDE DEF T
    <3>1. x \in Nat /\ x - 1 \in 0 .. n /\ ~(x <= x - 1)
      BY <1>0, <2>2, <2>3
    <3> QED BY <2>1, <3>1
  <2> DEFINE c == u[n - x]
             e == u[n - (x - 1)]
  <2>5. e \in r[x - 1]
    BY <2>4
  <2>6. (n - x) + 1 \in 1 .. n /\ ((n - x) + 1) - 1 = n - x /\ n - (x - 1) = (n - x) + 1
    BY <2>2, <2>3
  <2>7. c \in 1 .. Len(tokens) /\ e \in 1 .. Len(tokens) /\ c \notin revoked
    BY <1>2, <1>3, <2>2, <2>4
  <2>8. e = parent[c] /\ c # 0 /\ e # 0
    BY <1>1, <2>6, <2>7, SMTT(30)
  <2> HIDE DEF c, e
  <2>9. c \in Children(e)
    <3>1. FromParent(c)
      BY <2>7 DEF CapInv
    <3> QED BY <1>0, <2>7, <2>8, <3>1 DEF FromParent, Children
  <2>10. c \in Grown(r[x - 1])
    BY <2>5, <2>7, <2>9, Zenon DEF Grown
  <2>11. x \in 1 .. MaxTokens
    BY <1>0, <1>4, <2>2, <2>3
  <2>12. c \in r[x]
    BY <2>10, <2>11 DEF IsRounds
  <2> QED BY <2>2, <2>12 DEF c
<1>6. u[n - n] \in r[n]
  BY <1>5
<1>7. d \in r[n] /\ n \in 0 .. MaxTokens
  BY <1>0, <1>4, <1>6, SMTT(30)
<1> QED BY <1>7, RoundsGrow

\* The walk revokes ids of the set only, and keeps the invariant.
LEMMA PropagateInv ==
  ASSUME CapInv, NEW id \in Ids, RevokeWithPropagation(id)
  PROVE  CapInv'
<1>1. PICK r : IsRounds(r, id) /\ Walk(id) = r[MaxTokens]
  BY WalkRounds DEF Ids
<1>2. /\ tokens' = tokens /\ parent' = parent
      /\ revoked' = revoked \cup r[MaxTokens]
  BY <1>1 DEF RevokeWithPropagation
<1>3. DOMAIN tokens \subseteq Ids /\ revoked \subseteq Ids
  BY CapabilityAssumptions DEF CapInv, CapTypeOK, Ids
<1>4. \A c \in r[MaxTokens] : Below(id, c)
  BY <1>1, RoundsBelow
<1>5. revoked' \subseteq Ids
  BY <1>2, <1>3, <1>4 DEF Below
<1> QED BY <1>2, <1>5 DEF CapInv, CapTypeOK, FromParent, Ids

LEMMA StepCapInv == CapInv /\ [CapNext]_capVars => CapInv'
<1> SUFFICES ASSUME CapInv, [CapNext]_capVars PROVE CapInv'
  OBVIOUS
<1>1. ASSUME NEW p \in Pids, NEW q \in Pids, NEW x \in SUBSET Rights, Grant(p, q, x)
      PROVE  CapInv'
  <2> DEFINE t == [source |-> p, target |-> q, rights |-> x, depth |-> 0]
  <2>1. t \in Token /\ Insert(t, 0)
    BY <1>1, CapabilityAssumptions DEF Token, Grant
  <2>2. 0 \in 0 .. Len(tokens)
    BY DEF CapInv, CapTypeOK
  <2> HIDE DEF t
  <2> QED BY <2>1, <2>2, InsertInv
<1>2. ASSUME NEW from \in Ids, NEW q \in Pids, NEW x \in SUBSET Rights,
             Delegate(from, q, x)
      PROVE  CapInv'
  <2> DEFINE s == tokens[from]
             t == [source |-> s.target, target |-> q, rights |-> x, depth |-> s.depth + 1]
  <2>1. from \in DOMAIN tokens /\ s.depth < MaxDepth /\ Insert(t, from)
    BY <1>2 DEF Delegate
  <2>2. tokens \in Seq(Token) /\ Len(tokens) \in Nat
    BY DEF CapInv, CapTypeOK
  <2>3. s \in Token /\ from \in 1 .. Len(tokens)
    BY <2>1, <2>2
  <2> HIDE DEF s
  <2>4. t \in Token
    BY <2>1, <2>3, CapabilityAssumptions DEF Token
  <2>5. t.source = tokens[from].target /\ t.depth = tokens[from].depth + 1
    BY DEF s
  <2>6. from \in 0 .. Len(tokens)
    BY <2>2, <2>3
  <2> HIDE DEF t
  <2> QED BY <2>1, <2>4, <2>5, <2>6, InsertInv, SMTT(30)
<1>3. ASSUME NEW id \in Ids, Revoke(id) PROVE CapInv'
  BY <1>3, Zenon DEF Revoke, CapInv, CapTypeOK, FromParent, Ids
<1>4. ASSUME NEW id \in Ids, RevokeWithPropagation(id) PROVE CapInv'
  BY <1>4, PropagateInv
<1>5. CASE UNCHANGED capVars
  BY <1>5 DEF capVars, CapInv, CapTypeOK, FromParent, Ids
<1> QED BY <1>1, <1>2, <1>3, <1>4, <1>5, Zenon DEF CapNext

\* What a propagating revocation reaches, in a state of the invariant.
LEMMA PropagateReaches ==
  ASSUME CapInv, NEW id \in Ids \ revoked, RevokeWithPropagation(id)
  PROVE  /\ id \in revoked'
         /\ \A d \in DOMAIN tokens, n \in 0 .. MaxDepth :
              Lineage(d, id, n) => d \in revoked'
         /\ \A d \in revoked' \ (revoked \cup {id}) :
              tokens[d].depth > tokens[id].depth
<1>0. MaxTokens \in Nat /\ MaxDepth \in Nat /\ id \in Nat \ {0}
  BY CapabilityAssumptions DEF Ids
<1>1. PICK r : IsRounds(r, id) /\ Walk(id) = r[MaxTokens]
  BY <1>0, WalkRounds
<1>2. revoked' = revoked \cup r[MaxTokens]
  BY <1>1 DEF RevokeWithPropagation
<1>3. id \in r[MaxTokens]
  <2>1. id \in r[0] /\ 0 \in 0 .. MaxTokens
    BY <1>0, <1>1 DEF IsRounds
  <2> QED BY <1>1, <2>1, RoundsGrow
<1>4. ASSUME NEW d \in DOMAIN tokens, NEW n \in 0 .. MaxDepth, Lineage(d, id, n)
      PROVE  d \in revoked'
  <2>1. n \in Nat /\ d \in 1 .. Len(tokens)
    BY <1>0 DEF CapInv, CapTypeOK
  <2>2. PICK u : IsWayUp(u, d, id, n)
    BY <1>4, <2>1, LineageWay
  <2>3. d \in r[MaxTokens]
    BY <1>0, <1>1, <2>1, <2>2, WayReached
  <2> QED BY <1>2, <2>3
<1>5. ASSUME NEW d \in revoked', d \notin revoked \cup {id}
      PROVE  tokens[d].depth > tokens[id].depth
  <2>1. d \in r[MaxTokens]
    BY <1>2, <1>5
  <2>2. Below(id, d)
    BY <1>1, <2>1, RoundsBelow
  <2> QED BY <1>5, <2>2 DEF Below
<1> QED BY <1>2, <1>3, <1>4, <1>5

\* revoke_with_propagation revokes every token delegated, at any distance,
\* from the one it is given over tokens that are not revoked, and besides it
\* only deeper ones, whatever was granted, delegated and revoked before and
\* although no token names its parent.
THEOREM RevocationReachesAll == CapSpec => RevocationReaches
<1>1. CapInit => CapInv
  BY InitCapInv
<1>2. CapInv /\ [CapNext]_capVars => CapInv'
  BY StepCapInv
<1> DEFINE Reaches ==
      \A id \in Ids \ revoked :
        RevokeWithPropagation(id) =>
          /\ id \in revoked'
          /\ \A d \in DOMAIN tokens, n \in 0 .. MaxDepth :
               Lineage(d, id, n) => d \in revoked'
          /\ \A d \in revoked' \ (revoked \cup {id}) :
               tokens[d].depth > tokens[id].depth
<1>3. CapInv /\ [CapNext]_capVars => [Reaches]_capVars
  <2> SUFFICES ASSUME CapInv PROVE Reaches
    OBVIOUS
  <2> QED BY PropagateReaches, SMTT(30)
<1> QED BY <1>1, <1>2, <1>3, PTL DEF CapSpec, RevocationReaches

=============================================================================
