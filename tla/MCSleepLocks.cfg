SPECIFICATION FairSpec
CONSTANTS
  Tasks = {t1, t2}
  NoTask = NoTask
  MaxRetries = 2
  CountMod = 3
  Initial = 1
  MaxCount = 2
INVARIANTS
  MutexExclusion
  MutexNotOrphaned
  UnitsConserved
PROPERTIES
  MutexCallsReturn
  SemaLockFree
