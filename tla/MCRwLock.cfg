SPECIFICATION RwFairSpec
CONSTANTS
  Tasks = {t1, t2, t3}
  NoTask = NoTask
  MaxRetries = 2
  CountMod = 2
  Half = 4
INVARIANTS
  RwExclusion
  WordCountsHolders
PROPERTY
  RwLockFree
