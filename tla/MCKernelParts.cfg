SPECIFICATION Spec
CONSTANTS
  Size = 3
  Codes = {0, 1}
  MaxRefs = 2
  MaxVruntime = 2
  None = None
  Tasks = {t1, t2, t3, t4}
  NoTask = NoTask
  MaxWaiters = 3
  LastSignal = 2
  NoSignal = NoSignal
  Starts = {2, 8}
  Pages = 13
  MaxOrder = 3
  PoolCap = 9
INVARIANTS
  PagesAccounted
  MergesBack
  OnlyResentLost
PROPERTIES
  WaitReports
  WaitLoopEnds
  ImplementsWaitQueue
CHECK_DEADLOCK FALSE
