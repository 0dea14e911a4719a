SPECIFICATION FairSpec
CONSTANTS
  Cpus = {c1, c2}
  NoHolder = NoHolder
  MaxDepth = 2
INVARIANTS
  MutualExclusion
  DepthCountsHolds
  NoSelfDeadlock
PROPERTY
  SpinLeadsToWin
