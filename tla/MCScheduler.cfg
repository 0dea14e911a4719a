SPECIFICATION Spec
CONSTANTS
  Tasks = {t1, t2, t3}
  None = None
  Scale = 4
  Threshold = 1
  MaxPrio = 1
  Deltas = {2, 3}
  Incs <- MCIncs
  MaxVruntime = 4
INVARIANTS
  TypeOK
  QueueWellFormed
PROPERTIES
  PickNotAboveHead
  ImplementsRunqueue
