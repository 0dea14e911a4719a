SPECIFICATION Spec
CONSTANTS
  Cpus = {c1, c2}
  NoHolder = NoHolder
  MaxDepth = 1
INVARIANT
  IrqStateRestored
