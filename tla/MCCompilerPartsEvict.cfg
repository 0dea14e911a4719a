SPECIFICATION CompilerSpec
CONSTANTS
  x0 = x0
  x1 = x1
  x9 = x9
  x15 = x15
  x19 = x19
  None = None
  Vregs <- MCVregs
  Functions <- MCFunctions
  Graphs <- MCGraphs
  MaxIterations = 10000
  CallerSaved = {x0, x9}
  CalleeSaved = {x19}
  Scratch = x15
  AddrScratch = x9
  ImmScratch = x9
  RetRegs <- MCRetRegs
INVARIANTS
  EvictionSavesValue
CHECK_DEADLOCK FALSE
