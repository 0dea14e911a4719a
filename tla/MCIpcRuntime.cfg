SPECIFICATION Spec
CONSTANTS
  Pids = {p1, p2}
  Rights = {write}
  MaxDepth = 3
  MaxTokens = 4
  Callers = {c1, c2}
  MaxRestarts = 2
  Threshold = 1
  MaxResets = 2
PROPERTIES
  RevocationReaches
  RestartBudget
  BreakerOpens
CHECK_DEADLOCK FALSE
