SPECIFICATION RpcFairSpec
CONSTANTS
  Callers = {a}
  NoOne = NoOne
  Prompters = {a}
  Paths = {p}
  FirstPath = p
  AbortCap = 2
  StoreErrors = FALSE
  MaxTurns = 1
  MaxSteps = 0
  MaxAborts = 3
  MaxCommands = 0
  Loop = a
  MaxLines = 4
PROPERTIES EveryLineAnswered
CHECK_DEADLOCK FALSE
