SPECIFICATION RpcFairSpec
CONSTANTS
  Callers = {a}
  NoOne = NoOne
  Prompters = {a}
  Paths = {p, q}
  FirstPath = p
  AbortCap = 2
  StoreErrors = TRUE
  MaxTurns = 2
  MaxSteps = 1
  MaxAborts = 2
  MaxCommands = 2
  Loop = a
  MaxLines = 3
INVARIANTS HeadIsNewest TurnIsChain UsageAddsUp
PROPERTIES EveryLineAnswered
CHECK_DEADLOCK FALSE
