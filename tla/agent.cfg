SPECIFICATION FairSpec
CONSTANTS
  Callers = {a, b}
  NoOne = NoOne
  Prompters = {a}
  Paths = {p, q}
  FirstPath = p
  AbortCap = 1
  StoreErrors = FALSE
  MaxTurns = 1
  MaxSteps = 1
  MaxAborts = 2
  MaxCommands = 2
INVARIANTS TypeOK CheckoutStaysOnBranch OneEventPastAbort
PROPERTIES AbortHalts CallsGoOn
CHECK_DEADLOCK FALSE
