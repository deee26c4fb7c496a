SPECIFICATION FairSpec
CONSTANTS
  Command = {c1}
  MaxCalls = 4
  MaxPrinted = 2
  MaxShown = 1
INVARIANTS TypeOK OutputIsWhole FilesAreAsSaid
PROPERTIES CallsReturn ShellsAreReaped
CHECK_DEADLOCK FALSE
