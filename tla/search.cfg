SPECIFICATION FairSpec
CONSTANTS
  f = f
  g = g
  File = {f, g}
  MaxChanges = 3
  MaxStarts = 2
  MaxQueue = 2
  PathOrder <- ByPath
  GrepLineLimit = 2
INVARIANTS TypeOK StaleIsKnown PagesPartition
PROPERTIES IndexCatchesUp RankCatchesUp
CHECK_DEADLOCK FALSE
