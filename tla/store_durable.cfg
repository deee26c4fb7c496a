SPECIFICATION Spec
CONSTANTS
  MaxIssued = 4
  CrashIn <- BeforeRemove
  IoErrors = FALSE
  LateNewline = TRUE
INVARIANTS MirrorsMemory ParentsKnown AckedOnDisk
PROPERTIES RecoversAcked ImplementsDurableLog
CHECK_DEADLOCK FALSE
