SPECIFICATION Spec
CONSTANTS
  MaxIssued = 3
  CrashIn <- AnyPhase
  IoErrors = TRUE
  LateNewline = FALSE
INVARIANTS TypeOK AlwaysTrees IndexExact SettledLoadable
CHECK_DEADLOCK FALSE
