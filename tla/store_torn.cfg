SPECIFICATION Spec
CONSTANTS
  MaxIssued = 2
  CrashIn <- BeforeNewline
  IoErrors = FALSE
  LateNewline = FALSE
INVARIANT Restartable
CHECK_DEADLOCK FALSE
