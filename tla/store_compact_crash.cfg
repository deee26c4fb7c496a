SPECIFICATION Spec
CONSTANTS
  MaxIssued = 3
  CrashIn <- AfterRemove
  IoErrors = FALSE
  LateNewline = FALSE
PROPERTIES RecoversAcked
CHECK_DEADLOCK FALSE
