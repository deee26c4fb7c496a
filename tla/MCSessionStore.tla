--------------------------- MODULE MCSessionStore ---------------------------
(* Instances of SessionStore for TLC: the moments at which the process dies. *)
EXTENDS SessionStore

AnyPhase == Phase \ {"down"}
BeforeRemove == {"idle", "append", "newline", "write_temp"}
AfterRemove == {"rename"}
BeforeNewline == {"newline"}
=============================================================================
