SPECIFICATION Spec
CONSTANTS
  Id = {"skill:s"}
  RootSeq <- TwoRoots
  Proc = {p, q}
  SessionFile = {own, other}
  Default = own
  Edits <- FewEdits
  ToggleSets <- FewToggleSets
  MaxInputs = 4
INVARIANTS TypeOK SessionsHold CatalogIsMerged
PROPERTIES OnlyLaunchesForget
CONSTRAINT Apart
CHECK_DEADLOCK FALSE
SYMMETRY Alike
