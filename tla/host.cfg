SPECIFICATION Spec
CONSTANTS
  Path = {p, q}
  Name = {"a", "b"}
  ItemName = {"x", "y"}
  Hook = {"h"}
  Manifests <- FewManifests
  Unusable = Unusable
  MaxHooks = 2
INVARIANTS TypeOK OwnersEntitled ManifestsInstalled Reloadable ReloadIsFresh
PROPERTIES NothingChangesHands
