CONSTANTS
  Addresses = {1, 2, 3}
  Ports = 1
  Conflicts = TRUE
  MaxChanges = 2
  MaxUpdates = 2
  MaxLeft = 1
SPECIFICATION Spec
INVARIANTS
  TypeOK
  GraphAgrees
  DepthFollowsParent
  PublishedHaveNodes
