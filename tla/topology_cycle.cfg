CONSTANTS
  Addresses = {1, 2}
  Ports = 1
  Conflicts = FALSE
  MaxChanges = 3
  MaxUpdates = 2
  MaxLeft = 1
SPECIFICATION Spec
INVARIANTS
  DepthIsDistanceFromRoot
