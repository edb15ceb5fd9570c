CONSTANTS
  Files <- MCFiles
  AppIds = {1, 3}
  FirstRow = 0
  LastRow = 1
  Duals = {TRUE, FALSE}
  MaxTransferSize = 52
  MaxOperations = 2
  MaxFaults = 1
SPECIFICATION Spec
INVARIANTS
  TypeOK
  RowsArriveWhole
PROPERTIES
  KeepsPromise
CHECK_DEADLOCK FALSE
