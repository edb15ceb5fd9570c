CONSTANTS
  Modules = {m1}
  NoTarget = none
  MaxOperations = 2
  MaxRequests = 2
  MaxFaults = 1
SPECIFICATION FairSpec
CONSTRAINT UntilRaced
INVARIANTS
  TypeOK
  AnswerIsToRequest
  OneOperationPerStart
  OperationOwnsTheFlags
PROPERTIES
  ReadEnds
CHECK_DEADLOCK FALSE
