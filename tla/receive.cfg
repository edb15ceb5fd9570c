CONSTANTS
  Ports = {"02", "03", "FF"}
  NoNode = "FF"
  Others <- MCOthers
  IN_BUFFER_SIZE = 3
  TOPOLOGY_CONSISTENCY_COUNT = 2
  MaxLines = 5
  MaxFaults = 1
SPECIFICATION Spec
INVARIANTS
  TypeOK
  TrackerReadsFirst
PROPERTIES
  
  BelievedWasConfirmed
CHECK_DEADLOCK FALSE
