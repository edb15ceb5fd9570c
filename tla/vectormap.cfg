CONSTANTS
  m0 = m0  m1 = m1  m1b = m1b  m2 = m2
  Modules = {m0, m1, m1b, m2}
  NoModule = none
  Bytes = 4
  Address <- MCAddress
SPECIFICATION FairReaderSpec
INVARIANTS
  MapAndVectorAgree
  NoMissedAddition
PROPERTIES
  ClearOldEnds
  KeepsSetPromise
