CONSTANTS
  a1 = a1
  Addresses = {a1}
  Lists <- OneParam
  Lossy = {"mailbox"}
  MaxObjects = 1
  MaxSlow = 1
SPECIFICATION FairSpec
PROPERTIES
  EventuallyPublished
CHECK_DEADLOCK FALSE
