CONSTANTS
  m1 = m1  m2 = m2  none = none
  list = list  item = item  uid = uid  topo = topo  name = name  up = up
  Modules = {m1}
  Broadcast = bcast
  NoText = none
  Texts <- MCTexts
  Contains <- ExactContains
  Commands <- MCCommands
  UIDPoll <- MCUIDPoll
  Additional <- MCAdditional
  Spontaneous = {up}
  RetrySettings = {1}
  PacketTimeout = 0
  ClockStepsBack = FALSE
  MaxSent = 2
  MaxStray = 1
SPECIFICATION FairSpec
INVARIANT SortedByTime
PROPERTIES
  EventuallyDecided
  KeepsLedger
