CONSTANTS
  m1 = m1  m2 = m2  none = none
  list = list  item = item  uid = uid  topo = topo  name = name  up = up
  Modules = {m1, m2}
  Broadcast = bcast
  NoText = none
  Texts <- MCTexts
  Contains <- ExactContains
  Commands <- MCCommands
  UIDPoll <- MCUIDPoll
  Additional <- MCAdditional
  Spontaneous = {up}
  RetrySettings = {0, 1}
  PacketTimeout = 1
  ClockStepsBack = TRUE
  MaxSent = 2
  MaxStray = 0
SPECIFICATION Spec
INVARIANTS
  TypeOK
  FatesAgreeWithAnswers
  IdleQueueWaits
  WriteBudget
PROPERTY VerdictsAreFinal
