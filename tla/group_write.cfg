CONSTANTS
  Modules = {"01", "02"}
  Groups = {g1}
  Lists <- MCLists
  Kinds = {"query"}
  Commanded = {"write"}
  Writes = {"write"}
  SetupPolls <- MCSetupPolls
  Keys <- MCKeys
  MaxPeriod = 1
  Periods = {1}
  MaxCalls = 3
  MaxQueue = 1
  MaxAlone = 1
  nil = nil  t05 = t05  tFF = tFF
  Texts <- MCTexts
  Hex <- MCHex
  Dec <- MCDec
  Top <- MCTop
  Empty = nil
  None = none
  Names = {"mode", "gain"}
  Types = {"uint8", "double"}
  MaxModules = 3
  MaxVariables = 4
  MaxDangling = 1
SPECIFICATION MCSpec
INVARIANT ValuesAreLive
CHECK_DEADLOCK FALSE
