CONSTANTS
  a1 = a1
  Addresses = {a1}
  Lists <- OneParam
  Lossy = {"param", "mailbox"}
  MaxObjects = 2
  MaxSlow = 0
SPECIFICATION FairSpec
INVARIANTS
  TypeOK
  NoModuleLost
  UpdatesTellTheList
  PublishedIsLive
  ValidMeansComplete
PROPERTY ParametersAreAskedAgain
CHECK_DEADLOCK FALSE
