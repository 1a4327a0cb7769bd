SPECIFICATION FairSpec
CONSTANTS
  Stores = {"run", "other"}
  Servers = {"v1", "v2"}
  Paths <- MCPaths
  Asked <- MCAsked
  Searches = {"with", "over"}
  ResultOf <- MCResultOf
  MaxListed = 1
  Retention = 1
  MaxTime = 1
  MaxSaves = 2
  MaxFaults = 1
INVARIANTS ReadsWhole DeletedGone StoreSound
PROPERTY ExpiredGone
