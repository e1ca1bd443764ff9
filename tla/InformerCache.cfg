CONSTANTS
  Home = "home"
  All = "all"
  Objects <- MCObjects
  OptionLists <- MCOptionLists
  Backends = {"server", "fake"}
  None = None
  MaxWrites = 3
SPECIFICATION FairSpec
INVARIANTS TypeOK CacheIsASnapshot CopiesAreDeep
PROPERTIES CacheCatchesUp
CHECK_DEADLOCK FALSE
