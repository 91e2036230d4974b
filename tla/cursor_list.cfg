SPECIFICATION FairSpec
CONSTANTS
  Filters = {f1, f2}
  NoFilter = f1
  Sizes = {2}
  MaxKey = 2
  Limit = 1
  MaxPages = 2
  MaxWrites = 1
  MaxEvicts = 1
  Hole = Hole
  NoData = NoData
  NoFetch = NoFetch
INVARIANTS OneFilter OwnSlot
PROPERTIES EveryLoadEnds
