SPECIFICATION MCSpec
CONSTANTS
  Words = {w1}
  Blank = Blank
  Spaces = Spaces
  Null = Null
  Absent = Absent
  Ids = {r1, r2}
  First = r1
  MaxCalls = 2
  MaxVisits = 2
  MaxWrites = 1
  NoRows = NoRows
  NoTarget = NoTarget
  NoCall = NoCall
  NoCopy = NoCopy
  Asked = Asked
  NoFetch = NoFetch
INVARIANTS TypeOK ListConverges FreshForm OnlyGranted
PROPERTIES EnteredSticks
CHECK_DEADLOCK FALSE
