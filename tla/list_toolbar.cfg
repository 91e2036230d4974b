SPECIFICATION ToolbarFairSpec
CONSTANTS
  Words = {w1, w2}
  Blank = Blank
  Part = Part
  NoSort = NoSort
  NoRange = NoRange
  MaxEdits = 4
INVARIANTS SearchAccepted ClearIsComplete
PROPERTIES TextIsCurrent ListSettles
CHECK_DEADLOCK FALSE
