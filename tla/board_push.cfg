CONSTANTS
  s1 = s1
  l1 = l1
  l2 = l2
  a1 = a1
  u1 = u1
  None = None
  Manager = Manager
  Slots <- OneSlot
  Usages <- PushUsage
  MaxCards = 4
  Orders <- TwoOrders
  Starts <- FirstDays
  Dues <- Undated
  Durs <- TwoDays
  DatePatches <- NoPatches
  LanePatches <- NoPatches
  Lanes <- NoPatches
  Apps <- NoPatches
  Members <- NoPatches
SPECIFICATION BoardSpec
CHECK_DEADLOCK FALSE
INVARIANT PushReaches
