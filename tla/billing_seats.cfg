CONSTANTS
  h1 = h1
  None = None
  Slots <- OneHandler
  Ops <- SeatOps
  MaxSubs = 1
  FreeMemberLimit = 2
  TeamHumanSeats = 2
  IncludedHumanSeats = 1
  MemberCap = 3
  ProcessedLimit = 2
  MaxInputs = 4
SPECIFICATION Spec
CHECK_DEADLOCK FALSE
INVARIANT SeatsFollowRoll
