CONSTANTS
  h1 = h1
  None = None
  Slots <- OneHandler
  Ops <- UnlockOps
  MaxSubs = 1
  FreeMemberLimit = 2
  TeamHumanSeats = 2
  IncludedHumanSeats = 1
  MemberCap = 3
  ProcessedLimit = 2
  MaxInputs = 3
SPECIFICATION FairSpec
CHECK_DEADLOCK FALSE
PROPERTY PaidIsUnlocked
