CONSTANTS
  h1 = h1
  None = None
  Slots <- OneHandler
  Ops <- OrderOps
  MaxSubs = 2
  FreeMemberLimit = 2
  TeamHumanSeats = 2
  IncludedHumanSeats = 1
  MemberCap = 3
  ProcessedLimit = 2
  MaxInputs = 4
SPECIFICATION Spec
CONSTRAINT StaysCalm
CHECK_DEADLOCK FALSE
INVARIANTS
  TypeOK
  PlanAgrees
  FreeKeepsNothing
  BillFollowsRoll
