\* A session left running overnight, one request at a time.
CONSTANTS
  ann = ann
  acme = acme
  s1 = s1
  s2 = s2
  None = None
  Users <- OneUser
  Managers <- Boss
  Refs <- OneRef
  Slots <- OneSlot
  Ops <- BreakOps
  Credentials <- HumanOnly
  MaxEntries = 2
  MaxInvoices = 2
  MaxNow = 2
  MaxSpan = 1
SPECIFICATION Spec
CHECK_DEADLOCK FALSE
INVARIANTS
  NoOverlongEntry
