\* Two managers issue the same month at once.
CONSTANTS
  ann = ann
  acme = acme
  s1 = s1
  s2 = s2
  None = None
  Users <- OneUser
  Managers <- Boss
  Refs <- OneRef
  Slots <- TwoSlots
  Ops <- IssueOps
  Credentials <- HumanOnly
  MaxEntries = 1
  MaxInvoices = 2
  MaxNow = 1
  MaxSpan = 1
SPECIFICATION Spec
CHECK_DEADLOCK FALSE
INVARIANTS
  BilledOnce
