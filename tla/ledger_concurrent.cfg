\* Two requests interleave at every await; the process may stop at any of them.
CONSTANTS
  ann = ann
  acme = acme
  s1 = s1
  s2 = s2
  None = None
  Users <- OneUser
  Managers <- Boss
  Refs <- OneRef
  Slots <- TwoSlots
  Ops <- ConcurrentOps
  Credentials <- BothCredentials
  MaxEntries = 1
  MaxInvoices = 2
  MaxNow = 1
  MaxSpan = 1
SPECIFICATION Spec
SYMMETRY SlotSymmetry
CHECK_DEADLOCK FALSE
INVARIANTS
  LinesAreBillable
  MetricsAreAgents
PROPERTIES
  LockNotStolen
  DocumentsAreFinal
