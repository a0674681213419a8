\* Two requests interleave; every handler whose await settles is resumed.
CONSTANTS
  ann = ann
  acme = acme
  s1 = s1
  s2 = s2
  None = None
  Users <- OneUser
  Managers <- Boss
  Refs <- OneRef
  Slots <- TwoSlots
  Ops <- SettlesOps
  Credentials <- HumanOnly
  MaxEntries = 1
  MaxInvoices = 2
  MaxNow = 1
  MaxSpan = 1
SPECIFICATION FairSpec
CHECK_DEADLOCK FALSE
INVARIANTS
  LockNamesBill
PROPERTIES
  AttributionStands
  IssuedGetsCertified
