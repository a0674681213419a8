CONSTANTS
  v1 = v1
  v2 = v2
  e1 = e1
  c1 = c1
  c2 = c2
  x = x
  t1 = t1
  t2 = t2
  k1 = k1
  k2 = k2
  l1 = l1
  n1 = n1
  n2 = n2
  i1 = i1
  i2 = i2
  a1 = a1
  b1 = b1
  m1 = m1
  s1 = s1
  l2 = l2
  l3 = l3
  l4 = l4
  u1 = u1
  p1 = p1
  p2 = p2
  g1 = g1
  g2 = g2
  None = None
  Unset = Unset
  Office = Office
  Absent = Absent
  Manager = Manager
  Slots <- OneSlot
  Usages <- BothUsages
  MaxCards = 3
  Orders <- EveryOrder
  Starts <- SomeStarts
  Dues <- Undated
  Durs <- SomeDurs
  DatePatches <- SomeDatePatches
  LanePatches <- SomeLanePatches
  Lanes <- TwoLanes
  Apps <- OneApp
  Members <- OneMember
  Times <- FewDays
  Rules <- TwoRules
  Tasks <- TwoTasks
  Servers <- TwoServers
  Editors <- OneEditor
  MaxEdits = 2
  MaxMishaps = 1
  Holders <- TwoCards
  Contents <- OneContent
  FileSlots <- TwoServers
  MaxFiles = 2
  TokenSlots <- TwoTokenSlots
  MaxGrants = 3
  MaxAsked = 4
  Files <- SomeFiles
  Keys <- TwoKeys
  LaneNames <- FourNames
  Clients <- TwoSpellings
  NameKey <- FoldedName
  Stored <- CutName
  Intervals <- TwoIntervals
  Refused = Refused
  Nameless = Nameless
  Chunk = 2
  MaxCommits = 3
  MaxFaults = 2
  Addresses <- TwoAddresses
  Standing <- OneManager
  Initial <- Contractor
  MaxRecipients = 1
  MaxLiveCodes = 1
  MaxAttempts = 2
  CodeLife = 1
  ReadSlots <- TwoTokenSlots
  MaxCodes = 2
  LastMoment = 1
  MaxReads = 4
  DayOf <- DayOfSlot
  After <- NextRunAfter
  Later <- CatchUp
  Work <- SomeWork
  Sheets <- SomeSheets
  PriceLists <- TwoPriceLists
  Desks <- TwoTokenSlots
  MaxPapers = 2
  MaxSigners = 2
  MaxIncidents = 2
  Terminals <- TwoTerminals
  SeatOf <- OneSeat
  Streams <- OneLane
  Queues <- OneQueue
  Openings <- OneRun
  Ceilings <- TwoCeilings
  Bills <- OneBill
  MaxSessions = 3
  LastDay = 1
  Measures <- SomeMeasures
  Rate <- TokenRate
  MonthStart <- MonthOfOneDay
  MaxOffice = 1
  Persons <- TwoTerminals
  Chats <- TwoChats
  LinkSlots <- TwoTokenSlots
  LinkLife = 1
  MaxLinkCodes = 2
  LastHour = 1
  MaxLinks = 4
  Browsers <- TwoTokenSlots
  SlipsPerBatch = 2
  MaxBatches = 2
  MaxSecrets = 2
  MaxLetters = 2
  MaxCalls = 5
  Subjects <- OneSubject
  Mailboxes <- TwoAddresses
  Tabs <- TwoTokenSlots
  Invited = b1
  MaxFlows = 2
  MaxVisits = 3
  Callers <- OneCaller
  Administrator = e1
  Ttl = 1
  LastSecond = 2
  MaxConsults = 4
SPECIFICATION Spec
CHECK_DEADLOCK FALSE
INVARIANTS
  TypeOK
  DepsSound
  PushIsSound
  StatusFollowsDates
  ScheduleIsTrue
  AppsMatchLane
  NextIsFirst
  AttachmentsHold
  GrantsHold
  ImportsHold
  DetailsAreEarned
  DocumentsAgree
  VerdictIsExact
  WallHolds
  DollarsAgree
  EvidenceIsOwn
  LinksAreExclusive
  AccountsHold
  SignOnHolds
  PolicyBites
PROPERTIES
  NeverPulledBack
  FiresAtMostOnce
  RuleFires
