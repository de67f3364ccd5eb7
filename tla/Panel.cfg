SPECIFICATION MCSpec
CONSTANTS
  Worker = {g1, g2}
  Nothing = Nothing
  Quota = 1
  RenewalReset = FALSE
  MaxNow = 3
  MaxJobs = 2
  MaxReports = 1
  MaxFaults = 1
  Clerk = {g1, g2}
  NoRow = NoRow
  PlanPrice = 2
  MaxTasks = 3
  MaxBreaks = 1
  Cashier = {g1, g2}
  Unknown = Unknown
  Count = 2
  UserLimit = 2
  MaxOrders = 3
  MaxSlips = 1
  MaxEdits = 1
  Offers <- MCOffers
  Revisions <- MCRevisions
  MaxDays = 370
  Handler = {h1, h2}
  Categories <- MCCategories
  Void = Void
  MaxSaves = 2
  MaxLoads = 2
  MaxMishaps = 1
  Station = {n1, n2}
  IP = {i1, i2}
  Life = 2
  MaxMinute = 5
  MaxPushes = 2
  MaxCuts = 1
  Server = {s1, s2}
  Rider = {v1, v2}
  MaxUp = 1
  MaxPushed = 2
  MaxLost = 1
  Email = {e1, e2}
  Mobile = {m1, m2}
  Front = {g1, g2}
  MaxUsers = 2
  MaxRows = 3
  MaxRequests = 4
  Sender = {g1, g2}
  Interval = 1
  DayLength = 3
  DayQuota = 2
  MaxTime = 6
  MaxFlush = 1
  Asker = {g1, g2}
  MaxCodes = 2
  MaxUses = 2
  MaxFlaws = 1
  DeviceUser = {a, b}
  Routine = {g1, g2}
  Absent = Absent
  MaxInserted = 2
  MaxRoutines = 3
  MaxBlows = 1
INVARIANTS
  PanelTypeOK
  
  ListHonest
  LedgerBalanced
  SpentWithinFunds
  RefundedOnce
  CouponLimit
  UserLimitKept
  RefundInRange
  ConfigWhole
  MemoryFresh
  OnlineShown
  FiguresAgree
  
  DeletedStayGone
  SendsLimited
  CodeUsedOnce
  OwnerKept
  OnlineTruthful
PROPERTIES
  ClosesOnlyDue
  FinishedOnlyByReset
  RefundFalls
SYMMETRY MCSymmetry
CHECK_DEADLOCK FALSE
