SPECIFICATION MCSpec
CONSTANTS
  Worker = {w1, w2}
  Nothing = Nothing
  Quota = 1
  RenewalReset = FALSE
  MaxNow = 3
  MaxJobs = 1
  MaxReports = 1
  MaxFaults = 1
  Caller = {c1, c2, c3}
  MaxOpenConns = 2
  MaxCalls = 2
PROPERTIES
  DueClosed
  ServedUnlessStuck
CHECK_DEADLOCK FALSE
