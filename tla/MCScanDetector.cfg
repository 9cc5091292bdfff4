SPECIFICATION Spec
CONSTANTS
  t1 = t1
  t2 = t2
  c1 = c1
  c2 = c2
  env = env
  git = git
  admin = admin
  NoRecord = NoRecord
  Tasks <- Tasks2
  Clients <- Clients2
  ClientOf <- BothOfOne
  Whitelist = {c2}
  Outcomes <- Mixed
  Window = 1
  ReqThreshold = 3
  RateNum = 3
  RateDen = 5
  BlockSecs = 3
  Reporting = TRUE
  MaxRequests = 3
  Day = 5
  GcInterval = 2
  MaxClock = 6
CHECK_DEADLOCK FALSE
PROPERTIES BlockLasts ReportsSpaced
