SPECIFICATION FairLogSpec
CONSTANTS
  e1 = e1
  e2 = e2
  e3 = e3
  e4 = e4
  e5 = e5
  Entries <- Entries5
  RingSize = 3
  BufSize = 2
  DiskFails = TRUE
CHECK_DEADLOCK FALSE
INVARIANTS RingIsRecent FileInOrder
PROPERTIES LoggedIsWritten
