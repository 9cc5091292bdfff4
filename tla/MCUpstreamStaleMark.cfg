SPECIFICATION Spec
CONSTANTS
  r1 = r1
  r2 = r2
  r3 = r3
  Peers = 2
  Addr <- TwoAddrs
  Weight <- Weights21
  Policy = "ip_hash"
  MaxFails = 1
  FailTimeout = 2
  HealthInterval = 0
  Requests <- Requests2
  Hash <- Hashes2
  Mix <- Identity
  NodelayMayFail = FALSE
  U32 = 5
  MaxClock = 2
CHECK_DEADLOCK FALSE
PROPERTY MarkLasts
