SPECIFICATION Spec
CONSTANTS
  r1 = r1
  r2 = r2
  r3 = r3
  Peers = 2
  Addr <- TwoAddrs
  Weight <- Weights21
  Policy = "least_conn"
  MaxFails = 1
  FailTimeout = 1
  HealthInterval = 0
  Requests <- Requests3
  Hash <- SameHash3
  Mix <- Identity
  NodelayMayFail = TRUE
  U32 = 5
  MaxClock = 3
SYMMETRY Symmetry
CHECK_DEADLOCK FALSE
INVARIANTS TypeOK ConnAccounting
PROPERTY TracksConnections
