SPECIFICATION FairSpec
CONSTANTS
  r1 = r1
  r2 = r2
  r3 = r3
  Peers = 2
  Addr <- TwoAddrs
  Weight <- Weights21
  Policy = "round_robin"
  MaxFails = 2
  FailTimeout = 1
  HealthInterval = 1
  Requests <- Requests2
  Hash <- Hashes2
  Mix <- Identity
  NodelayMayFail = FALSE
  U32 = 5
  MaxClock = 2
CHECK_DEADLOCK FALSE
INVARIANTS NoLostMark DownBounded
PROPERTIES RequestAnswered HealthRoundEnds
