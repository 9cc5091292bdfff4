SPECIFICATION Spec
CONSTANTS
  http = http
  r1 = r1
  r2 = r2
  r3 = r3
  i1 = i1
  i2 = i2
  NoPid = NoPid
  Runs <- Runs3
  Ports <- Ports1
  Config <- Config3
  Hosts <- Hosts6
  Pids <- Pids2
  MaxFailures = 1
  MaxKills = 1
  MaxLive = 2
SYMMETRY Symmetry
CHECK_DEADLOCK FALSE
INVARIANTS OneOwner OwnerProtected FirewallFollowsRuns
