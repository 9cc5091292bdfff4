SPECIFICATION Spec
CONSTANTS
  t1 = t1
  t2 = t2
  t3 = t3
  c1 = c1
  c2 = c2
  NoBucket = NoBucket
  Tasks <- Tasks3
  Clients <- Clients2
  ClientOf <- TwoAndOne
  Burst <- Burst121
  MaxBurst = 2
  Rate = 1
  One = 2
  MaxClock = 3
INVARIANTS TypeOK GrantBound NoDenialBeforeGrant
