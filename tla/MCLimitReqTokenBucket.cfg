SPECIFICATION Spec
CONSTANTS
  t1 = t1
  t2 = t2
  t3 = t3
  c1 = c1
  c2 = c2
  NoBucket = NoBucket
  Tasks <- Tasks3
  Clients <- Clients2
  ClientOf <- AllOfOne
  Burst <- Burst222
  MaxBurst = 2
  Rate = 2
  One = 2
  MaxClock = 2
INVARIANTS TokenBucket
