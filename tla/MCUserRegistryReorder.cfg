SPECIFICATION Spec
CONSTANTS
  k1 = k1
  k2 = k2
  k3 = k3
  k4 = k4
  shop = shop
  blog = blog
  NoUser = NoUser
  NumUsers = 3
  Domains <- Domains2
  DomainsOf <- Names
  Tasks <- Tasks3
  Kind <- Kind3
  User <- User3
  WritesFail = FALSE
  Crashes = FALSE
CHECK_DEADLOCK FALSE
INVARIANTS CreatedIsPersisted
