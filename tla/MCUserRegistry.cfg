SPECIFICATION Spec
CONSTANTS
  k1 = k1
  k2 = k2
  k3 = k3
  k4 = k4
  shop = shop
  blog = blog
  NoUser = NoUser
  NumUsers = 3
  Domains <- Domains2
  DomainsOf <- Names
  Tasks <- Tasks4
  Kind <- Kind4
  User <- User4
  WritesFail = TRUE
  Crashes = TRUE
CHECK_DEADLOCK FALSE
INVARIANTS UserCanAuthenticate FileAgrees NoDanglingEntry
