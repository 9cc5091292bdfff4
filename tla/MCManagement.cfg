SPECIFICATION Spec
CONSTANTS
  wp = wp
  shop = shop
  secure = secure
  free = free
  drop = drop
  wipe = wipe
  save = save
  again = again
  back = back
  purge = purge
  account = account
  admin = admin
  SiteTasks <- Sites6
  Request <- Request6
  MaxFaults = 1
  ApiTasks <- Apis6
  Op <- Op6
  Limit = 2
  MaxClock = 1
  MaxErrors = 1
  Loads <- Loads9
CHECK_DEADLOCK FALSE
INVARIANTS TypeOK SiteIsAsAnswered TlsHasCertificate RoundTrip RateKept
