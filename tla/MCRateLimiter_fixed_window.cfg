CONSTANTS
  t1 = t1
  r1 = r1
  r2 = r2
  None = None
  Tenant = {t1}
  Channel = {"email"}
  Request = {r1}
  RateOf <- TwoPerSecond
  QuotaOf <- Plenty
  DayLength = 2
  MaxDay = 1
  MaxRequests = 2
  MaxFaults = 1
SPECIFICATION Spec
INVARIANT FixedWindow
CHECK_DEADLOCK FALSE
