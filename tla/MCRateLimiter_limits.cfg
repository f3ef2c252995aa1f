CONSTANTS
  t1 = t1
  r1 = r1
  r2 = r2
  None = None
  Tenant = {t1}
  Channel = {"email", "sms"}
  Request = {r1, r2}
  RateOf <- Rates
  QuotaOf <- Quotas
  DayLength = 2
  MaxDay = 1
  MaxRequests = 3
  MaxFaults = 1
SPECIFICATION Spec
SYMMETRY RequestSymmetry
INVARIANTS LimitRespected CountersExpire
CHECK_DEADLOCK FALSE
