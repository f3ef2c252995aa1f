CONSTANTS
  n1 = n1
  t1 = t1
  e1 = e1
  e2 = e2
  r1 = r1
  k1 = k1
  NoJob = NoJob
  Notification = {n1}
  Channel = {"email"}
  Tenant = {t1}
  TenantOf <- OneTenant
  Consumer = {e1, r1, k1}
  QueueOf <- MCQueueOf
  MaxDeliveryTries = 3
  ManagedLane <- AllLanes
  MaxFaults = 1
SPECIFICATION FairSpec
PROPERTIES
  Settles
