CONSTANTS
  n1 = n1
  n2 = n2
  s1 = s1
  s2 = s2
  None = None
  Notification = {n1, n2}
  Channel = {"email", "sms"}
  Process = {s1, s2}
  DueAt <- OneThenOther
  BatchLimit = 1
  MaxTime = 1
  RowCap = 3
  MaxFaults = 1
SPECIFICATION FairSpec
INVARIANTS
  QueuedMeansPublished
  NoDuplicateJob
  RowsHaveJobs
PROPERTY DueIsQueued
CHECK_DEADLOCK FALSE
