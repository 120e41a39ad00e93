SPECIFICATION FairSpec
CONSTANTS
  r1 = r1
  r2 = r2
  Ids = {r1, r2}
  Dests <- TwoDests
  Policies <- TwoDestPolicies
  Unreadable = Unreadable
  Unsendable = {}
  Occurred <- OccurredOnce
  Horizon = 9
  MaxRecordBytes = 1
  MaxPendingRecords = 2
  DueBatch = 1
  PruneBatch = 1
  MaxActive = 1
  BackoffUnit = 1
  BackoffCap = 2
  RetryAfters = {0, 3}
  LastStore = 0
  MaxTime = 2
  MaxFaults = 1
PROPERTIES PendingSettles
CHECK_DEADLOCK FALSE
