SPECIFICATION Spec
CONSTANTS
  r1 = r1
  r2 = r2
  Ids = {r1, r2}
  Dests <- OneDest
  Policies <- OneDestPolicies
  Unreadable = Unreadable
  Unsendable = {}
  Occurred <- OccurredOnce
  Horizon = 0
  MaxRecordBytes = 2
  MaxPendingRecords = 2
  DueBatch = 2
  PruneBatch = 1
  MaxActive = 1
  BackoffUnit = 1
  BackoffCap = 2
  RetryAfters = {0, 3}
  LastStore = 1
  MaxTime = 2
  MaxFaults = 1
INVARIANTS QueueMatchesPending RowsHaveRecords DuplicateOnlyAfterDoubt
PROPERTIES NothingBlockedIsSent KeepsPromise
CHECK_DEADLOCK FALSE
