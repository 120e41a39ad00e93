SPECIFICATION RunningSpec
CONSTANTS
  d = d
  c = c
  k1 = k1
  k2 = k2
  Sessions = {d, c}
  Series = {k1, k2}
  Delta = {d}
  Horizon = 99
  ClockStepsBack = FALSE
  MaxTime = 3
  MaxReports = 2
  MaxFaults = 2
  svc = svc
  man = man
  p1 = p1
  Receivers = {svc, man}
  Waits = {svc}
  Port <- SamePort
  Dirs = {d1, d2}
  Requests = {q1}
  Slots = 1
  MaxReceivers = 2
  MaxRewrites = 1
  MaxMishaps = 1
INVARIANTS SavedIsDurable CountedOnce OneWriter ExitSavesAll
PROPERTIES EventuallySaved Progress
CHECK_DEADLOCK FALSE
