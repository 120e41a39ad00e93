SPECIFICATION Spec
CONSTANTS
  d = d
  c = c
  k1 = k1
  k2 = k2
  Sessions = {d}
  Series = {k1}
  Delta = {d}
  Horizon = 1
  ClockStepsBack = FALSE
  MaxTime = 5
  MaxReports = 2
  MaxFaults = 1
INVARIANTS HeardAgainCountsAfresh
