SPECIFICATION RecordingSpec
CONSTANTS
  Main = main
  Agents = {a1}
  Requests = {v1, v2}
  Hooks = {u1, u2}
  Batch = 1
  MaxLines = 2
  MaxEvents = 2
  MaxFaults = 1
  Sessions = {u1, u2}
  Projects = {v1, v2}
  Horizon = 2
  Span = 1
  MaxTime = 5
  MaxStarts = 2
SYMMETRY Symmetry
INVARIANTS PositionCoversRecorded EndReadsEverything HeardKeepsProject NewestStartWins
PROPERTIES RenewalsKeepTime
CHECK_DEADLOCK FALSE
