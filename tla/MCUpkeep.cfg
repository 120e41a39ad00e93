SPECIFICATION UpkeepSpec
CONSTANTS
  d = d
  k1 = k1
  Sessions = {d}
  Series = {k1}
  Delta = {d}
  Horizon = 1
  ClockStepsBack = TRUE
  MaxTime = 3
  MaxReports = 3
  MaxFaults = 2
  Platforms = {"launchd", "systemd"}
  Binaries = {"here", "there"}
  LastBuild = 2
  NoUnit = NoUnit
  Torn = Torn
  Stopped = Stopped
  Failed = Failed
  MaxRuns = 2
  MaxUpsets = 2
  StoredKinds = {"k", "l"}
  Numbers = {0, 1, 2}
  DaysAllowed = {1, 2}
  Unset = Unset
  Unreadable = Unreadable
  DefaultDays = 2
  Day = 2
  FilesPerHorizon = 1
  MaxInterval = 3
  WakeInterval = 2
  LastInstant = 8
  MaxStored = 1
  MaxMoves = 2
INVARIANTS ReaderMissesNothing CommandsDeliver GoneInTime
PROPERTIES HandEditsKept KeptAsPromised
CHECK_DEADLOCK FALSE
