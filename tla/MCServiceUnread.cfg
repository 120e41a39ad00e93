SPECIFICATION SSpec
CONSTANTS
  Platforms = {"systemd"}
  Binaries = {"here"}
  LastBuild = 2
  NoUnit = NoUnit
  Torn = Torn
  Stopped = Stopped
  Failed = Failed
  MaxRuns = 2
  MaxUpsets = 1
INVARIANTS RestartApplies
CHECK_DEADLOCK FALSE
