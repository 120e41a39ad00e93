SPECIFICATION WSpec
CONSTANTS
  local = local
  corp = corp
  Corp = Corp
  odd = odd
  Endpoints = {local, corp, Corp}
  Url <- UrlOf
  NoUrl = NoUrl
  MaxTargets = 2
  Local = local
  Events = {"Stop"}
  Others = {"theirs"}
  Starts <- PlainStart
  ConfigEdits <- EditsOf
  MaxCommands = 2
  MaxEdits = 1
  MaxFailures = 1
INVARIANTS InsertKeepsValid
CHECK_DEADLOCK FALSE
