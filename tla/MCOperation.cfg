SPECIFICATION OperationSpec
CONSTANTS
  local = local
  corp = corp
  Corp = Corp
  odd = odd
  Endpoints = {local, corp, Corp, odd}
  Url <- UrlOf
  NoUrl = NoUrl
  MaxTargets = 2
  Local = local
  Events = {"Stop"}
  Others = {"theirs"}
  Starts <- StartsOf
  ConfigEdits <- EditsOf
  MaxCommands = 1
  MaxEdits = 1
  MaxFailures = 1
  old = old
  alt = alt
  new = new
  rd = rd
  Writers = {old, alt, new}
  Readers = {rd}
  Version <- VersionOf
  Registry <- CurrentOf
  Fingerprints = {"c1", "c2", "c3"}
  Ids = {1, 2}
  Contents = {"s", "f"}
  MaxWrites = 3
  MaxKills = 1
  Fields = {"f", "g"}
  Types = {"text", "num", "any"}
  Units = {"none", "usd"}
  Versions = {1, 2}
  Values = {"text", "num"}
  Accepts <- AcceptsOf
  TextType = "text"
  NumberTypes = {"num"}
  NoField = "-"
  Definitions <- DefinitionsOf
  MaxRedefined = 1
  MaxRecords = 1
  Core <- CoreOf
  Files <- FilesOf
  Targets = {"a"}
  MaxPlugins = 3
  RecordContracts = {"today", "old"}
  CanRead = {"today"}
  WireVersions = {1, 2}
  SchemaVersion = 1
  ProjectKeys = {"p"}
  NoProject = "-"
  Names = {"a", "x"}
  NoName = "none"
  LastTime = 2
  NoAmount = NoAmount
  BadAmount = BadAmount
  Amounts = {1, 2}
  KeyOrder <- OrderOf
  SomeRecords <- RecordsOf
  SomeSpends <- SpendsOf
  Questions <- QuestionsOf
  Kinds <- AskedKinds
  MaxEntries = 2
  Folders = {"a", "as", "b", "c"}
  Links = {"l"}
  LeadsTo <- LinksOf
  Above <- AboveOf
  Branches = {"main"}
  MaxChanges = 4
INVARIANTS WiringIsClean InsertDelivers SectionSurvives
  LedgerStands RowsKeepMeaning ExportsOnlyAllowed RegistryStands
  NewestSpeaks AnswersAreWhole ProjectsStandForRepositories
CHECK_DEADLOCK FALSE
