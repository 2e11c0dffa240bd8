SPECIFICATION Spec
CONSTANTS
  Features = {agenda}
  Registered = {agenda}
  Ungated = Ungated
  DefaultOwner = agenda
  Emails = {tester}
  Anonymous = Anonymous
  FlagValues = {"1", "0"}
  GateRows = {"absent", Ungated}
  Requests = {r1, r2}
  TTL = 1
  RefreshTimeout = 1
  MaxTime = 2
  MaxEdits = 1
  Calls = {r1, r2}
  Addresses = {"ann", "bob"}
  Kinds <- AIKinds
  FetchTimeout = 2
  FailureTTL = 1
  RequestTimeout = 2
  WriteFloor = 2
  WriteSlack = 1
  MaxClock = 4
  Reads = {r1, r2}
  Asked = {"venueColumns", "activityTables"}
  MaxMigrations = 1
  u1 = u1
  po = po
  ann = ann
  Tasks = {1, 2, 3}
  Processes = {r1, r2}
  Urls = {u1}
  People = {ann, po}
  Commands <- PointCommands
  OwnPost = 1
  OwnPostAmplified = 3
  NoOne = NoOne
  NoTask = NoTask
  NoRef = NoRef
  Keys = {k}
  Posts = {1, 2, 3}
  Hashes = {"a", "b"}
  Absent = Absent
  NoKey = NoKey
SYMMETRY Sym
INVARIANTS TypesOK CallerSafety SchemaSafety StandingsFollowLedger KeySafety
PROPERTIES FlagSafety LedgerSafety
CHECK_DEADLOCK FALSE
