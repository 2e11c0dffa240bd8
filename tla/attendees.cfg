SPECIFICATION Spec
CONSTANTS
  a = a
  b = b
  c = c
  q1 = q1
  q2 = q2
  People = {a, b, c}
  Tokens <- Accounts
  Members = {m1}
  Admins <- Accounts
  PageLimit = 1
  NoId = NoId
  NoMember = NoMember
  Calls = {c1, c2}
  MaxRows = 2
  MaxBegun = 3
  NoRow = NoRow
  NoToken = NoToken
  Scanners = {a, b}
  Codes = {q1, q2}
  Scans = {s1, s2}
  CoinEvents = {1, 2}
  Registered = {a, b}
  Employees = {}
  WalletOwners = {a, b}
  CodeInfo <- Info
  ExcludeEmployees = TRUE
  EnableQrValidations = TRUE
  SessionEndTimeOffset = 0
  CronTakes = {"FAILED"}
  MaxTime = 2
  Visits = {v1, v2}
  Syncs = {y1, y2}
  Guests = {"ann"}
  Days = {"day1", "old"}
  CurrentDays = {"day1"}
  Foreign = {x1}
SYMMETRY Sym
INVARIANTS TypesOK ConnectionSafety CoinSafety
PROPERTIES DirectorySafety DeskSafety
CHECK_DEADLOCK FALSE
