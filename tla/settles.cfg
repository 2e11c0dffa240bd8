SPECIFICATION SettlesSpec
CONSTANTS
  Users = {u}
  Items = {1, 2}
  Events = {1}
  Checkouts = {o1, o2}
  Confirms = {f1}
  Sweeps = {s1}
  Requests <- Crossing
  Hashes = {h1}
  NoHash = NoHash
  NoKey = NoKey
  NoUser = NoUser
  NoOrder = NoOrder
  InitialStock <- Shelf
  SoldAt <- Everywhere
  MaxPerUser <- Uncapped
  MaxCheckoutLines = 2
  MaxLineQuantity = 1
  Connections = 4
  MaxActs = 0
  q1 = q1
  q2 = q2
  Hits = {q1, q2}
  Pages = {body}
  QueueSize = 1
  Kids = {"k1", "k2"}
  Documents = {{}, {"k1"}, {"k2"}}
  Tokens <- SignedTokens
  Audiences = {"app"}
  Callers = {r1}
  MaxDocuments = 2
INVARIANTS TypesOK AnswersAreTrue JudgedByCurrentKeys
PROPERTIES CallsAnswered PendingSettles ShutdownDrains RotationArrives
CHECK_DEADLOCK FALSE
