SPECIFICATION Spec
CONSTANTS
  Users = {u}
  Items = {1}
  Events = {1}
  Checkouts = {o1, o2}
  Confirms = {f1, f2}
  Sweeps = {s1}
  Requests <- Bodies
  Hashes = {h1}
  NoHash = NoHash
  NoKey = NoKey
  NoUser = NoUser
  NoOrder = NoOrder
  InitialStock <- Shelf
  SoldAt <- Everywhere
  MaxPerUser <- Capped
  MaxCheckoutLines = 2
  MaxLineQuantity = 2
  Connections = 4
  MaxActs = 1
SYMMETRY Sym
INVARIANTS StockConserved CapRespected ReplaySameOrder PaidInFullOnce
PROPERTY ImplementsLedger
