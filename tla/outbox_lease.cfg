\* Two replicas whose advisory lock may drop: only the lease keeps them apart.
SPECIFICATION OutboxSpec
CONSTANTS
  Rows = {1, 2}
  Replicas = {a, b}
  NoRun = NoRun
  DeadRun = DeadRun
  BatchSize = 2
  MaxRows = 2
  MaxAttempts = 2
  MaxSeconds = 1
  LongestCall = 1
  LeaseSeconds = 3
  RowSeconds = 1
  Delay = 1
  LockMayDrop = TRUE
  MaxFaults = 2
SYMMETRY Sym
INVARIANTS HandlerHoldsRow AttemptsWithinBudget
