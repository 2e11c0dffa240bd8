SPECIFICATION Spec
CONSTANTS
  Rows = {1}
  Replicas = {a, b}
  NoRun = NoRun
  DeadRun = DeadRun
  BatchSize = 1
  MaxRows = 1
  MaxAttempts = 2
  MaxSeconds = 1
  LongestCall = 1
  LeaseSeconds = 3
  RowSeconds = 1
  Delay = 1
  LockMayDrop = TRUE
  MaxFaults = 2
  NoveraConfigured = {a, b}
  MaxRetries = 0
INVARIANTS TypeOK AtMostOneCard NothingLostSilently
PROPERTY SentIsFinal
