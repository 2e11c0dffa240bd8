SPECIFICATION FairOutboxSpec
CONSTANTS
  Rows = {1, 2}
  Replicas = {a}
  NoRun = NoRun
  DeadRun = DeadRun
  BatchSize = 1
  MaxRows = 2
  MaxAttempts = 2
  MaxSeconds = 1
  LongestCall = 1
  LeaseSeconds = 3
  RowSeconds = 1
  Delay = 1
  LockMayDrop = TRUE
  MaxFaults = 1
PROPERTY QueueDrains
