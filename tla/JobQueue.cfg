SPECIFICATION FairSpec
CONSTANTS
  Jobs = {j1, j2}
  NoJob = NoJob
  Procs = {p1, p2}
  MaxWorkers = 2
  MaxAttempts = 2
  LeaseSeconds = 2
  BackoffBase = 2
  HandlersWithinLease = TRUE
  MaxCrashes = 2
  MaxBlips = 1
INVARIANTS HolderOwnsRow EventsMatchStatus AttemptsBound
PROPERTIES ClientSpec EveryJobEnds
CHECK_DEADLOCK FALSE
