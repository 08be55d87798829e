SPECIFICATION FairSpec
CONSTANTS
  Threads = {t1, t2}
  Suffixes = {csv}
  RunLease = 1
  SharedObject = FALSE
  Surprises = TRUE
  Deletes = TRUE
  Advice = {FALSE}
  MaxUploads = 2
  MaxBacklog = 1
  MaxCrashes = 1
INVARIANTS LeaseIsLock BundleMatchesSummary LeftRunningIsFree
PROPERTIES RunningEndsOrIsTakeable
CHECK_DEADLOCK FALSE
