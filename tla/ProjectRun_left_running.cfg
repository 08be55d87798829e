SPECIFICATION Spec
CONSTANTS
  Threads = {t1, t2}
  Suffixes = {csv}
  RunLease = 1
  SharedObject = FALSE
  Surprises = TRUE
  Deletes = FALSE
  Advice = {FALSE}
  MaxUploads = 1
  MaxBacklog = 1
  MaxCrashes = 0
INVARIANTS RunningHasRunner
CHECK_DEADLOCK FALSE
