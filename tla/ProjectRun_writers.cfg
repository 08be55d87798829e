SPECIFICATION Spec
CONSTANTS
  Threads = {t1, t2, t3}
  Suffixes = {csv}
  RunLease = 3
  SharedObject = FALSE
  Surprises = FALSE
  Deletes = FALSE
  Advice = {FALSE}
  MaxUploads = 1
  MaxBacklog = 1
  MaxCrashes = 0
INVARIANTS OneRun
CHECK_DEADLOCK FALSE
