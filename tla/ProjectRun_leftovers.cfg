SPECIFICATION Spec
CONSTANTS
  Threads = {t1}
  Suffixes = {csv}
  RunLease = 1
  SharedObject = FALSE
  Surprises = FALSE
  Deletes = FALSE
  Advice = {TRUE, FALSE}
  MaxUploads = 2
  MaxBacklog = 1
  MaxCrashes = 0
INVARIANTS BundleIsOfOneRun
CHECK_DEADLOCK FALSE
