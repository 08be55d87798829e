SPECIFICATION Spec
CONSTANTS
  Keys = {k1, k2}
  Bodies = {b1, b2}
  Clients = {a1, a2}
  Reqs = {r1, r2}
  None = None
  Ttl = 2
  MaxRecords = 2
  Limit = 1
  Period = 2
  MaxBuckets = 1
  RecordShare = 2
  BucketShare = 1
  MaxTime = 4
  MaxRequests = 3
SYMMETRY Symmetry
INVARIANTS OneEffectPerKey AnswerFitsBody ClaimHasRequest WithinRate
CHECK_DEADLOCK FALSE
