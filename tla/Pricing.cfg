SPECIFICATION FairSpec
CONSTANTS
  vm = vm
  rate = rate
  Skus = {vm, rate}
  CloudOf <- Cloud
  Lines = {rate}
  Listed = {vm, rate}
  Located = {vm}
  Prices = {p1}
  Threads = {t1, t2}
  None = None
  Torn = Torn
  CacheTtl = 1
  BreakerThreshold = 2
  BreakerReset = 2
INVARIANTS ServedIsQuoted
PROPERTIES ParkedEnds
