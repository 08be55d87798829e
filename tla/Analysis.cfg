SPECIFICATION Spec
CONSTANTS
  ipA = ipA
  ipB = ipB
  ipC = ipC
  stranger = stranger
  p1 = p1
  p2 = p2
  q1 = q1
  pub = pub
  none = none
  InfraPorts = {53}
  MinConnections = 2
  Private = {ipA, ipB, ipC, stranger, p1, p2, q1}
  NetOf <- Nets
  Colliding = {"10.0.0.0/24"}
  Blank = none
  Bad = none
  Priced = {"aws", "azure", "digitalocean"}
  StaticRate <- Rates
  LiveRate <- Live
  ImageFamily <- Family
  NoOs = none
  Inventories <- SmallInventories
  Headers <- SmallHeaders
  Rows <- SmallRows
  MaxRows = 4
  WavePlans <- SmallWaves
  DeclaredSets <- SmallDeclared
  Estates <- SmallEstates
  Requests <- SmallRequests
  PlanSets <- SmallPlans
  WeightSets <- SmallWeights
  Workloads <- SmallWorkloads
  Snapshots <- SmallSnapshots
  LowerOf <- Lower
  NoUuid = none
INVARIANTS NoSilentCut PrivateCallsAreRouted RankingIgnoresTheUnfit HighMeansMeasured DiffIsWhole
