SPECIFICATION RenderSpec
CONSTANTS
  dash = dash
  dot = dot
  other = other
  Plans <- SmallEstates
  SubnetTierOf <- SubnetTier
  Subnets <- FourSubnets
  Ports <- TierPorts
  WindowsImages = {"windows"}
  SsmImages = {"ubuntu"}
  Identities = {"none", "ssm"}
  LabelOf <- Label
  SafeOf <- Safe
  CidOf <- Cid
  CamelOf <- Camel
  SplitAbove = 2
  Nowhere = Nowhere
  None = None
INVARIANTS EstateIsWhole RefsResolve PlacementsAgree OneWayIn
CHECK_DEADLOCK FALSE
