SPECIFICATION Spec
CONSTANTS
  N = 3
  NoFamily = NoFamily
  NoUtil = NoUtil
  NoOs = NoOs
  NoKey = NoKey
  TargetUtilization = 65
  Catalog <- MCCatalog
  FamilyForTier <- MCFamilyForTier
  Guesses <- MCGuesses
  Maskings <- MCMaskings
  Sources <- MCSources
  OsFamily <- MCOsFamily
  KeyFamily <- MCKeyFamily
  ImageKey <- MCImageKey
  Boots <- MCBoots
  Suggestions <- MCSuggestions
  DefaultZone <- MCDefaultZone
  Zones <- MCZones
  Configs <- MCConfigs
  Approved = {"t3"}
  MaxVcpu = 4
  InternalBalancers = TRUE
INVARIANTS ClassifiedUnlessMasked PlanIsValid SizedToDemand NothingPublicIfDenied WavesInOrder ZeroDowntimeIsBalanced
CHECK_DEADLOCK FALSE
