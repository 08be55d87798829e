SPECIFICATION FairSpec
CONSTANTS
  web = web
  u1 = u1
  u2 = u2
  MaxRows = 3
  Names <- MCNames
  Blank = Blank
  Uuids = {u1, u2}
  NoUuid = NoUuid
  Tails <- MCTails
  Estates <- MCEstates
  MaxVms = 3
INVARIANTS NoMachineLost NamesUnique LabelsUnique
PROPERTIES NamingEnds
CHECK_DEADLOCK FALSE
