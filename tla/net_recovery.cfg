SPECIFICATION RFairSpec
CONSTANTS
  p1 = p1
  p2 = p2
  Pairs          <- TwoPairs
  None           = None
  Homes          <- OneHome
  Fates          <- PureFates
  Overlaps       = FALSE
  SetupWindow    = 2
  SetupCeiling   = 3
  ReopenWindow   = 1
  FallbackAfter  = 4
  TrialTimeout   = 3
  AddressTimeout = 2
  RetryBackoff   = 1
  AgeMax         = 4
  QueueMax       = 2
  SavesMax       = 1
  CutsMax        = 1
INVARIANTS
  KnownGoodWorked AccessPointBounded
PROPERTIES
  StationTriesAgain WayBackWhenTurnedAway
