SPECIFICATION QSpec
CONSTANTS
  Configs       <- RequestConfigs
  Inputs        <- RequestInputs
  HaSetpoints   = {}
  DhwCommands   = {50, 55}
  BoostRequests <- Boosts
  Restores      <- ColdBoot
  Dts           = {1}
  Lates         = {0, 1}
  AgeMax        = 2
  ClockMod      = 7
  CountMod      = 1
  HoursMax      = 1
  HourMs        = 1
  SecondMs      = 3
  ResendMs      = 1
  DhwRetryMs    = 2
  DhwMaxTries   = 2
  BoostMax      = 2
INVARIANTS
  BoostOnTime DhwWritesBounded
PROPERTIES
  DhwCommandCarriedOut
