SPECIFICATION BSpec
CONSTANTS
  Configs       <- HeatConfigs
  Inputs        <- HeatInputs
  HaSetpoints   = {50}
  DhwCommands   = {}
  BoostRequests = {}
  Restores      <- HeatBoots
  Dts           = {3}
  Lates         = {0}
  AgeMax        = 6
  ClockMod      = 4
  CountMod      = 1
  HoursMax      = 6
  HourMs        = 2
  SecondMs      = 7
  ResendMs      = 4
  DhwRetryMs    = 4
  DhwMaxTries   = 1
  BoostMax      = 1
  IdleMax       = 12
PROPERTIES
  RiseIsCarried CycleRespected ColdHouseHeats
