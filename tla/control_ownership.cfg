SPECIFICATION HFairSpec
CONSTANTS
  Configs       <- FixedWatchdog
  Inputs        <- SourceInputs
  HaSetpoints   = {50, 70}
  DhwCommands   = {50}
  BoostRequests <- OneBoost
  Restores      <- AnyBoot
  Dts           = {1}
  Lates         = {0}
  AgeMax        = 2
  ClockMod      = 6
  CountMod      = 1
  HoursMax      = 1
  HourMs        = 1
  SecondMs      = 3
  ResendMs      = 2
  DhwRetryMs    = 2
  DhwMaxTries   = 1
  BoostMax      = 2
INVARIANTS
  HaIsAlive CommandIsCurrent
PROPERTIES
  FailsafeNeedsRelease SilenceEndsInFailsafe
