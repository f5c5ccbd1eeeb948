SPECIFICATION RFairSpec
CONSTANTS
  Configs       <- FixedArm
  Inputs        <- BlindInputs
  HaSetpoints   = {50}
  DhwCommands   = {}
  BoostRequests = {}
  Restores      <- NoRestore
  Dts           = {1, 2}
  Lates         = {0}
  AgeMax        = 3
  ClockMod      = 3
  CountMod      = 1
  HoursMax      = 3
  HourMs        = 2
  SecondMs      = 4
  ResendMs      = 1
  DhwRetryMs    = 0
  DhwMaxTries   = 1
  BoostMax      = 1
  SaveFails     = FALSE
  PowerCuts     = 1
  UnaskedMax    = 4
INVARIANTS
  ArmNeverLengthened SummerBound
PROPERTIES
  LoopEndsInFailsafe
