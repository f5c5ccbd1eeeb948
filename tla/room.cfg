SPECIFICATION RSpec
CONSTANTS
  Junk = Junk
  NoReading = NoReading
  ClockWidth = 4
  MaxJump = 1
  MaxJumpRejects = 3
  ShieldStale = 2
  Settings <- SmallSettings
  ShieldReadings = {0}
  BrokerReadings = {0, 2, Junk}
  Gaps = {1, 3}
  Edits = 1
  AgeBound = 4
INVARIANTS
  SteerYoung SteersFromRoom
PROPERTIES
  JumpsConfirmed
