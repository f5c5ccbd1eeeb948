SPECIFICATION CSpec
CONSTANTS
  Absent = Absent
  NoPassword = NoPassword
  Requests <- SmallRequests
  HaOrders <- SmallHaOrders
  Flows = {500}
  FlowMin = 300
  FlowMax = 600
  Fallback = 400
  DhwBounds = {500}
  TableBound = 650
  Passwords <- SmallPasswords
  Salt <- SmallSalt
  FrameMax = 1
  ResendTicks = 2
  BusTicks = 1
  SeqMod = 3
  Orders = 2
  Turns = 1
  Asks = 1
  Moves = 1
  Events = 3
  Radios <- SmallRadios
  Gone <- SmallGone
INVARIANTS
  StoreKeepsLast SilencedByOwner
PROPERTIES
  NoLateOwner AskedIsWritten
CHECK_DEADLOCK FALSE
