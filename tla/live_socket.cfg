SPECIFICATION WSpec
CONSTANTS
  None = None
  Synthetic = Synthetic
  Free = 0
  Ids = {"id25"}
  Entities = {"flow", "own"}
  Source <- SmallSource
  Decode <- SmallDecode
  UnsupportedAt = 2
  TicketSlots = 2
  TicketTtl = 1
  Registry <- SmallRegistry
  Slots = {1, 2}
  Fds = {1, 2, 3}
  Answers <- SmallAnswers
  Virtuals <- SmallVirtuals
  Changes = 3
  Refusals = 1
  Issues = 3
  Opens = 3
  Seconds = 1
  Events = 6
INVARIANTS
  PageCurrentOrOwed
PROPERTIES
  PageCatchesUp GivenUpAfterTwo TicketOnceInTime
CHECK_DEADLOCK FALSE
