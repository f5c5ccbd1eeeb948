SPECIFICATION LSpec
CONSTANTS
  None = None
  Synthetic = Synthetic
  NoBroker = NoBroker
  Ids = {"id25"}
  Entities = {"flow", "own"}
  Registry <- SmallRegistry
  Source <- SmallSource
  BoundsFrom <- SmallBounds
  Inverted = {1}
  Decode <- SmallDecode
  UnsupportedAt = 1
  Docs <- SmallRegistry
  Prefixes = {"opentherm", "house"}
  Settings <- SmallSettings
  FirstSettings <- SmallFirst
  InboxLen = 1
  PerPass = 2
  Answers <- SmallAnswers
  Virtuals <- SmallVirtuals
  Leaves = {"homeassistant/status", "ch_enable/set"}
  Changes = 1
  Edits = 1
  Drops = 1
  Fails = 1
  Messages = 1
  Moves = 1
  Events = 2
INVARIANTS
  HeldOrOwed OnlineMeansThere
PROPERTIES
  JudgedAsItArrived BrokerCatchesUp
