SPECIFICATION SSpec
CONSTANTS
  None = None
  Empty = Empty
  Sentinel = Sentinel
  Bad = Bad
  Open = Open
  Junk = Junk
  NoHost = NoHost
  s1 = s1
  s2 = s2
  k1 = k1
  h1 = h1
  h2 = h2
  u1 = u1
  Ssids = {s1, s2}
  Psks = {k1}
  Hosts = {h1, h2}
  UiPasswords = {u1}
  Plain <- SmallPlain
  PlainLegal <- SmallLegal
  PlainDefault <- SmallDefault
  ExecutorOwned <- SmallOwned
  FlowLo = 1
  FlowHi = 4
  DefaultMin = 2
  DefaultMax = 3
  DefaultFailsafe = 2
  DefaultLocal = 2
  Stores <- SmallStores
  Current = 2
  V1Dhw = "cl_dhw_en"
  Bodies <- SmallBodies
  Commands <- SmallCommands
  Overlaps = FALSE
  Edits = 2
  Fails = 1
  Cuts = 1
INVARIANTS
  DocumentLegal QuietMeansStored PasswordForItsHost
PROPERTIES
  HotWaterKept NewerStoreUntouched
CHECK_DEADLOCK FALSE
