SPECIFICATION HFairSpec
CONSTANTS
  Ring        <- SmallRing
  Identity    <- SmallIdentity
  HandWrites  <- OneHandWrite
  ExecWrites  <- OneExecWrite
  StatusBytes = {1}
  Sweeps      <- SmallSweeps
  GenMod      = 2
  SeqMod      = 2
  Width       = 3
  RxBudget    = 200
INVARIANTS
  WritePrompt
PROPERTIES
  WritesReachWire RingInOrder
