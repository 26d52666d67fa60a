SPECIFICATION Spec
CONSTANTS
  N = 3
  Setups <- PairsAndCrashes
INVARIANTS
  IInv
  TrueMeansResult
  BarrierSafe
  RecvMatchesSend
  HalfDuplex
  NothingUnread
PROPERTY Termination
CHECK_DEADLOCK FALSE
