SPECIFICATION Spec
CONSTANTS
  N = 3
  Cap = 6
  MaxDeaths = 3
INVARIANTS
  IInv
  TrueMeansReduced
  NoDoubleCount
  ChunksAgree
  Backlog
PROPERTIES
  SendBufferStable
  Termination
CHECK_DEADLOCK FALSE
