SPECIFICATION Spec
CONSTANTS
  N = 4
  Setups <- Blocking
INVARIANT DataInv
PROPERTY Termination
CHECK_DEADLOCK FALSE
