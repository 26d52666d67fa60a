SPECIFICATION SpecEither
CONSTANTS
  N = 4
  Rounds = 3
INVARIANTS
  IndInv
  OneToken
  AckOfThisCall
PROPERTIES
  RefinesBarrier
  Termination
CHECK_DEADLOCK FALSE
