SPECIFICATION Spec
CONSTANTS
  N = 3
  Setups <- LoneMeshAllReduce
INVARIANT TrueMeansResult
CHECK_DEADLOCK FALSE
