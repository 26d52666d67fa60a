SPECIFICATION Spec
CONSTANTS
  N = 3
  IntMod = 256
  Operands = {3, 6}
  Shapes = {"RingReduce", "RingAllReduce", "MeshReduce"}
  ReduceOps = {"AVG"}
INVARIANT AvgRight
