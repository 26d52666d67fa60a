SPECIFICATION SpecHalf
CONSTANTS
  Sizes <- FittingSizes
  SizeMod = 1024
  N = 4
  IntMod = 16
  Operands <- FourBitOperands
  Shapes = {"RingReduce", "RingAllReduce", "MeshReduce", "MeshDoubling"}
  ReduceOps = {"SUM", "MAX", "MIN", "AVG"}
INVARIANTS
  InBuffer
  AllReduced
  ResultRight
  RanksAgree
