SPECIFICATION Spec
CONSTANTS
  Sizes <- TenElements
  SizeMod = 1024
INVARIANT InBuffer
