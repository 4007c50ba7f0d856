SPECIFICATION Spec
CONSTANTS
  Capacity = 4
  Sizes <- MixedSizes
  Values = {0, 1}
  Zero = 0
  ArithmeticT = TRUE
INVARIANTS
  TypeOK
  RegionsSafe
  CopyNotOverwritten
PROPERTY
  RefinesFifo
