SPECIFICATION FairSpec
CONSTANTS
  Capacity = 8
  Sizes <- BlockSizes
  Values = {0}
  Zero = 0
  ArithmeticT = TRUE
PROPERTY
  WriterServed
