CONSTANTS
  m1 = m1
  m2 = m2
  l1 = l1
  l2 = l2
  l3 = l3
  a1 = a1
  a2 = a2
  a3 = a3
  Null = Null
  Methods = {m1, m2}
  Args <- SomeArgs
  Flavors <- BothClasses
  Calls <- TwoCalls
  MaxMethods = 5
  Lists = {l1, l2, l3}
  Arrays = {a1, a2, a3}
CONSTRAINT ShortLists
SYMMETRY Addresses
SPECIFICATION Spec
INVARIANTS
  DelegateTypeOK
  Accounted
  NoUseAfterFree
PROPERTIES
  KeepsOnlyUsed
  RefinesDelegateList
