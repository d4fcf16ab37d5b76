SPECIFICATION SumSpec
CONSTANTS
  k1 = k1
  k2 = k2
  k3 = k3
  k4 = k4
  k5 = k5
  k6 = k6
  t1 = t1
  t2 = t2
  NIL = NIL
  NONE = NONE
  Keys <- SomeKeys
  Values = {1, 2}
  Hash <- SomeHash
  InitSize = 1
  MaxSlots = 8
INVARIANTS TableSound FormatFound DecimalsSound ClocksSound JsonRead
PROPERTIES ImplementsMap ImplementsReplay CallsReturn
