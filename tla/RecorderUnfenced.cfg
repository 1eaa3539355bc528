SPECIFICATION Spec
CONSTANTS
  Capacity = 3
  BlockLen = 2
  MaxTakes = 1
  MaxStores = 3
INVARIANT Exclusive
