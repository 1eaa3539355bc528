SPECIFICATION FairSpec
CONSTANTS
  Capacity = 3
  BlockLen = 2
  MaxTakes = 2
  MaxStores = 2
INVARIANTS ExclusiveWhenSeen TakeIsTheTake
PROPERTY WaitEnds
