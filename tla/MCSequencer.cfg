SPECIFICATION Spec
CONSTANTS
  MaxVersions = 3
  BarSteps = 2
  MaxStep = 3
INVARIANTS Permutation NoTornRead FreshUnlessStraddled LastRequestWins
PROPERTIES SnapshotImmutable UsesTripleBuffer ImplementsChannel QueuedLandsOnBar
