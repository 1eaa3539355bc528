SPECIFICATION Spec
CONSTANT MaxVersions = 6
INVARIANTS Permutation NoTornRead FreshUnlessStraddled
PROPERTY SnapshotImmutable
