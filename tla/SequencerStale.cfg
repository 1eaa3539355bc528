SPECIFICATION Spec
CONSTANTS
  MaxVersions = 2
  BarSteps = 2
  MaxStep = 1
INVARIANT LastCallPlays
