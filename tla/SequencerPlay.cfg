SPECIFICATION Spec
CONSTANTS
  MaxVersions = 0
  BarSteps = 2
  MaxStep = 2
PROPERTY PlayFromTop
