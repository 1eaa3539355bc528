CONSTANTS
  Tempos = {7, 9}
  Blocks = {3, 6}
  Pads <- MCPads
  Groups = {0, 1}
  NumVoices = 2
  Sounds <- MCSounds
  Unit = 6
  Kits <- MCKits
  Patterns <- MCPatterns
  BarSteps = 4
  MaxPending = 4
  Feels <- MCFeels
  MaxStep = 5
  MaxOps = 2
SPECIFICATION Spec
INVARIANT TapLandsOnStep
