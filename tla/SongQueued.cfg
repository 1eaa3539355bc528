SPECIFICATION Spec
CONSTANTS
  NumSlots = 3
  BarSteps = 2
  MaxStep = 9
  Wrap = FALSE
  Ops = {"play", "song"}
  MaxOps = 4
  Variations = 1
  Songs <- ComesBack
  TwoTicks = TRUE
  SeenFirst = TRUE
  SongAlone = FALSE
PROPERTY SongInTime
