SPECIFICATION Spec
CONSTANTS
  NumSlots = 2
  BarSteps = 2
  MaxStep = 7
  Wrap = FALSE
  Ops = {"play", "song", "evolve"}
  MaxOps = 5
  Variations = 1
  Songs <- VerseOnce
  TwoTicks = TRUE
  SeenFirst = TRUE
  SongAlone = TRUE
PROPERTY SongInTime
