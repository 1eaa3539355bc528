SPECIFICATION Spec
CONSTANTS
  NumSlots = 2
  BarSteps = 2
  MaxStep = 5
  Wrap = FALSE
  Ops = {"play", "song"}
  MaxOps = 2
  Variations = 1
  Songs <- VerseLoop
  TwoTicks = FALSE
  SeenFirst = TRUE
  SongAlone = TRUE
PROPERTY SongInTime
