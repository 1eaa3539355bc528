SPECIFICATION Spec
CONSTANTS
  NumSlots = 3
  BarSteps = 2
  MaxStep = 9
  Wrap = FALSE
  Ops = {"play", "stop", "song", "load"}
  MaxOps = 4
  Variations = 1
  Songs <- SomeSongs
  TwoTicks = TRUE
  SeenFirst = TRUE
  SongAlone = TRUE
INVARIANTS StepAtBarUnrolls SongEnding
PROPERTY SongInTime
