SPECIFICATION Spec
CONSTANTS
  NumSlots = 2
  BarSteps = 1
  MaxStep = 5
  Wrap = FALSE
  Ops = {"play", "stop", "song"}
  MaxOps = 4
  Variations = 1
  Songs <- VerseLoop
  TwoTicks = TRUE
  SeenFirst = FALSE
  SongAlone = FALSE
INVARIANT SongStartsAtOnce
