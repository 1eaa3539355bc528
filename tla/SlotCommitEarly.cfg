SPECIFICATION Spec
CONSTANTS
  NumSlots = 3
  BarSteps = 1
  MaxStep = 2
  Wrap = FALSE
  Ops = {"play", "select"}
  MaxOps = 3
  Variations = 1
  Songs <- NoSong
  TwoTicks = FALSE
  SeenFirst = FALSE
  SongAlone = FALSE
PROPERTY CommitWhenLanded
