SPECIFICATION Spec
CONSTANTS
  NumSlots = 2
  BarSteps = 1
  MaxStep = 2
  Wrap = FALSE
  Ops = {"play", "select", "copy"}
  MaxOps = 3
  Variations = 1
  Songs <- NoSong
  TwoTicks = FALSE
  SeenFirst = FALSE
  SongAlone = FALSE
INVARIANT CopyIsKept
