SPECIFICATION Spec
CONSTANTS
  NumSlots = 2
  BarSteps = 1
  MaxStep = 0
  Wrap = FALSE
  Ops = {"edit", "undo", "load"}
  MaxOps = 3
  Variations = 1
  Songs <- NoSong
  TwoTicks = FALSE
  SeenFirst = FALSE
  SongAlone = FALSE
PROPERTY UndoIsOfThisProject
