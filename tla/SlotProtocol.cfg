SPECIFICATION FairSpec
CONSTANTS
  NumSlots = 2
  BarSteps = 1
  MaxStep = 1
  Wrap = TRUE
  Ops = {"play", "stop", "select", "edit", "undo", "copy", "clear", "evolve", "load", "prepare"}
  MaxOps = 4
  Variations = 1
  Songs <- NoSong
  TwoTicks = FALSE
  SeenFirst = FALSE
  SongAlone = FALSE
INVARIANTS ScreenMatchesEngine NoLostWork SavedIsTheWork
PROPERTIES NoWedge UndoStaysHome
