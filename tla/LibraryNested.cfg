SPECIFICATION Spec
CONSTANTS
  Drums = Drums
  Kicks = Kicks
  KickWav = KickWav
  SnareWav = SnareWav
  Folders = {Drums, Kicks}
  Paths = {KickWav, SnareWav}
  Categories = {"Kick", "Snare"}
  Absent = Absent
  Unreadable = Unreadable
  Under <- Nested
  StartFiles <- HalfCopied
  MaxRows = 1
  MaxOps = 2
INVARIANT AnalysedOnce
