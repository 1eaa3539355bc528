SPECIFICATION Spec
CONSTANTS
  Capacity = 2
  MaxHits = 3
  MaxTakes = 2
  MaxEdits = 1
INVARIANTS RecorderRunsForTakes NothingForeign EveryNoteAccounted DropsReported OneUndoPerTake
