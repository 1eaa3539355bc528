SPECIFICATION FairSpec
CONSTANTS
  Buffers = {b1, b2}
  Pads = {p1, p2}
  Voices = {v1}
  MaxLayers = 2
  Capacity = 2
  MaxTriggers = 1
INVARIANTS NeverLastOnAudio OnlyQueuedDangle EngineFollowsKit
PROPERTY Reclaimed
