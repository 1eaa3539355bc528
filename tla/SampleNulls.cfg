SPECIFICATION Spec
CONSTANTS
  Buffers = {b1, b2, b3}
  Pads = {p1, p2}
  Voices = {v1, v2}
  MaxLayers = 1
  Capacity = 2
  MaxTriggers = 0
INVARIANT EmptyPadIsEmpty
