SPECIFICATION Spec
CONSTANTS
  NumSlots = 2
  QUEUE_SIZE = 2
  SIZE_T = 4
  MaxNest = 1
  Beyond = TRUE
INVARIANT Alternating
