SPECIFICATION FairSpec
CONSTANTS
  NumSlots = 2
  QUEUE_SIZE = 3
  SIZE_T = 6
  MaxNest = 1
  Beyond = FALSE
INVARIANTS FullLockTight AlternatingUnlessSpurious FlagMeansEvent ReleasedAtRest
PROPERTIES ImplementsQueue Drains
